------------------------------ MODULE History ------------------------------
(***************************************************************************)
(* The commit graph: what merge, rebase and log read from the parents of   *)
(* the commits.  A graph is a function from its commits to the sequence of *)
(* their parents: none for the root, two for a merge commit.               *)
(*                                                                         *)
(* lithograph.log beside commits, merges, deleted references and gc: a     *)
(* client pages through the history of one commit while others change the  *)
(* graph.  The cursor of a page holds the start, the ready commits and,    *)
(* for each pending parent, how many of its children are still to come.    *)
(* Pages have one row here; a longer page is several steps in a row.       *)
(***************************************************************************)
EXTENDS Integers, Sequences, FiniteSets

ParentsIn(graph, c) == {graph[c][i] : i \in DOMAIN graph[c]}

ParentClosed(graph, commits) == \A c \in commits : ParentsIn(graph, c) \subseteq commits

(* ancestors: the commits that the walk over both parents visits.          *)
Ancestors(graph, start) ==
    {c \in DOMAIN graph : \A visited \in SUBSET DOMAIN graph :
        start \in visited /\ ParentClosed(graph, visited) => c \in visited}

IsAncestor(graph, ancestor, descendant) == ancestor \in Ancestors(graph, descendant)

CommonAncestors(graph, left, right) == Ancestors(graph, left) \cap Ancestors(graph, right)

(* Mutant: only the first parents of common ancestors are dominated.       *)
DominatedByFirstParent(graph, common) ==
    {graph[c][1] : c \in {d \in common : graph[d] # <<>>}}

(* dominated_ancestors: the parents of common ancestors.                   *)
Dominated(graph, common) == UNION {ParentsIn(graph, c) : c \in common}

(* best_common_ancestors.                                                  *)
BestCommonAncestors(graph, left, right) ==
    LET common == CommonAncestors(graph, left, right)
    IN  common \ Dominated(graph, common)

-----------------------------------------------------------------------------
(* First-parent chains, from a commit back to the root.                    *)
FirstParentChain(graph, head) ==
    LET chain[n \in 1..Cardinality(DOMAIN graph)] ==
            IF n = 1 THEN <<head>>
            ELSE LET last == chain[n - 1][Len(chain[n - 1])]
                 IN  IF graph[last] = <<>> THEN chain[n - 1] ELSE Append(chain[n - 1], graph[last][1])
    IN  chain[Cardinality(DOMAIN graph)]

(* first_parent_rebase_base: where the walk back from head first meets an  *)
(* ancestor of onto.                                                       *)
BoundaryIndex(graph, head, onto) ==
    LET chain == FirstParentChain(graph, head)
    IN  CHOOSE i \in DOMAIN chain : chain[i] \in Ancestors(graph, onto)
            /\ \A j \in 1..i - 1 : chain[j] \notin Ancestors(graph, onto)

(* first_parent_sequence: the commits after the boundary, oldest first.    *)
RebaseSequence(graph, head, onto) ==
    LET chain == FirstParentChain(graph, head)
        n     == BoundaryIndex(graph, head, onto) - 1
    IN  [i \in 1..n |-> chain[n + 1 - i]]

-----------------------------------------------------------------------------
Children(graph, commits, c) == {child \in commits : c \in ParentsIn(graph, child)}

(* The commit that comes first in the ready set: the latest, then the      *)
(* smallest hash.                                                          *)
FirstReady(at, hash, ready) ==
    CHOOSE c \in ready : \A d \in ready \ {c} : at[c] > at[d] \/ (at[c] = at[d] /\ hash[c] < hash[d])

(* reverse_topological_log: a commit after all of its reachable children.  *)
ReverseTopologicalLog(graph, at, hash, start) ==
    LET reachable == Ancestors(graph, start)
        from[emitted \in SUBSET reachable] ==
            IF emitted = reachable THEN <<>>
            ELSE LET ready == {c \in reachable \ emitted : Children(graph, reachable, c) \subseteq emitted}
                     next  == FirstReady(at, hash, ready)
                 IN  <<next>> \o from[emitted \cup {next}]
    IN  from[{}]

-----------------------------------------------------------------------------
CONSTANTS
    MaxCommits,  \* bound on the commits ever created
    Stamp,       \* values of committed_at; clocks may repeat or run back
    Hashes       \* the orders of the commit ids, each an injective function

VARIABLES
    graph,  \* the commits and their parents
    at,     \* committed_at of every commit ever created
    hash,   \* the order of the ids
    roots,  \* what branches, tags and merge sessions point at
    log     \* the client's progress

vars == <<graph, at, hash, roots, log>>

NoLog == [status |-> "none"]

Extend(f, x, v) == [y \in DOMAIN f \cup {x} |-> IF y = x THEN v ELSE f[y]]

Init ==
    /\ graph = [c \in {1} |-> <<>>] /\ roots = {1} /\ log = NoLog
    /\ hash \in Hashes /\ \E stamp \in Stamp : at = [c \in {1} |-> stamp]

-----------------------------------------------------------------------------
(* A commit of one or two parents; its branch pointed at the first or is   *)
(* a new one.                                                              *)
Add(parents) ==
    LET c == Cardinality(DOMAIN at) + 1
    IN  /\ c <= MaxCommits
        /\ graph' = Extend(graph, c, parents)
        /\ \E stamp \in Stamp : at' = Extend(at, c, stamp)
        /\ \E branched \in BOOLEAN : roots' = (IF branched THEN roots ELSE roots \ {parents[1]}) \cup {c}
        /\ UNCHANGED <<hash, log>>

Commit == \E p \in roots : Add(<<p>>)

(* Finalizing a merge of two diverged commits.                             *)
MergeCommit ==
    \E p, q \in roots :
        /\ ~ IsAncestor(graph, p, q) /\ ~ IsAncestor(graph, q, p)
        /\ Add(<<p, q>>)

(* A branch or tag is deleted or moved back.                               *)
Forget ==
    \E p \in roots : \E target \in Ancestors(graph, p) \ {p} :
        roots' = (roots \ {p}) \cup {target} /\ UNCHANGED <<graph, at, hash, log>>

(* lithograph.gc, on the commits.                                          *)
CollectGarbage ==
    LET live == UNION {Ancestors(graph, c) : c \in roots}
    IN  /\ live # DOMAIN graph
        /\ graph' = [c \in live |-> graph[c]]
        /\ UNCHANGED <<at, hash, roots, log>>

-----------------------------------------------------------------------------
(* new_log_traversal.                                                      *)
StartLog ==
    /\ log = NoLog
    /\ \E start \in DOMAIN graph :
           log' = [status |-> "open", start |-> start, ready |-> {start},
                   pending |-> [p \in {} |-> 0], output |-> <<>>]
    /\ UNCHANGED <<graph, at, hash, roots>>

(* Mutant: a parent is ready as soon as one of its children was emitted.   *)
RemainingNone(parent) == 0

(* Mutant: the child just emitted is still counted.                        *)
RemainingAll(parent) ==
    IF parent \in DOMAIN log.pending THEN log.pending[parent]
    ELSE Cardinality(Children(graph, Ancestors(graph, log.start), parent))

(* advance_log_parent: the children of a parent that are still to come;    *)
(* reachable_child_count gives it when the parent is first met.            *)
Remaining(parent) ==
    (IF parent \in DOMAIN log.pending THEN log.pending[parent]
     ELSE Cardinality(Children(graph, Ancestors(graph, log.start), parent))) - 1

(* decode_log_cursor reads every commit of the cursor again.               *)
CursorCommits == {log.start} \cup log.ready \cup DOMAIN log.pending

(* One row: next_log_commit, and the cursor of the row.                    *)
NextRow ==
    LET next    == FirstReady(at, hash, log.ready)
        parents == ParentsIn(graph, next)
        freed   == {p \in parents : Remaining(p) = 0}
        pending == [p \in (DOMAIN log.pending \cup parents) \ freed |->
                       IF p \in parents THEN Remaining(p) ELSE log.pending[p]]
        ready   == (log.ready \ {next}) \cup freed
    IN  /\ log' = [log EXCEPT
               !.ready = ready, !.pending = pending, !.output = Append(@, next),
               !.status = IF parents \cap log.ready # {} \/ \E p \in parents : Remaining(p) < 0 THEN "corrupt"
                          ELSE IF ready = {} /\ DOMAIN pending = {} THEN "done" ELSE "open"]
        /\ UNCHANGED <<graph, at, hash, roots>>

Log ==
    /\ log.status = "open"
    /\ IF CursorCommits \subseteq DOMAIN graph
       THEN log.ready # {} /\ NextRow
       ELSE log' = [log EXCEPT !.status = "gone"] /\ UNCHANGED <<graph, at, hash, roots>>

Next == Commit \/ MergeCommit \/ Forget \/ CollectGarbage \/ StartLog \/ Log

(* Graphs alone: no log is started and nothing is collected.               *)
GraphNext == Commit \/ MergeCommit

Spec == Init /\ [][Next]_vars
LiveSpec == Spec /\ WF_vars(Log)

-----------------------------------------------------------------------------
(* Properties                                                              *)

(* Paging with a cursor gives the rows of the one-shot traversal, however  *)
(* commits, merges and gc come between the pages: none twice, none before  *)
(* its children, and all of them when the cursor is null.                  *)
PagesAreTheLog ==
    log.status \in {"open", "done"} /\ log.start \in DOMAIN graph =>
        LET whole == ReverseTopologicalLog(graph, at, hash, log.start)
        IN  /\ Len(log.output) <= Len(whole)
            /\ \A i \in DOMAIN log.output : log.output[i] = whole[i]
            /\ log.status = "done" <=> log.output = whole

(* The traversal never reports a corrupt graph, and a cursor fails only    *)
(* when gc collected the commit the log started from.                      *)
LogFailsOnlyAfterGc ==
    /\ log.status # "corrupt"
    /\ log.status = "open" /\ log.start \in DOMAIN graph => log.ready # {} /\ CursorCommits \subseteq DOMAIN graph

(* A client that keeps asking for the next page comes to the end.          *)
Reading == log.status = "open"
LogEnds == Reading ~> ~ Reading

(* A graph whose commits all have their parents in it.                     *)
IsGraph(g) == \A c \in DOMAIN g : ParentsIn(g, c) \subseteq DOMAIN g

(* No commit is an ancestor of one of its parents: ids are hashes over the *)
(* ids of the parents.                                                     *)
Acyclic(g) == \A c \in DOMAIN g : \A p \in ParentsIn(g, c) : c \notin Ancestors(g, p)

(* Commits are numbered after their parents, and all but the first have    *)
(* one.                                                                    *)
Numbered ==
    \E n \in Nat \ {0} :
        /\ DOMAIN graph = 1..n /\ DOMAIN at = 1..n /\ roots \subseteq 1..n
        /\ \A c \in 1..n : /\ ParentsIn(graph, c) \subseteq 1..c - 1
                           /\ c # 1 => ParentsIn(graph, c) # {}

(* The best common ancestors are the common ancestors from which no other  *)
(* common ancestor is reached; there is one whatever the history, and none *)
(* of them makes another redundant.                                        *)
BestBasesAreMaximal ==
    \A left, right \in DOMAIN graph :
        LET common == CommonAncestors(graph, left, right)
        IN  /\ BestCommonAncestors(graph, left, right)
                   = {c \in common : \A d \in common : IsAncestor(graph, c, d) => c = d}
            /\ BestCommonAncestors(graph, left, right) # {}
            /\ IsAncestor(graph, left, right) => BestCommonAncestors(graph, left, right) = {left}

(* The commits a rebase replays are exactly those of the first-parent      *)
(* chain that onto does not have, each after its first parent, and the     *)
(* boundary is one of the commits onto has.                                *)
ReplaysWhatOntoLacks ==
    \A head, onto \in DOMAIN graph :
        LET chain    == FirstParentChain(graph, head)
            replayed == RebaseSequence(graph, head, onto)
        IN  /\ {replayed[i] : i \in DOMAIN replayed}
                   = {c \in {chain[i] : i \in DOMAIN chain} : ~ IsAncestor(graph, c, onto)}
            /\ \A i \in DOMAIN replayed : i > 1 => graph[replayed[i]][1] = replayed[i - 1]
            /\ replayed # <<>> => IsAncestor(graph, graph[replayed[1]][1], onto)

=============================================================================
