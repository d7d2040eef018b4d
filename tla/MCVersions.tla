----------------------------- MODULE MCVersions -----------------------------
(***************************************************************************)
(* Instances of the versioning components, of what is derived from their   *)
(* snapshots, of the queries that commit in batches and of lithograph_init *)
(* for model checking, and theorems about them.  Each part is one instance *)
(* of one component; "part" is fixed by the initial state, so the state    *)
(* graph is the disjoint union of those of the parts a .cfg names in       *)
(* Parts.  x1..x11 hold the variables of the part.                         *)
(***************************************************************************)
EXTENDS Integers, Sequences, FiniteSets, TLC, FiniteSetTheorems, SequenceTheorems, WellFoundedInduction, TLAPS

CONSTANTS
    Parts,                                      \* the parts a run looks at
    GraphCommits,                               \* bound on the commits of a graph without a log
    Connection,                                 \* connections of checkouts and sessions
    Branch, MaxCommit,                          \* as in ActiveBranch
    Session, ConflictName, UserChoice,          \* as in MergeSession
    MaxHeads, MaxRevision,
    RelationshipGraph, ConstraintGraph,         \* what merges and rebases are about: the
    NodeGraph, LoopGraph,                       \* slots, their owners, kinds and values
    MaxSources,                                 \* as in Rebase
    CorrectedIndex, RedefinedIndex,             \* the constants of IndexGenerations, of each
    ScannedIndex,                               \* instance, in a record
    TextIndex,                                  \* those of FullTextCache
    BatchQuery,                                 \* those of InTransactions
    DatabaseId, MaxInitCalls                    \* as Id and MaxCalls in Initialization

VARIABLES part, x1, x2, x3, x4, x5, x6, x7, x8, x9, x10, x11

vars == <<part, x1, x2, x3, x4, x5, x6, x7, x8, x9, x10, x11>>

-----------------------------------------------------------------------------
(* lithograph_init and full-text search.  What the proofs need of one      *)
(* instance stands before the next is declared: the provers look through   *)
(* every definition above a lemma.                                         *)

(* No connection is called nobody or none, and there is a first branch.    *)
ASSUME NamesAssumption == {"nobody", "none"} \cap Connection = {} /\ "main" \in Branch

(* Connections that initialise or migrate one file.                        *)
Opening == INSTANCE Initialization WITH file <- x1, start <- x2, writer <- x3, conn <- x4,
    Id <- DatabaseId, MaxCalls <- MaxInitCalls

(* Changes of a file give files.                                           *)
LEMMA AdvancedFile ==
    ASSUME NEW f, Opening!IsFile(f), f.marker # <<>>, NEW to \in Int
    PROVE  LET g == Opening!Advanced(f, to)
           IN  /\ Opening!IsFile(g) /\ Opening!Format(g) = to
               /\ g.marker # <<>> /\ g.marker[1].id = f.marker[1].id /\ g.marker[1].magic = f.marker[1].magic
               /\ g.meta = f.meta /\ g.groups = f.groups /\ g.commits = f.commits
               /\ g.main = f.main /\ g.sound = f.sound
<1> DEFINE m == [f.marker EXCEPT ![1] = [f.marker[1] EXCEPT !.format = to]]
           g == Opening!Advanced(f, to)
<1>1. g = [f EXCEPT !.marker = m]
  BY DEF Opening!Advanced, Opening!IsFile
<1>2. /\ 1 \in DOMAIN m /\ {"magic", "id", "format"} \subseteq DOMAIN m[1]
      /\ m[1].format = to /\ m[1].id = f.marker[1].id /\ m[1].magic = f.marker[1].magic
  BY DEF Opening!IsFile
<1> HIDE DEF m, g
<1>3. m # <<>>
  BY <1>2
<1>4. /\ {"meta", "marker", "groups", "commits", "main", "sound"} \subseteq DOMAIN g
      /\ g.marker = m /\ g.meta = f.meta /\ g.groups = f.groups /\ g.commits = f.commits /\ g.main = f.main
      /\ g.sound = f.sound
  BY <1>1 DEF Opening!IsFile
<1> QED
  BY <1>2, <1>3, <1>4 DEF Opening!IsFile, Opening!Format, g

LEMMA MetaFile ==
    ASSUME NEW f, Opening!IsFile(f), NEW m
    PROVE  LET g == [f EXCEPT !.meta = m]
           IN  /\ Opening!IsFile(g) /\ g.meta = m /\ g.marker = f.marker /\ g.groups = f.groups
               /\ g.commits = f.commits /\ g.main = f.main /\ g.sound = f.sound
  BY DEF Opening!IsFile, Opening!Format

LEMMA GroupsFile ==
    ASSUME NEW f, Opening!IsFile(f), NEW s
    PROVE  LET g == [f EXCEPT !.groups = @ \cup s]
           IN  /\ Opening!IsFile(g) /\ g.groups = f.groups \cup s /\ g.meta = f.meta /\ g.marker = f.marker
               /\ g.commits = f.commits /\ g.main = f.main /\ g.sound = f.sound
  BY DEF Opening!IsFile, Opening!Format

LEMMA MarkedFile ==
    ASSUME NEW f, Opening!IsFile(f), NEW i
    PROVE  LET g == [f EXCEPT !.marker = <<[magic |-> TRUE, id |-> i, format |-> Opening!Current]>>]
           IN  /\ Opening!IsFile(g) /\ g.meta = f.meta /\ g.groups = f.groups
               /\ g.marker # <<>> /\ g.marker[1].magic /\ Opening!Format(g) = Opening!Current
<1> DEFINE m == <<[magic |-> TRUE, id |-> i, format |-> Opening!Current]>>
           g == [f EXCEPT !.marker = m]
<1>1. /\ m # <<>> /\ 1 \in DOMAIN m /\ {"magic", "id", "format"} \subseteq DOMAIN m[1]
      /\ m[1].magic /\ m[1].format = 3
  BY DEF Opening!Current
<1> HIDE DEF m
<1>2. /\ {"meta", "marker", "groups", "commits", "main", "sound"} \subseteq DOMAIN g
      /\ g.marker = m /\ g.meta = f.meta /\ g.groups = f.groups
  BY DEF Opening!IsFile
<1> HIDE DEF g
<1>3. Opening!IsFile(g) /\ g.meta = f.meta /\ g.groups = f.groups /\ g.marker # <<>> /\ g.marker[1].magic
      /\ Opening!Format(g) = Opening!Current
  BY <1>1, <1>2 DEF Opening!IsFile, Opening!Format, Opening!Current
<1> QED
  BY <1>3 DEF g, m

LEMMA RootFile ==
    ASSUME NEW f, Opening!IsFile(f)
    PROVE  LET g == Opening!WithRoot(f)
           IN  /\ Opening!IsFile(g) /\ f.commits \subseteq g.commits /\ g.meta = f.meta /\ g.marker = f.marker
               /\ g.groups = f.groups /\ g.sound = f.sound
<1>1. CASE f.commits # {}
  BY <1>1 DEF Opening!WithRoot
<1>2. CASE f.commits = {}
  BY <1>2 DEF Opening!IsFile, Opening!WithRoot, Opening!Format
<1> QED
  BY <1>1, <1>2

(* A step that keeps to its stage keeps the invariant.                     *)
LEMMA OpeningStepKept ==
    ASSUME Opening!Opened, NEW c \in Connection, NEW pc, NEW next, NEW f,
           Opening!Step(c, pc, next, f), pc # "idle", next # "idle",
           Opening!IsFile(f),
           IF Opening!Settled(x4[c].saved) THEN f = x4[c].saved /\ next \in {"read", "verify", "release"}
           ELSE Opening!Stage(x4[c].saved, next, f)
    PROVE  Opening!Opened'
<1>1. x4[c].opened /\ Opening!Open(c) /\ x4[c].pc = pc /\ x4[c].told = <<>>
  BY DEF Opening!Opened, Opening!Closed, Opening!Open, Opening!Step
<1>2. /\ x1' = x1 /\ x2' = x2
      /\ x3' = IF f # x4[c].work THEN c ELSE x3
      /\ f # x4[c].work => x3 = c \/ (x3 = "none" /\ x1 = x4[c].base)
  BY DEF Opening!Step, Opening!CanWrite
<1>3. x4' = [x4 EXCEPT ![c] = [x4[c] EXCEPT !.pc = next, !.work = f]]
  BY DEF Opening!Step
<1>4. /\ {"pc", "outer", "opened", "told", "base", "saved", "work"} \subseteq DOMAIN x4'[c]
      /\ x4'[c].pc = next /\ x4'[c].opened /\ x4'[c].told = <<>> /\ x4'[c].base = x4[c].base
      /\ x4'[c].saved = x4[c].saved /\ x4'[c].work = f
  BY <1>1, <1>3 DEF Opening!Opened, Opening!Open
<1>5. x4' = [d \in Connection |-> x4'[d]] /\ \A d \in Connection \ {c} : x4'[d] = x4[d]
  BY <1>3 DEF Opening!Opened
<1>6. x3' = c => x1 = x4[c].base
  BY <1>1, <1>2 DEF Opening!Open
<1>7. Opening!Open(c)'
  <2>1. Opening!Settled(x4[c].base) => f = x4[c].base
    BY <1>1 DEF Opening!Open
  <2>2. x3' # c => f = x4[c].base
    BY <1>1, <1>2 DEF Opening!Open
  <2>3. IF Opening!Settled(x4[c].saved) THEN f = x4[c].saved /\ next \in {"read", "verify", "release"}
        ELSE Opening!Stage(x4[c].saved, next, f)
    OBVIOUS
  <2>4. x4'[c].told = <<>> /\ x4'[c].pc # "idle"
    BY <1>4
  <2> QED
    BY <1>1, <1>2, <1>4, <1>6, <2>1, <2>2, <2>3, <2>4 DEF Opening!Open
<1>8. ASSUME NEW d \in Connection, d # c PROVE IF x4'[d].opened THEN Opening!Open(d)' ELSE Opening!Closed(d)'
  <2>1. x3 = c \/ x3 = "none" \/ x3' = x3
    BY <1>2
  <2>2. x3' = d <=> x3 = d
    BY <1>2, <1>8, NamesAssumption
  <2> QED
    BY <1>2, <1>5, <1>8, <2>2 DEF Opening!Opened, Opening!Open, Opening!Closed
<1> QED
  BY <1>2, <1>4, <1>5, <1>7, <1>8 DEF Opening!Opened

(* What a running invocation has made of its file.                         *)
LEMMA OpeningAt ==
    ASSUME Opening!Opened, NEW c \in Connection, x4[c].pc # "idle"
    PROVE  /\ x4[c].opened /\ Opening!IsFile(x4[c].saved) /\ Opening!IsFile(x4[c].work)
           /\ IF Opening!Settled(x4[c].saved)
              THEN x4[c].work = x4[c].saved /\ x4[c].pc \in {"read", "verify", "release"}
              ELSE Opening!Stage(x4[c].saved, x4[c].pc, x4[c].work)
  BY DEF Opening!Opened, Opening!Open, Opening!Closed

(* What a transaction would commit.                                        *)
LEMMA OpeningCommits ==
    ASSUME Opening!Opened, NEW c \in Connection, x4[c].opened, x4[c].pc \in {"idle", "release"}
    PROVE  /\ Opening!IsFile(x4[c].work)
           /\ x3 # c => x4[c].work = x4[c].base
           /\ x3 = c => x4[c].work = x1 \/ (~Opening!Settled(x1) /\ Opening!Good(x1, x4[c].work))
           /\ x4[c].pc = "release" => Opening!Settled(x4[c].work)
           /\ x3 # c /\ Opening!Settled(x4[c].work) => x4[c].work = x1
           /\ x4[c].told # <<>> => Opening!Settled(x4[c].work) /\ x4[c].told = <<x4[c].work.marker[1].id>>
<1> DEFINE x == x4[c]
<1>1. Opening!Open(c)
  BY DEF Opening!Opened
<1>2. /\ Opening!IsFile(x.work)
      /\ Opening!Settled(x.base) => x1 = x.base /\ x.saved = x.base /\ x.work = x.base
      /\ IF x3 = c THEN x1 = x.base ELSE x.work = x.base
      /\ x.saved = x.base \/ Opening!Good(x.base, x.saved)
      /\ x.told # <<>> => x.pc = "idle" /\ Opening!Settled(x.work) /\ x.told = <<x.work.marker[1].id>>
  BY <1>1 DEF Opening!Open
<1>3. x.pc = "idle" => x.work = x.base \/ Opening!Good(x.base, x.work)
  BY <1>1 DEF Opening!Open
<1>4. ASSUME x.pc = "release" PROVE Opening!Settled(x.work) /\ (x.work = x.base \/ Opening!Good(x.base, x.work))
  <2>1. IF Opening!Settled(x.saved) THEN x.work = x.saved ELSE Opening!Good(x.saved, x.work)
    BY <1>4, OpeningAt DEF Opening!Stage
  <2>2. Opening!Good(x.base, x.saved) => Opening!Settled(x.saved)
    BY DEF Opening!Good
  <2>3. Opening!Good(x.saved, x.work) => Opening!Settled(x.work)
    BY DEF Opening!Good
  <2> QED
    BY <1>2, <2>1, <2>2, <2>3
<1> QED
  BY <1>2, <1>3, <1>4

(* The end of a transaction.                                               *)
LEMMA OpeningRowKept ==
    ASSUME Opening!Opened, NEW c \in Connection, NEW row,
           \/ x1' = x1
           \/ x3 = c /\ ~Opening!Settled(x1) /\ Opening!Good(x1, x1') /\ Opening!IsFile(x1'),
           x2' = x2, x3' = IF x3 = c THEN "none" ELSE x3,
           x4' = [x4 EXCEPT ![c] = row],
           {"pc", "outer", "opened", "told"} \subseteq DOMAIN row, row.pc = "idle", ~row.opened,
           row.told # <<>> => Opening!Settled(x1') /\ row.told = <<x1'.marker[1].id>>
    PROVE  Opening!Opened'
<1>1. /\ {"pc", "outer", "opened", "told"} \subseteq DOMAIN x4'[c]
      /\ x4'[c].pc = "idle" /\ ~x4'[c].opened /\ x4'[c].told = row.told
  BY DEF Opening!Opened
<1>2. x4' = [d \in Connection |-> x4'[d]] /\ \A d \in Connection \ {c} : x4'[d] = x4[d]
  BY DEF Opening!Opened
<1>3. Opening!Settled(x1) => x1' = x1
  OBVIOUS
<1>4. Opening!IsFile(x1') /\ (x1' = x2 \/ Opening!Good(x2, x1'))
  <2>1. Opening!Good(x2, x1) => Opening!Settled(x1)
    BY DEF Opening!Good
  <2> QED
    BY <2>1 DEF Opening!Opened
<1>5. Opening!Closed(c)'
  <2>1. x3' # c
    BY NamesAssumption
  <2> QED
    BY <1>1, <2>1 DEF Opening!Closed
<1>6. ASSUME NEW d \in Connection, d # c PROVE IF x4'[d].opened THEN Opening!Open(d)' ELSE Opening!Closed(d)'
  <2>1. x3' = d <=> x3 = d
    BY <1>6, NamesAssumption
  <2>2. x4'[d] = x4[d] /\ (x3 = d => x1' = x1)
    BY <1>2, <1>6
  <2>3. CASE x4[d].opened
    <3>1. Opening!Open(d)
      BY <2>3 DEF Opening!Opened
    <3> QED
      BY <1>3, <2>1, <2>2, <2>3, <3>1 DEF Opening!Open
  <2>4. CASE ~x4[d].opened
    <3>1. Opening!Closed(d)
      BY <2>4 DEF Opening!Opened
    <3> QED
      BY <1>3, <2>1, <2>2, <2>4, <3>1 DEF Opening!Closed
  <2> QED
    BY <2>3, <2>4
<1>7. x3' \in Connection \cup {"none"} /\ Opening!IsFile(x2)
  BY DEF Opening!Opened
<1> QED
  BY <1>1, <1>2, <1>4, <1>5, <1>6, <1>7 DEF Opening!Opened

LEMMA OpeningEndKept ==
    ASSUME Opening!Opened, NEW c \in Connection, NEW h, NEW n, NEW told,
           \/ x1' = x1
           \/ x3 = c /\ ~Opening!Settled(x1) /\ Opening!Good(x1, x1') /\ Opening!IsFile(x1'),
           x2' = x2, x3' = IF x3 = c THEN "none" ELSE x3,
           x4' = [x4 EXCEPT ![c] = [pc |-> "idle", outer |-> FALSE, opened |-> FALSE, healthy |-> h,
                                    calls |-> n, told |-> told]],
           told # <<>> => Opening!Settled(x1') /\ told = <<x1'.marker[1].id>>
    PROVE  Opening!Opened'
<1> DEFINE row == [pc |-> "idle", outer |-> FALSE, opened |-> FALSE, healthy |-> h, calls |-> n, told |-> told]
<1>1. /\ x4' = [x4 EXCEPT ![c] = row]
      /\ {"pc", "outer", "opened", "told"} \subseteq DOMAIN row /\ row.pc = "idle" /\ ~row.opened
      /\ row.told = told
  OBVIOUS
<1> HIDE DEF row
<1> QED
  BY <1>1, OpeningRowKept

LEMMA OpeningHostCommit ==
    ASSUME Opening!Opened, NEW c \in Connection, Opening!HostCommit(c)
    PROVE  /\ Opening!Opened'
           /\ x1' = x1 \/ (~Opening!Settled(x1) /\ Opening!Good(x1, x1'))
<1> DEFINE told == x4[c].told
<1>1. /\ x4[c].pc = "idle" /\ x2' = x2 /\ x3' = IF x3 = c THEN "none" ELSE x3
      /\ x1' = IF x3 = c THEN x4[c].work ELSE x1
      /\ x4' = [x4 EXCEPT ![c] = [pc |-> "idle", outer |-> FALSE, opened |-> FALSE, healthy |-> x4[c].healthy,
                                  calls |-> x4[c].calls, told |-> told]]
  BY DEF Opening!HostCommit, Opening!EndTransaction
<1>2. CASE x4[c].opened
  <2>1. x1' = x1 \/ (x3 = c /\ ~Opening!Settled(x1) /\ Opening!Good(x1, x1') /\ Opening!IsFile(x1'))
    BY <1>1, <1>2, OpeningCommits
  <2>2. told # <<>> => Opening!Settled(x1') /\ told = <<x1'.marker[1].id>>
    BY <1>1, <1>2, OpeningCommits
  <2> HIDE DEF told
  <2> QED
    BY <1>1, <2>1, <2>2, OpeningEndKept
<1>3. CASE ~x4[c].opened
  <2>1. x3 # c /\ (told # <<>> => Opening!Settled(x1) /\ told = <<x1.marker[1].id>>)
    BY <1>3 DEF Opening!Opened, Opening!Closed
  <2>2. x1' = x1
    BY <1>1, <2>1
  <2> HIDE DEF told
  <2> QED
    BY <1>1, <2>1, <2>2, OpeningEndKept
<1> QED
  BY <1>2, <1>3

LEMMA OpeningHostRollback ==
    ASSUME Opening!Opened, NEW c \in Connection, Opening!HostRollback(c)
    PROVE  Opening!Opened' /\ x1' = x1
<1>1. /\ x1' = x1 /\ x2' = x2 /\ x3' = IF x3 = c THEN "none" ELSE x3
      /\ x4' = [x4 EXCEPT ![c] = [pc |-> "idle", outer |-> FALSE, opened |-> FALSE, healthy |-> x4[c].healthy,
                                  calls |-> x4[c].calls, told |-> <<>>]]
  BY DEF Opening!HostRollback, Opening!EndTransaction
<1> QED
  BY <1>1, OpeningEndKept

(* An interrupt, a failed cleanup or a crash.                              *)
LEMMA OpeningLost ==
    ASSUME Opening!Opened, NEW c \in Connection,
           (\E quarantine \in BOOLEAN : Opening!FailCleanup(c, quarantine)) \/ Opening!Crash(c)
    PROVE  Opening!Opened' /\ x1' = x1
<1>1. x1' = x1 /\ x2' = x2 /\ x3' = IF x3 = c THEN "none" ELSE x3
  BY DEF Opening!FailCleanup, Opening!Crash
<1>2. CASE Opening!Crash(c)
  <2> DEFINE row == [Opening!Idle EXCEPT !.calls = x4[c].calls]
  <2>1. x4' = [x4 EXCEPT ![c] = row]
    BY <1>2 DEF Opening!Crash
  <2>2. {"pc", "outer", "opened", "told"} \subseteq DOMAIN row /\ row.pc = "idle" /\ ~row.opened /\ row.told = <<>>
    BY DEF Opening!Idle
  <2> HIDE DEF row
  <2> QED
    BY <1>1, <2>1, <2>2, OpeningRowKept
<1>3. ASSUME NEW quarantine \in BOOLEAN, Opening!FailCleanup(c, quarantine) PROVE Opening!Opened'
  <2> DEFINE row == [Opening!Idle EXCEPT !.calls = x4[c].calls, !.healthy = ~quarantine]
  <2>1. x4' = [x4 EXCEPT ![c] = row]
    BY <1>3 DEF Opening!FailCleanup
  <2>2. {"pc", "outer", "opened", "told"} \subseteq DOMAIN row /\ row.pc = "idle" /\ ~row.opened /\ row.told = <<>>
    BY DEF Opening!Idle
  <2> HIDE DEF row
  <2> QED
    BY <1>1, <2>1, <2>2, OpeningRowKept
<1> QED
  BY <1>1, <1>2, <1>3

(* An error of an invocation.                                              *)
LEMMA OpeningFail ==
    ASSUME Opening!Opened, NEW c \in Connection, Opening!Fail(c)
    PROVE  Opening!Opened' /\ x1' = x1
<1>1. x4[c].pc # "idle" /\ x4[c].opened /\ Opening!Open(c) /\ x1' = x1 /\ x2' = x2 /\ x4[c].told = <<>>
  BY OpeningAt DEF Opening!Fail, Opening!Opened, Opening!Open
<1>2. CASE x4[c].outer
  <2>1. x3' = x3 /\ x4' = [x4 EXCEPT ![c] = [x4[c] EXCEPT !.pc = "idle", !.work = x4[c].saved]]
    BY <1>2 DEF Opening!Fail
  <2>2. /\ {"pc", "outer", "opened", "told", "base", "saved", "work"} \subseteq DOMAIN x4'[c]
        /\ x4'[c].pc = "idle" /\ x4'[c].opened /\ x4'[c].told = <<>> /\ x4'[c].base = x4[c].base
        /\ x4'[c].saved = x4[c].saved /\ x4'[c].work = x4[c].saved
    BY <1>1, <2>1 DEF Opening!Opened, Opening!Open
  <2>3. x4' = [d \in Connection |-> x4'[d]] /\ \A d \in Connection \ {c} : x4'[d] = x4[d]
    BY <2>1 DEF Opening!Opened
  <2>4. x3 # c => x4[c].saved = x4[c].base
    <3>1. Opening!Settled(x4[c].saved) => x4[c].work = x4[c].saved
      BY <1>1, OpeningAt
    <3>2. ~Opening!Settled(x4[c].saved) => ~Opening!Good(x4[c].base, x4[c].saved)
      BY DEF Opening!Good
    <3>3. /\ x3 # c => x4[c].work = x4[c].base
          /\ x4[c].saved = x4[c].base \/ Opening!Good(x4[c].base, x4[c].saved)
      BY <1>1 DEF Opening!Open
    <3> QED
      BY <3>1, <3>2, <3>3
  <2>5. Opening!Open(c)'
    BY <1>1, <2>1, <2>2, <2>4 DEF Opening!Open
  <2>6. ASSUME NEW d \in Connection, d # c PROVE IF x4'[d].opened THEN Opening!Open(d)' ELSE Opening!Closed(d)'
    BY <1>1, <2>1, <2>3, <2>6 DEF Opening!Opened, Opening!Open, Opening!Closed
  <2> QED
    BY <1>1, <2>1, <2>2, <2>3, <2>5, <2>6 DEF Opening!Opened
<1>3. CASE ~x4[c].outer
  <2>1. /\ x3' = IF x3 = c THEN "none" ELSE x3
        /\ x4' = [x4 EXCEPT ![c] = [pc |-> "idle", outer |-> FALSE, opened |-> FALSE,
                                    healthy |-> x4[c].healthy, calls |-> x4[c].calls, told |-> <<>>]]
    BY <1>3 DEF Opening!Fail, Opening!EndTransaction
  <2> QED
    BY <1>1, <2>1, OpeningEndKept
<1> QED
  BY <1>1, <1>2, <1>3

(* The answer of an invocation.                                            *)
LEMMA OpeningRelease ==
    ASSUME Opening!Opened, NEW c \in Connection, Opening!Release(c)
    PROVE  /\ Opening!Opened'
           /\ x1' = x1 \/ (~Opening!Settled(x1) /\ Opening!Good(x1, x1'))
<1>1. x4[c].pc = "release" /\ x4[c].opened /\ Opening!Open(c) /\ x2' = x2
  BY OpeningAt DEF Opening!Release, Opening!Opened
<1>2. Opening!Settled(x4[c].work) /\ Opening!IsFile(x4[c].work)
  BY <1>1, OpeningCommits
<1>3. CASE x4[c].outer
  <2> DEFINE told == <<x4[c].work.marker[1].id>>
  <2>1. x1' = x1 /\ x3' = x3 /\ x4' = [x4 EXCEPT ![c] = [x4[c] EXCEPT !.pc = "idle", !.told = told]]
    BY <1>3 DEF Opening!Release, Opening!Result, Opening!Work
  <2>2. told # <<>>
    OBVIOUS
  <2>3. /\ {"pc", "outer", "opened", "told", "base", "saved", "work"} \subseteq DOMAIN x4'[c]
        /\ x4'[c].pc = "idle" /\ x4'[c].opened /\ x4'[c].told = told /\ x4'[c].base = x4[c].base
        /\ x4'[c].saved = x4[c].saved /\ x4'[c].work = x4[c].work
    <3> HIDE DEF told
    <3> QED
      BY <1>1, <2>1 DEF Opening!Opened, Opening!Open
  <2>4. x4' = [d \in Connection |-> x4'[d]] /\ \A d \in Connection \ {c} : x4'[d] = x4[d]
    <3> HIDE DEF told
    <3> QED
      BY <2>1 DEF Opening!Opened
  <2>5. x4[c].work = x4[c].base \/ Opening!Good(x4[c].base, x4[c].work)
    BY <1>1, OpeningCommits DEF Opening!Open
  <2>6. x4'[c].told = <<x4'[c].work.marker[1].id>>
    BY <2>3
  <2> HIDE DEF told
  <2>7. Opening!Open(c)'
    BY <1>1, <1>2, <2>1, <2>3, <2>5, <2>6 DEF Opening!Open
  <2>8. ASSUME NEW d \in Connection, d # c PROVE IF x4'[d].opened THEN Opening!Open(d)' ELSE Opening!Closed(d)'
    BY <1>1, <2>1, <2>4, <2>8 DEF Opening!Opened, Opening!Open, Opening!Closed
  <2> QED
    BY <1>1, <2>1, <2>3, <2>4, <2>7, <2>8 DEF Opening!Opened
<1>4. CASE ~x4[c].outer
  <2> DEFINE told == <<x4[c].work.marker[1].id>>
  <2>1. /\ x1' = IF x3 = c THEN x4[c].work ELSE x1
        /\ x3' = IF x3 = c THEN "none" ELSE x3
        /\ x4' = [x4 EXCEPT ![c] = [pc |-> "idle", outer |-> FALSE, opened |-> FALSE,
                                    healthy |-> x4[c].healthy, calls |-> x4[c].calls, told |-> told]]
    BY <1>4 DEF Opening!Release, Opening!EndTransaction, Opening!Result, Opening!Work
  <2>2. Opening!Settled(x1') /\ told = <<x1'.marker[1].id>>
    BY <1>1, <1>2, <2>1, OpeningCommits
  <2>3. x1' = x1 \/ (x3 = c /\ ~Opening!Settled(x1) /\ Opening!Good(x1, x1') /\ Opening!IsFile(x1'))
    BY <1>1, <2>1, OpeningCommits
  <2> HIDE DEF told
  <2> QED
    BY <1>1, <2>1, <2>2, <2>3, OpeningEndKept
<1> QED
  BY <1>3, <1>4

(* The first step of an invocation, and the host's BEGIN.                  *)
LEMMA OpeningCall ==
    ASSUME Opening!Opened, NEW c \in Connection, Opening!Call(c)
    PROVE  Opening!Opened' /\ x1' = x1
<1> DEFINE seen == Opening!View(c)
           base == IF Opening!IsOpen(c) THEN x4[c].base ELSE x1
<1>1. /\ x4[c].pc = "idle" /\ x1' = x1 /\ x2' = x2 /\ x3' = x3
      /\ x4' = [x4 EXCEPT ![c] = [pc |-> "read", outer |-> x4[c].outer, opened |-> TRUE, healthy |-> TRUE,
                                  calls |-> x4[c].calls + 1, told |-> <<>>,
                                  base |-> base, saved |-> seen, work |-> seen]]
  BY DEF Opening!Call
<1>2. /\ Opening!IsFile(base) /\ Opening!IsFile(seen)
      /\ base = x2 \/ Opening!Settled(base)
      /\ Opening!Settled(base) => x1 = base /\ seen = base
      /\ IF x3 = c THEN x1 = base ELSE seen = base
      /\ seen = base \/ Opening!Good(base, seen)
  <2>1. CASE x4[c].opened
    <3>1. Opening!Open(c) /\ base = x4[c].base /\ seen = x4[c].work
      BY <2>1 DEF Opening!Opened, Opening!View, Opening!IsOpen
    <3> HIDE DEF base, seen
    <3> QED
      BY <1>1, <3>1 DEF Opening!Open
  <2>2. CASE ~x4[c].opened
    <3>1. Opening!Closed(c) /\ base = x1 /\ seen = x1
      BY <2>2 DEF Opening!Opened, Opening!View, Opening!IsOpen
    <3>2. Opening!IsFile(x1) /\ (x1 = x2 \/ Opening!Settled(x1))
      BY DEF Opening!Opened, Opening!Good
    <3> HIDE DEF base, seen
    <3> QED
      BY <3>1, <3>2 DEF Opening!Closed
  <2> QED
    BY <2>1, <2>2
<1> HIDE DEF base, seen
<1>3. /\ {"pc", "outer", "opened", "told", "base", "saved", "work"} \subseteq DOMAIN x4'[c]
      /\ x4'[c].pc = "read" /\ x4'[c].opened /\ x4'[c].told = <<>> /\ x4'[c].base = base
      /\ x4'[c].saved = seen /\ x4'[c].work = seen
  BY <1>1 DEF Opening!Opened
<1>4. x4' = [d \in Connection |-> x4'[d]] /\ \A d \in Connection \ {c} : x4'[d] = x4[d]
  BY <1>1 DEF Opening!Opened
<1>5. Opening!Open(c)'
  BY <1>1, <1>2, <1>3 DEF Opening!Open, Opening!Stage
<1>6. ASSUME NEW d \in Connection, d # c PROVE IF x4'[d].opened THEN Opening!Open(d)' ELSE Opening!Closed(d)'
  BY <1>1, <1>4, <1>6 DEF Opening!Opened, Opening!Open, Opening!Closed
<1> QED
  BY <1>1, <1>3, <1>4, <1>5, <1>6 DEF Opening!Opened

LEMMA OpeningHostBegin ==
    ASSUME Opening!Opened, NEW c \in Connection, Opening!HostBegin(c)
    PROVE  Opening!Opened' /\ x1' = x1
<1>1. x1' = x1 /\ x2' = x2 /\ x3' = x3 /\ x4[c].pc = "idle" /\ x4' = [x4 EXCEPT ![c] = [x4[c] EXCEPT !.outer = TRUE]]
  BY DEF Opening!HostBegin
<1>2. x4' = [d \in Connection |-> x4'[d]] /\ (\A d \in Connection \ {c} : x4'[d] = x4[d])
      /\ x4'[c] = [x4[c] EXCEPT !.outer = TRUE]
  BY <1>1 DEF Opening!Opened
<1>3. ASSUME x4[c].opened PROVE x4'[c].opened /\ Opening!Open(c)'
  <2>1. Opening!Open(c)
    BY <1>3 DEF Opening!Opened
  <2>2. /\ {"pc", "outer", "opened", "told", "base", "saved", "work"} \subseteq DOMAIN x4'[c]
        /\ x4'[c].pc = x4[c].pc /\ x4'[c].opened /\ x4'[c].told = x4[c].told /\ x4'[c].base = x4[c].base
        /\ x4'[c].saved = x4[c].saved /\ x4'[c].work = x4[c].work
    BY <1>2, <1>3, <2>1 DEF Opening!Open
  <2> QED
    BY <1>1, <1>3, <2>1, <2>2 DEF Opening!Open
<1>4. ASSUME ~x4[c].opened PROVE ~x4'[c].opened /\ Opening!Closed(c)'
  <2>1. Opening!Closed(c)
    BY <1>4 DEF Opening!Opened
  <2>2. /\ {"pc", "outer", "opened", "told"} \subseteq DOMAIN x4'[c]
        /\ x4'[c].pc = "idle" /\ ~x4'[c].opened /\ x4'[c].told = x4[c].told
    BY <1>2, <1>4, <2>1 DEF Opening!Closed
  <2> QED
    BY <1>1, <1>4, <2>1, <2>2 DEF Opening!Closed
<1>5. ASSUME NEW d \in Connection, d # c PROVE IF x4'[d].opened THEN Opening!Open(d)' ELSE Opening!Closed(d)'
  BY <1>1, <1>2, <1>5 DEF Opening!Opened, Opening!Open, Opening!Closed
<1> QED
  BY <1>1, <1>2, <1>3, <1>4, <1>5 DEF Opening!Opened

(* The steps of an invocation.                                             *)
LEMMA OpeningReadMetadata ==
    ASSUME Opening!Opened, NEW c \in Connection, Opening!ReadMetadata(c)
    PROVE  Opening!Opened' /\ x1' = x1
<1> DEFINE f == x4[c].saved
           g == x4[c].work
<1>1. x4[c].pc = "read" /\ Opening!IsFile(g) /\ x1' = x1
      /\ (IF Opening!Settled(f) THEN g = f ELSE Opening!Stage(f, "read", g))
  BY OpeningAt DEF Opening!ReadMetadata, Opening!Step
<1>2. g = f
  BY <1>1 DEF Opening!Stage
<1>3. CASE Opening!Metadata(g) = "none" /\ ~Opening!Evidence(g) /\ Opening!Step(c, "read", "create meta", g)
  <2>1. ~Opening!Settled(f) /\ Opening!Stage(f, "create meta", g)
    BY <1>2, <1>3 DEF Opening!Evidence, Opening!Stage, Opening!Fresh, Opening!Settled, Opening!FullyOk,
       Opening!RuntimeOk, Opening!BaseOk, Opening!HasMarker
  <2> HIDE DEF f, g
  <2>2. Opening!Opened'
    BY <1>1, <1>3, <2>1, OpeningStepKept DEF f
  <2> QED
    BY <1>1, <2>2
<1>4. CASE Opening!Metadata(g) = "some" /\ Opening!Supported(g) /\
           Opening!Step(c, "read", IF Opening!Format(g) = Opening!Current THEN "verify"
                                   ELSE IF Opening!Bootstrap(g) THEN "bootstrap" ELSE "migrate", g)
  <2>1. Opening!BaseOk(g)
    BY <1>4 DEF Opening!Metadata, Opening!BaseOk, Opening!HasMarker
  <2>2. Opening!Format(g) \in 1..3
    BY <1>4 DEF Opening!Supported, Opening!Oldest, Opening!Current
  <2>3. Opening!Settled(f) => Opening!Format(g) = Opening!Current
    BY <1>2 DEF Opening!Settled
  <2>4. Opening!Migrating(f, g, Opening!Format(g))
    BY <1>2, <2>1, <2>2 DEF Opening!Migrating, Opening!BaseOk
  <2> DEFINE next == IF Opening!Format(g) = Opening!Current THEN "verify"
                     ELSE IF Opening!Bootstrap(g) THEN "bootstrap" ELSE "migrate"
  <2>5. /\ next # "idle"
        /\ IF Opening!Settled(f) THEN g = f /\ next \in {"read", "verify", "release"}
           ELSE Opening!Stage(f, next, g)
    BY <1>2, <2>2, <2>3, <2>4 DEF Opening!Stage, Opening!Current
  <2>6. Opening!Step(c, "read", next, g)
    BY <1>4
  <2> HIDE DEF f, g, next
  <2>7. Opening!Opened'
    BY <1>1, <2>5, <2>6, OpeningStepKept DEF f
  <2> QED
    BY <1>1, <2>7
<1> QED
  BY <1>3, <1>4 DEF Opening!ReadMetadata, Opening!Work

(* A step of an invocation that changes its file.                          *)
LEMMA OpeningChange ==
    ASSUME Opening!Opened, NEW c \in Connection, NEW pc, NEW next, NEW f, Opening!Step(c, pc, next, f),
           pc \notin {"idle", "read", "verify", "release"}, next # "idle", Opening!IsFile(f),
           Opening!Stage(x4[c].saved, pc, x4[c].work) => Opening!Stage(x4[c].saved, next, f)
    PROVE  Opening!Opened' /\ x1' = x1
<1>1. x4[c].pc = pc /\ x1' = x1
  BY DEF Opening!Step
<1>2. ~Opening!Settled(x4[c].saved) /\ Opening!Stage(x4[c].saved, pc, x4[c].work)
  BY <1>1, OpeningAt
<1>3. Opening!Opened'
  BY <1>2, OpeningStepKept
<1> QED
  BY <1>1, <1>3

LEMMA OpeningFresh ==
    ASSUME Opening!Opened, NEW c \in Connection,
           \/ Opening!CreateMeta(c)
           \/ \E id \in DatabaseId : Opening!InsertMarker(c, id)
           \/ Opening!CreateSchema(c)
           \/ Opening!InitializeRoot(c)
    PROVE  Opening!Opened' /\ x1' = x1
<1> DEFINE g == x4[c].work
<1>1. x4[c].pc # "idle" => Opening!IsFile(g)
  BY OpeningAt
<1>2. CASE Opening!CreateMeta(c)
  <2> DEFINE h == [g EXCEPT !.meta = "table"]
  <2>1. Opening!Step(c, "create meta", "mark", h) /\ x4[c].pc # "idle"
    BY <1>2 DEF Opening!CreateMeta, Opening!Work, Opening!Step
  <2>2. Opening!IsFile(h) /\ h.meta = "table"
    BY <1>1, <2>1, MetaFile
  <2> HIDE DEF g, h
  <2>3. Opening!Stage(x4[c].saved, "create meta", x4[c].work) => Opening!Stage(x4[c].saved, "mark", h)
    BY <2>2 DEF Opening!Stage
  <2> QED
    BY <2>1, <2>2, <2>3, OpeningChange
<1>3. ASSUME NEW id \in DatabaseId, Opening!InsertMarker(c, id) PROVE Opening!Opened' /\ x1' = x1
  <2> DEFINE h == [g EXCEPT !.marker = <<[magic |-> TRUE, id |-> id, format |-> Opening!Current]>>]
  <2>1. Opening!Step(c, "mark", "schema", h) /\ x4[c].pc # "idle"
    BY <1>3 DEF Opening!InsertMarker, Opening!Work, Opening!Step
  <2>2. Opening!IsFile(h) /\ h.meta = g.meta /\ h.marker # <<>> /\ h.marker[1].magic
        /\ Opening!Format(h) = Opening!Current
    BY <1>1, <2>1, MarkedFile
  <2>3. Opening!Stage(x4[c].saved, "mark", g) => Opening!Stage(x4[c].saved, "schema", h)
    <3> HIDE DEF g, h
    <3> QED
      BY <2>2 DEF Opening!Stage, Opening!HasMarker
  <2> HIDE DEF h
  <2> QED
    BY <2>1, <2>2, <2>3, OpeningChange
<1>4. CASE Opening!CreateSchema(c)
  <2> DEFINE h == [g EXCEPT !.groups = @ \cup Opening!Expected(Opening!Current)]
  <2>1. Opening!Step(c, "schema", "root", h) /\ x4[c].pc # "idle"
    BY <1>4 DEF Opening!CreateSchema, Opening!Work, Opening!Step
  <2>2. Opening!IsFile(h) /\ h.meta = g.meta /\ h.marker = g.marker
    BY <1>1, <2>1, GroupsFile
  <2>3. Opening!Stage(x4[c].saved, "schema", g) => Opening!Stage(x4[c].saved, "root", h)
    <3> HIDE DEF g, h
    <3> QED
      BY <2>2 DEF Opening!Stage, Opening!HasMarker, Opening!Format
  <2> HIDE DEF h
  <2> QED
    BY <2>1, <2>2, <2>3, OpeningChange
<1>5. CASE Opening!InitializeRoot(c)
  <2> DEFINE h == Opening!WithRoot(g)
  <2>1. Opening!Step(c, "root", "verify", h) /\ x4[c].pc # "idle"
    BY <1>5 DEF Opening!InitializeRoot, Opening!Work, Opening!Step
  <2>2. Opening!IsFile(h) /\ h.meta = g.meta /\ h.marker = g.marker
    BY <1>1, <2>1, RootFile
  <2>3. Opening!Stage(x4[c].saved, "root", g) => Opening!Stage(x4[c].saved, "verify", h)
    <3> HIDE DEF g, h
    <3>1. Opening!Fresh(x4[c].saved) => Opening!Follows(x4[c].saved, h) /\ ~Opening!Refuses(x4[c].saved)
      BY DEF Opening!Fresh, Opening!Follows, Opening!Refuses, Opening!HasMarker
    <3> QED
      BY <2>2, <3>1 DEF Opening!Stage, Opening!Format
  <2> HIDE DEF h
  <2> QED
    BY <2>1, <2>2, <2>3, OpeningChange
<1> QED
  BY <1>2, <1>3, <1>4, <1>5

LEMMA OpeningBootstrap ==
    ASSUME Opening!Opened, NEW c \in Connection,
           Opening!MigrateBootstrap(c) \/ Opening!MigrateBootstrapRoot(c) \/ Opening!CheckBootstrap(c)
    PROVE  Opening!Opened' /\ x1' = x1
<1> DEFINE f == x4[c].saved
           g == x4[c].work
<1>1. x4[c].pc # "idle" => Opening!IsFile(f) /\ Opening!IsFile(g)
  BY OpeningAt
<1>2. CASE Opening!MigrateBootstrap(c)
  <2> DEFINE h == [g EXCEPT !.groups = @ \cup Opening!Expected(Opening!Current)]
  <2>1. Opening!Step(c, "bootstrap", "bootstrap root", h) /\ x4[c].pc # "idle"
    BY <1>2 DEF Opening!MigrateBootstrap, Opening!Work, Opening!Step
  <2>2. Opening!IsFile(h) /\ h.meta = g.meta /\ h.marker = g.marker /\ h.commits = g.commits /\ h.sound = g.sound
    BY <1>1, <2>1, GroupsFile
  <2>3. Opening!Stage(f, "bootstrap", g) => Opening!Stage(f, "bootstrap root", h)
    <3> HIDE DEF f, g, h
    <3> QED
      BY <2>2 DEF Opening!Stage
  <2> HIDE DEF h
  <2> QED
    BY <2>1, <2>2, <2>3, OpeningChange
<1>3. CASE Opening!MigrateBootstrapRoot(c)
  <2> DEFINE r == Opening!WithRoot(g)
             h == Opening!Advanced(r, Opening!Current)
  <2>1. Opening!Step(c, "bootstrap root", "bootstrap check", h) /\ x4[c].pc # "idle"
    BY <1>3 DEF Opening!MigrateBootstrapRoot, Opening!Work, Opening!Step
  <2>2. Opening!IsFile(r) /\ g.commits \subseteq r.commits /\ r.meta = g.meta /\ r.marker = g.marker
        /\ r.sound = g.sound
    BY <1>1, <2>1, RootFile
  <2>3. Opening!Stage(f, "bootstrap root", g) /\ x4[c].pc = "bootstrap root"
    <3>1. x4[c].pc = "bootstrap root"
      BY <2>1 DEF Opening!Step
    <3> QED
      BY <3>1, OpeningAt
  <2>4. Opening!Bootstrap(f) /\ g.meta = f.meta /\ g.marker = f.marker /\ g.commits = f.commits /\ g.sound = f.sound
    BY <2>3 DEF Opening!Stage
  <2>5. r.marker # <<>> /\ r.marker[1].magic /\ f.meta = "table" /\ Opening!Format(f) \in 1..3
    BY <2>2, <2>4 DEF Opening!Bootstrap, Opening!BaseOk, Opening!HasMarker, Opening!Supported, Opening!Oldest,
       Opening!Current
  <2>6. /\ Opening!IsFile(h) /\ Opening!Format(h) = Opening!Current /\ h.marker # <<>>
        /\ h.marker[1].id = r.marker[1].id /\ h.marker[1].magic = r.marker[1].magic
        /\ h.meta = r.meta /\ h.commits = r.commits /\ h.sound = r.sound
    <3>1. Opening!Current \in Int
      BY DEF Opening!Current
    <3> QED
      BY <2>2, <2>5, <3>1, AdvancedFile
  <2> HIDE DEF f, g, h, r
  <2>7. Opening!Follows(f, h)
    BY <2>2, <2>4, <2>5, <2>6 DEF Opening!Follows, Opening!HasMarker, Opening!Current
  <2>8. Opening!Stage(f, "bootstrap check", h)
    BY <2>2, <2>4, <2>6, <2>7 DEF Opening!Stage
  <2> QED
    BY <2>1, <2>6, <2>8, OpeningChange DEF f
<1>4. CASE Opening!CheckBootstrap(c)
  <2>1. Opening!Step(c, "bootstrap check", "verify", g) /\ x4[c].pc # "idle" /\ Opening!FullyOk(g)
    BY <1>4 DEF Opening!CheckBootstrap, Opening!Work, Opening!Step
  <2> HIDE DEF f, g
  <2>2. ASSUME Opening!Stage(f, "bootstrap check", g) PROVE Opening!Stage(f, "verify", g)
    <3>1. Opening!Bootstrap(f) /\ Opening!Follows(f, g) /\ g.sound = f.sound /\ Opening!Format(g) = Opening!Current
      BY <2>2 DEF Opening!Stage
    <3>2. ~Opening!Refuses(f)
      BY <2>1, <3>1 DEF Opening!Refuses, Opening!FullyOk, Opening!Bootstrap, Opening!BaseOk, Opening!HasMarker,
         Opening!Supported, Opening!Format, Opening!Oldest, Opening!Current
    <3> QED
      BY <3>1, <3>2 DEF Opening!Stage
  <2>3. Opening!Stage(x4[c].saved, "bootstrap check", x4[c].work) => Opening!Stage(x4[c].saved, "verify", g)
    BY <2>2 DEF f, g
  <2>4. Opening!IsFile(g)
    BY <1>1, <2>1
  <2> QED
    BY <2>1, <2>3, <2>4, OpeningChange
<1> QED
  BY <1>2, <1>3, <1>4

LEMMA OpeningMigrate ==
    ASSUME Opening!Opened, NEW c \in Connection,
           Opening!MigrateSchema(c) \/ Opening!AdvanceFormat(c) \/ Opening!CheckMigrated(c)
    PROVE  Opening!Opened' /\ x1' = x1
<1> DEFINE f == x4[c].saved
           g == x4[c].work
           to == Opening!NextFormat(c)
<1>1. x4[c].pc # "idle" => Opening!IsFile(f) /\ Opening!IsFile(g)
  BY OpeningAt
<1>2. to = Opening!Format(g) + 1
  BY DEF Opening!NextFormat, Opening!Work
<1>3. CASE Opening!MigrateSchema(c)
  <2> DEFINE h == [g EXCEPT !.groups = @ \cup Opening!Added(to)]
  <2>1. /\ Opening!Step(c, "migrate", "advance", h) /\ x4[c].pc = "migrate"
        /\ Opening!Added(to) \cap g.groups = {}
    BY <1>3 DEF Opening!MigrateSchema, Opening!Work, Opening!Step
  <2>2. Opening!IsFile(h) /\ h.groups = g.groups \cup Opening!Added(to) /\ h.meta = g.meta /\ h.marker = g.marker
        /\ h.commits = g.commits /\ h.sound = g.sound
    BY <1>1, <2>1, GroupsFile
  <2>3. Opening!Stage(f, "migrate", g)
    BY <2>1, OpeningAt
  <2> HIDE DEF f, g, h, to
  <2>4. Opening!Migrating(f, g, Opening!Format(g)) /\ Opening!Format(g) < 3
    BY <2>3 DEF Opening!Stage, Opening!Current
  <2>5. Opening!Format(f) \in 1..3 /\ Opening!Format(f) <= Opening!Format(g) /\ Opening!Format(g) \in 1..2
    BY <1>1, <2>1, <2>4 DEF Opening!Migrating, Opening!BaseOk, Opening!Supported, Opening!Oldest, Opening!Current,
       Opening!IsFile, Opening!HasMarker
  <2>6. Opening!Migrating(f, h, to)
    BY <1>2, <2>1, <2>2, <2>4, <2>5 DEF Opening!Migrating, Opening!Added, Opening!Expected, Opening!HasMarker,
       Opening!Format
  <2>7. Opening!Format(h) = Opening!Format(g) /\ to = Opening!Format(h) + 1
    BY <1>2, <2>2 DEF Opening!Format
  <2>8. Opening!Stage(f, "advance", h)
    BY <2>4, <2>6, <2>7 DEF Opening!Stage, Opening!Current
  <2> QED
    BY <2>1, <2>2, <2>8, OpeningChange DEF f
<1>4. CASE Opening!AdvanceFormat(c)
  <2> DEFINE h == Opening!Advanced(g, to)
  <2>1. Opening!Step(c, "advance", "migrated", h) /\ x4[c].pc = "advance"
    BY <1>4 DEF Opening!AdvanceFormat, Opening!Work, Opening!Step
  <2>2. Opening!Stage(f, "advance", g)
    BY <2>1, OpeningAt
  <2>3. Opening!Migrating(f, g, to) /\ Opening!Format(g) < 3
    BY <1>2, <2>2 DEF Opening!Stage, Opening!Current
  <2>4. g.marker # <<>> /\ Opening!Format(g) \in Int /\ to \in Int /\ g.meta = "table" /\ g.marker[1].magic
    BY <1>1, <1>2, <2>1, <2>3 DEF Opening!Migrating, Opening!HasMarker, Opening!IsFile
  <2>5. /\ Opening!IsFile(h) /\ Opening!Format(h) = to /\ h.marker # <<>>
        /\ h.marker[1].id = g.marker[1].id /\ h.marker[1].magic = g.marker[1].magic
        /\ h.meta = g.meta /\ h.groups = g.groups /\ h.commits = g.commits /\ h.sound = g.sound
    <3> HIDE DEF to
    <3> QED
      BY <1>1, <2>1, <2>4, AdvancedFile
  <2> HIDE DEF f, g, h, to
  <2>6. Opening!Format(f) \in 1..3 /\ Opening!Format(f) <= Opening!Format(g)
    BY <2>3 DEF Opening!Migrating, Opening!BaseOk, Opening!Supported, Opening!Oldest, Opening!Current
  <2>7. Opening!Migrating(f, h, to) /\ Opening!Format(h) <= 3
    BY <1>2, <2>3, <2>4, <2>5, <2>6 DEF Opening!Migrating, Opening!HasMarker
  <2>8. Opening!Stage(f, "migrated", h)
    BY <2>5, <2>7 DEF Opening!Stage, Opening!Current
  <2> QED
    BY <2>1, <2>5, <2>8, OpeningChange DEF f
<1>5. CASE Opening!CheckMigrated(c)
  <2> DEFINE next == IF Opening!Format(g) = Opening!Current THEN "verify" ELSE "migrate"
  <2>1. Opening!Step(c, "migrated", next, g) /\ x4[c].pc = "migrated" /\ Opening!FullyOk(g)
    BY <1>5 DEF Opening!CheckMigrated, Opening!Work, Opening!Step
  <2>2. Opening!Stage(f, "migrated", g)
    BY <2>1, OpeningAt
  <2>3. next # "idle"
    OBVIOUS
  <2>4. next = IF Opening!Format(g) = Opening!Current THEN "verify" ELSE "migrate"
    OBVIOUS
  <2> HIDE DEF f, g, next
  <2>5. Opening!Migrating(f, g, Opening!Format(g)) /\ Opening!Format(g) <= 3
    BY <2>2 DEF Opening!Stage, Opening!Current
  <2>6. /\ Opening!Format(f) \in 1..3 /\ Opening!Format(g) \in 1..3
        /\ g.groups = Opening!Expected(Opening!Format(g)) /\ g.sound /\ Opening!BaseOk(f)
    BY <2>1, <2>5 DEF Opening!Migrating, Opening!FullyOk, Opening!RuntimeOk, Opening!BaseOk, Opening!Supported,
       Opening!Oldest, Opening!Current
  <2>7. f.groups = Opening!Expected(Opening!Format(f))
    <3>1. /\ f.groups \cap (Opening!Expected(Opening!Format(g)) \ Opening!Expected(Opening!Format(f))) = {}
          /\ Opening!Expected(Opening!Format(g)) =
                f.groups \cup (Opening!Expected(Opening!Format(g)) \ Opening!Expected(Opening!Format(f)))
          /\ Opening!Format(f) <= Opening!Format(g)
      BY <2>5, <2>6 DEF Opening!Migrating
    <3>2. Opening!Expected(Opening!Format(f)) \subseteq Opening!Expected(Opening!Format(g))
      BY <2>6, <3>1 DEF Opening!Expected
    <3> QED
      BY <3>1, <3>2
  <2>8. ~Opening!Refuses(f) /\ Opening!Follows(f, g)
    BY <2>5, <2>6, <2>7 DEF Opening!Refuses, Opening!Follows, Opening!Migrating, Opening!BaseOk, Opening!HasMarker,
       Opening!Format
  <2>9. Opening!Stage(f, next, g)
    BY <2>4, <2>5, <2>6, <2>8 DEF Opening!Stage, Opening!Current
  <2> QED
    BY <1>1, <2>1, <2>3, <2>9, OpeningChange DEF f, g
<1> QED
  BY <1>3, <1>4, <1>5

LEMMA OpeningVerify ==
    ASSUME Opening!Opened, NEW c \in Connection, Opening!Verify(c)
    PROVE  Opening!Opened' /\ x1' = x1
<1> DEFINE f == x4[c].saved
           g == x4[c].work
<1>1. Opening!Step(c, "verify", "release", g) /\ x4[c].pc = "verify" /\ Opening!FullyOk(g) /\ x1' = x1
  BY DEF Opening!Verify, Opening!Work, Opening!Step
<1>2. Opening!IsFile(g) /\ (IF Opening!Settled(f) THEN g = f ELSE Opening!Stage(f, "verify", g))
  BY <1>1, OpeningAt
<1> HIDE DEF f, g
<1>3. ASSUME ~Opening!Settled(f) PROVE Opening!Stage(f, "release", g)
  <2>1. (g = f \/ (Opening!Follows(f, g) /\ ~Opening!Refuses(f))) /\ Opening!Format(g) = Opening!Current
    BY <1>2, <1>3 DEF Opening!Stage
  <2>2. Opening!Settled(g)
    BY <1>1, <2>1 DEF Opening!Settled
  <2> QED
    BY <1>3, <2>1, <2>2 DEF Opening!Stage, Opening!Good
<1>4. Opening!Opened'
  BY <1>1, <1>2, <1>3, OpeningStepKept DEF f
<1> QED
  BY <1>1, <1>4

(* Every step keeps the invariant, and changes a file that is not settled  *)
(* into a settled one alone.                                               *)
LEMMA OpeningKept ==
    ASSUME Opening!Opened, [Opening!Next]_(Opening!vars)
    PROVE  /\ Opening!Opened'
           /\ x1' = x1 \/ (~Opening!Settled(x1) /\ Opening!Good(x1, x1'))
<1>1. CASE UNCHANGED Opening!vars
  BY <1>1 DEF Opening!vars, Opening!Opened, Opening!Open, Opening!Closed
<1>2. ASSUME NEW c \in Connection, Opening!Progress(c)
      PROVE  Opening!Opened' /\ (x1' = x1 \/ (~Opening!Settled(x1) /\ Opening!Good(x1, x1')))
  BY <1>2, OpeningReadMetadata, OpeningFresh, OpeningBootstrap, OpeningMigrate, OpeningVerify, OpeningRelease,
     OpeningFail DEF Opening!Progress
<1>3. CASE Opening!Next
  BY <1>2, <1>3, OpeningCall, OpeningHostBegin, OpeningHostCommit, OpeningHostRollback, OpeningLost
  DEF Opening!Next
<1> QED
  BY <1>1, <1>3

LEMMA OpeningAtFirst == Opening!Init => Opening!Opened
<1> SUFFICES ASSUME Opening!Init PROVE Opening!Opened
  OBVIOUS
<1>1. x1 \in Opening!Files /\ x2 = x1 /\ x3 = "none" /\ x4 = [c \in Connection |-> Opening!Idle]
  BY DEF Opening!Init
<1>2. Opening!IsFile(x1)
  <2>1. \A n \in 0..4 : Opening!IsFile(Opening!Versioned(n))
    BY DEF Opening!IsFile, Opening!Versioned, Opening!Marked, Opening!Format
  <2>2. Opening!IsFile(Opening!Pristine)
    BY DEF Opening!IsFile, Opening!Pristine, Opening!MetaOnly, Opening!Versioned, Opening!Marked, Opening!Format
  <2>3. Opening!IsFile(Opening!MetaOnly)
    BY DEF Opening!IsFile, Opening!Pristine, Opening!MetaOnly, Opening!Versioned, Opening!Marked, Opening!Format
  <2>4. Opening!IsFile([Opening!Pristine EXCEPT !.groups = {"other"}])
    BY DEF Opening!IsFile, Opening!Pristine, Opening!MetaOnly, Opening!Versioned, Opening!Marked, Opening!Format
  <2>5. Opening!IsFile([Opening!Versioned(3) EXCEPT !.meta = "nothing", !.marker = <<>>])
    BY DEF Opening!IsFile, Opening!Pristine, Opening!MetaOnly, Opening!Versioned, Opening!Marked, Opening!Format
  <2>6. Opening!IsFile([Opening!Pristine EXCEPT !.meta = "other"])
    BY DEF Opening!IsFile, Opening!Pristine, Opening!MetaOnly, Opening!Versioned, Opening!Marked, Opening!Format
  <2>7. Opening!IsFile([Opening!Versioned(3) EXCEPT !.marker = <<>>])
    BY DEF Opening!IsFile, Opening!Pristine, Opening!MetaOnly, Opening!Versioned, Opening!Marked, Opening!Format
  <2>8. Opening!IsFile([Opening!Versioned(3) EXCEPT !.marker[1].magic = FALSE])
    BY DEF Opening!IsFile, Opening!Pristine, Opening!MetaOnly, Opening!Versioned, Opening!Marked, Opening!Format
  <2>9. Opening!IsFile([Opening!Versioned(1) EXCEPT !.groups = {"base", "format2"}])
    BY DEF Opening!IsFile, Opening!Pristine, Opening!MetaOnly, Opening!Versioned, Opening!Marked, Opening!Format
  <2>10. Opening!IsFile([Opening!Versioned(2) EXCEPT !.groups = {"base", "format2", "other"}])
    BY DEF Opening!IsFile, Opening!Pristine, Opening!MetaOnly, Opening!Versioned, Opening!Marked, Opening!Format
  <2>11. Opening!IsFile([Opening!Versioned(1) EXCEPT !.sound = FALSE])
    BY DEF Opening!IsFile, Opening!Pristine, Opening!MetaOnly, Opening!Versioned, Opening!Marked, Opening!Format
  <2>12. Opening!IsFile([Opening!Versioned(3) EXCEPT !.main = "none"])
    BY DEF Opening!IsFile, Opening!Pristine, Opening!MetaOnly, Opening!Versioned, Opening!Marked, Opening!Format
  <2>13. /\ Opening!IsFile(Opening!Versioned(0)) /\ Opening!IsFile(Opening!Versioned(1))
         /\ Opening!IsFile(Opening!Versioned(2)) /\ Opening!IsFile(Opening!Versioned(3))
         /\ Opening!IsFile(Opening!Versioned(4))
    BY <2>1
  <2>14. \A g \in Opening!Files : Opening!IsFile(g)
    BY <2>2, <2>3, <2>4, <2>5, <2>6, <2>7, <2>8, <2>9, <2>10, <2>11, <2>12, <2>13, ZenonT(60)
    DEF Opening!Files
  <2> QED
    BY <1>1, <2>14
<1>3. ASSUME NEW c \in Connection PROVE ~x4[c].opened /\ Opening!Closed(c)
  BY <1>1, <1>3, NamesAssumption DEF Opening!Idle, Opening!Closed
<1> QED
  BY <1>1, <1>2, <1>3 DEF Opening!Opened

(* The invariant gives the three properties.                               *)
LEMMA OpeningStaysSafe ==
    ASSUME Opening!Opened
    PROVE  Opening!AllOrNothing /\ Opening!RefusedUntouched /\ Opening!AnswersLast
<1>1. x1 = x2 \/ Opening!Good(x2, x1)
  BY DEF Opening!Opened
<1>2. Opening!AllOrNothing /\ Opening!RefusedUntouched
  BY <1>1 DEF Opening!AllOrNothing, Opening!RefusedUntouched, Opening!Good, Opening!Settled
<1>3. ASSUME NEW c \in Connection, ~Opening!IsOpen(c), x4[c].told # <<>>
      PROVE  /\ x1.marker[1].id = x4[c].told[1]
             /\ Opening!QueryGate(x1) = "ok" /\ Opening!WriteGate(x1) = "ok"
             /\ Opening!VersionGate(x1) = "ok" /\ Opening!IntegrityGate(x1) = "ok"
  <2>1. Opening!Settled(x1) /\ x4[c].told = <<x1.marker[1].id>>
    BY <1>3 DEF Opening!Opened, Opening!Closed, Opening!IsOpen
  <2>2. /\ x1.meta = "table" /\ Opening!HasMarker(x1) /\ Opening!Format(x1) = 3 /\ Opening!RuntimeOk(x1)
        /\ Opening!FullyOk(x1)
    BY <2>1 DEF Opening!Settled, Opening!FullyOk, Opening!RuntimeOk, Opening!BaseOk, Opening!HasMarker,
       Opening!Current
  <2>3. Opening!Metadata(x1) = "some"
    BY <2>2 DEF Opening!Metadata
  <2>4. Opening!QueryGate(x1) = "ok"
    BY <2>2, <2>3 DEF Opening!QueryGate, Opening!Current
  <2>5. Opening!WriteGate(x1) = "ok"
    BY <2>2, <2>4 DEF Opening!WriteGate, Opening!Current
  <2>6. Opening!VersionGate(x1) = "ok"
    BY <2>2, <2>3 DEF Opening!VersionGate
  <2>7. Opening!IntegrityGate(x1) = "ok"
    BY <2>2 DEF Opening!IntegrityGate, Opening!Current
  <2> QED
    BY <2>1, <2>4, <2>5, <2>6, <2>7
<1> QED
  BY <1>2, <1>3 DEF Opening!AnswersLast

(* And the identity of a file outlives every step.                         *)
LEMMA OpeningKeepsIdentity ==
    ASSUME Opening!Opened, [Opening!Next]_(Opening!vars)
    PROVE  Opening!KeepsIdentity
<1>1. x1' = x1 \/ Opening!Good(x1, x1')
  BY OpeningKept
<1>2. CASE x1' = x1
  <2>1. Opening!HasMarker(x1) => Opening!Format(x1) \in Int
    BY DEF Opening!Opened, Opening!IsFile, Opening!HasMarker
  <2> QED
    BY <1>2, <2>1 DEF Opening!KeepsIdentity
<1>3. CASE Opening!Good(x1, x1')
  BY <1>3 DEF Opening!Good, Opening!Follows, Opening!KeepsIdentity
<1> QED
  BY <1>1, <1>2, <1>3

-----------------------------------------------------------------------------
(* The tables of a full-text index, with calls of its analyzers in calls.  *)
FullText == INSTANCE FullTextCache WITH tables <- x1, child <- x2, calls <- x3, count <- x4, answer <- x5,
    Owners <- TextIndex.owners, Contents <- TextIndex.contents, Matching <- TextIndex.matching,
    Configured <- TextIndex.configured, Views <- TextIndex.views, Windows <- TextIndex.windows,
    MaxDepth <- TextIndex.depth, MaxCalls <- TextIndex.calls

(* Every set of numbers has a first one.                                   *)
LEMMA LeastNumber ==
    ASSUME NEW S \in SUBSET Nat, S # {}
    PROVE  \E x \in S : \A y \in S : x <= y
<1> DEFINE R == OpToRel(<, Nat)
<1>1. \A x, y \in Nat : <<x, y>> \in R <=> x < y
  BY DEF OpToRel
<1>2. IsWellFoundedOn(R, Nat)
  BY NatLessThanWellFounded
<1> HIDE DEF R
<1>3. PICK x \in S : \A y \in S : ~ (<<y, x>> \in R)
  BY <1>2, WFMin
<1>4. \A y \in S : ~ (y < x)
  BY <1>1, <1>3
<1>5. x \in Nat /\ \A y \in S : y \in Nat
  OBVIOUS
<1> QED
  BY <1>4, <1>5

(* The innermost call.                                                     *)
LEMMA TextTopCall ==
    ASSUME FullText!Typed, x3 # <<>>
    PROVE  /\ Len(x3) \in Nat \ {0} /\ Len(x3) \in 1..Len(x3)
           /\ FullText!Top = x3[Len(x3)] /\ FullText!Top \in FullText!Call
              /\ FullText!Here = FullText!Top.table /\ FullText!Here \in FullText!Tables
           /\ FullText!Front(x3) \in Seq(FullText!Call) /\ Len(FullText!Front(x3)) = Len(x3) - 1
           /\ \A i \in 1..Len(x3) - 1 : FullText!Front(x3)[i] = x3[i]
<1>1. x3 \in Seq(FullText!Call) /\ Len(x3) \in Nat \ {0} /\ Len(x3) \in 1..Len(x3)
  BY DEF FullText!Typed
<1>2. FullText!Front(x3) = [i \in 1..Len(x3) - 1 |-> x3[i]]
  BY <1>1 DEF FullText!Front
<1>3. FullText!Front(x3) \in Seq(FullText!Call) /\ Len(FullText!Front(x3)) = Len(x3) - 1
  BY <1>1, <1>2
<1>4. FullText!Top = x3[Len(x3)] /\ FullText!Top \in FullText!Call
  BY <1>1, ElementOfSeq DEF FullText!Top, FullText!Last
<1>5. FullText!Here = FullText!Top.table /\ FullText!Here \in FullText!Tables
  BY <1>4 DEF FullText!Here, FullText!Call
<1>6. \A i \in 1..Len(x3) - 1 : FullText!Front(x3)[i] = x3[i]
  BY <1>2
<1> QED
  BY <1>1, <1>3, <1>4, <1>5, <1>6

(* A change of the innermost call alone.                                   *)
LEMMA TextTopChanged ==
    ASSUME FullText!Typed, x3 # <<>>, NEW c \in FullText!Call, x3' = [x3 EXCEPT ![Len(x3)] = c]
    PROVE  /\ x3' \in Seq(FullText!Call) /\ Len(x3') = Len(x3) /\ x3'[Len(x3)] = c
           /\ \A i \in 1..Len(x3) : i < Len(x3) => x3'[i] = x3[i]
BY DEF FullText!Typed

(* The analyzers of calls that stay as they are.                           *)
LEMMA TextSameInForce ==
    ASSUME NEW n \in Nat, NEW nest, NEW other, NEW t, NEW a,
           \A i \in 1..n : /\ other[i].guarded = nest[i].guarded /\ other[i].table = nest[i].table
                           /\ other[i].analyzer = nest[i].analyzer,
           FullText!InForce(nest, n, t, a)
    PROVE  FullText!InForce(other, n, t, a)
BY DEF FullText!InForce, FullText!On

(* Without the last of them.                                               *)
LEMMA TextOneLess ==
    ASSUME NEW n \in Nat, NEW nest, NEW t, NEW a, ~FullText!On(nest, n + 1, t), FullText!InForce(nest,
           n + 1, t, a)
    PROVE  FullText!InForce(nest, n, t, a)
<1>1. CASE a = TextIndex.configured /\ \A i \in 1..n + 1 : ~FullText!On(nest, i, t)
  BY <1>1 DEF FullText!InForce
<1>2. CASE \E i \in 1..n + 1 : FullText!On(nest, i, t) /\ a = nest[i].analyzer /\ \A j
           \in i + 1..n + 1 : ~FullText!On(nest, j, t)
  <2>1. PICK i \in 1..n + 1 : FullText!On(nest, i, t) /\ a = nest[i].analyzer /\ \A j
        \in i + 1..n + 1 : ~FullText!On(nest, j, t)
    BY <1>2
  <2>2. i # n + 1
    BY <2>1
  <2>3. i \in 1..n /\ \A j \in i + 1..n : ~FullText!On(nest, j, t)
    BY <2>1, <2>2
  <2> QED
    BY <2>1, <2>3 DEF FullText!InForce
<1> QED
  BY <1>1, <1>2 DEF FullText!InForce

(* With one more.                                                          *)
LEMMA TextOneMore ==
    ASSUME NEW n \in Nat, NEW nest, NEW t, NEW a,
           IF FullText!On(nest, n + 1, t) THEN a = nest[n + 1].analyzer ELSE FullText!InForce(nest, n,
              t, a)
    PROVE  FullText!InForce(nest, n + 1, t, a)
<1>1. CASE FullText!On(nest, n + 1, t)
  <2>1. n + 1 \in 1..n + 1 /\ \A j \in n + 1 + 1..n + 1 : ~FullText!On(nest, j, t)
    OBVIOUS
  <2> QED
    BY <1>1, <2>1 DEF FullText!InForce
<1>2. CASE ~FullText!On(nest, n + 1, t) /\ FullText!InForce(nest, n, t, a)
  <2>1. CASE a = TextIndex.configured /\ \A i \in 1..n : ~FullText!On(nest, i, t)
    <3>1. \A i \in 1..n + 1 : i \in 1..n \/ i = n + 1
      OBVIOUS
    <3> QED
      BY <1>2, <2>1, <3>1 DEF FullText!InForce
  <2>2. CASE \E i \in 1..n : FullText!On(nest, i, t) /\ a = nest[i].analyzer /\ \A j
             \in i + 1..n : ~FullText!On(nest, j, t)
    <3>1. PICK i \in 1..n : FullText!On(nest, i, t) /\ a = nest[i].analyzer /\ \A j
          \in i + 1..n : ~FullText!On(nest, j, t)
      BY <2>2
    <3>2. i \in 1..n + 1 /\ \A j \in i + 1..n + 1 : j \in i + 1..n \/ j = n + 1
      OBVIOUS
    <3> QED
      BY <1>2, <3>1, <3>2 DEF FullText!InForce
  <2> QED
    BY <1>2, <2>1, <2>2 DEF FullText!InForce
<1> QED
  BY <1>1, <1>2

(* A call that ends leaves the analyzers as they were before it.           *)
LEMMA TextLeaveKeeps ==
    ASSUME FullText!Stacked, x3 # <<>>, FullText!Leave,
           \A t \in FullText!Tables : (t = FullText!Here /\ ~x1[t].ready) \/ x1'[t] = x1[t],
           x1' \in [FullText!Tables -> [exists : BOOLEAN, rows : SUBSET UNION TextIndex.contents,
              ready : BOOLEAN]],
           x1[FullText!Here].ready \/ ~x1'[FullText!Here].ready, x4' = x4, FullText!AnswerIsRight'
    PROVE  FullText!Stacked'
<1> DEFINE n == Len(x3) - 1
<1>1. /\ n \in Nat /\ Len(x3) = n + 1 /\ Len(x3) \in 1..Len(x3) /\ FullText!Top = x3[Len(x3)]
      /\ FullText!Top \in FullText!Call /\ FullText!Here = FullText!Top.table /\ FullText!Here
         \in FullText!Tables
      /\ x3' \in Seq(FullText!Call) /\ Len(x3') = n /\ \A i \in 1..n : x3'[i] = x3[i]
  <2>1. x3' = FullText!Front(x3)
    BY DEF FullText!Leave
  <2>2. FullText!Typed
    BY DEF FullText!Stacked
  <2> QED
    BY <2>1, <2>2, TextTopCall
<1>2. /\ x2 \in [FullText!Tables -> FullText!Analyzers \cup {TextIndex.configured}]
      /\ x2' = IF FullText!Top.guarded THEN [x2 EXCEPT ![FullText!Here] = FullText!Top.previous] ELSE x2
  BY DEF FullText!Leave, FullText!Stacked, FullText!Typed
<1>3. \A i \in 1..n : i \in 1..Len(x3) /\ i < Len(x3) /\ x3[i] \in FullText!Call /\ x3[i].step = "read"
  <2>1. x3 \in Seq(FullText!Call) /\ \A i \in 1..Len(x3) : i < Len(x3) => x3[i].step = "read"
    BY DEF FullText!Stacked, FullText!Typed
  <2>2. \A i \in 1..n : i \in 1..Len(x3) /\ i < Len(x3)
    BY <1>1
  <2> QED
    BY <2>1, <2>2, ElementOfSeq
<1>4. FullText!Typed'
  <2>1. x2' \in [FullText!Tables -> FullText!Analyzers \cup {TextIndex.configured}]
    BY <1>1, <1>2 DEF FullText!Call
  <2>2. x4' \in Nat
    BY DEF FullText!Stacked, FullText!Typed
  <2> QED
    BY <1>1, <1>3, <2>1, <2>2 DEF FullText!Typed
<1>5. FullText!Filled'
  <2>1. \A i \in 1..n : x1[x3[i].table].ready /\ x3[i].table \in FullText!Tables
    BY <1>3 DEF FullText!Stacked, FullText!Filled, FullText!Call
  <2>2. FullText!ReadyMeansWhole'
    BY DEF FullText!Stacked, FullText!Filled, FullText!ReadyMeansWhole
  <2>3. \A i \in 1..n : x1'[x3[i].table] = x1[x3[i].table]
    BY <2>1
  <2>4. \A i \in 1..n : x3'[i].step = "read" /\ x1'[x3'[i].table].ready
    BY <1>1, <1>3, <2>1, <2>3
  <2> QED
    BY <1>1, <2>2, <2>4 DEF FullText!Filled
<1>6. FullText!Nested'
  <2>1. ASSUME NEW m \in 0..n, NEW t, NEW a, FullText!InForce(x3, m, t, a)
        PROVE  FullText!InForce(x3', m, t, a)
    <3>1. m \in Nat /\ \A i \in 1..m : x3'[i] = x3[i]
      BY <1>1
    <3> QED
      BY <2>1, <3>1, TextSameInForce
  <2>2. ASSUME NEW i \in 1..n
        PROVE  /\ x3'[i].guarded <=> x3'[i].step = "read" /\ x3'[i].table[2] = "override"
               /\ x3'[i].table[2] = "plain" => x3'[i].analyzer = TextIndex.configured
               /\ x3'[i].guarded => FullText!InForce(x3', i - 1, x3'[i].table, x3'[i].previous)
    <3>1. x3'[i] = x3[i] /\ i \in 1..Len(x3) /\ i - 1 \in 0..n
      BY <1>1, <1>3
    <3>2. /\ x3[i].guarded <=> x3[i].step = "read" /\ x3[i].table[2] = "override"
          /\ x3[i].table[2] = "plain" => x3[i].analyzer = TextIndex.configured
          /\ x3[i].guarded => FullText!InForce(x3, i - 1, x3[i].table, x3[i].previous)
      BY <3>1 DEF FullText!Stacked, FullText!Nested
    <3>3. x3[i].guarded => FullText!InForce(x3', i - 1, x3[i].table, x3[i].previous)
      BY <2>1, <3>1, <3>2
    <3> QED
      BY <3>1, <3>2, <3>3
  <2>3. ASSUME NEW t \in FullText!Tables
        PROVE  FullText!InForce(x3', n, t, x2'[t])
    <3>1. FullText!InForce(x3, n + 1, t, x2[t])
      BY <1>1 DEF FullText!Stacked, FullText!Nested
    <3>2. CASE FullText!On(x3, n + 1, t)
      <4>1. FullText!Top.guarded /\ FullText!Here = t
        BY <1>1, <3>2 DEF FullText!On
      <4>2. \A i \in 1..Len(x3) : x3[i].guarded => FullText!InForce(x3, i - 1, x3[i].table,
            x3[i].previous)
        BY DEF FullText!Stacked, FullText!Nested
      <4>3. n + 1 - 1 = n /\ Len(x3) = n + 1
        BY <1>1
      <4>4. FullText!InForce(x3, n, t, FullText!Top.previous)
        BY <1>1, <4>1, <4>2, <4>3
      <4>5. x2'[t] = FullText!Top.previous
        BY <1>2, <4>1
      <4> QED
        BY <1>1, <2>1, <4>4, <4>5
    <3>3. CASE ~FullText!On(x3, n + 1, t)
      <4>1. x2'[t] = x2[t]
        BY <1>1, <1>2, <3>3 DEF FullText!On
      <4>2. FullText!InForce(x3, n, t, x2[t])
        BY <1>1, <3>1, <3>3, TextOneLess
      <4> QED
        BY <1>1, <2>1, <4>1, <4>2
    <3> QED
      BY <3>2, <3>3
  <2> QED
    BY <1>1, <2>2, <2>3 DEF FullText!Nested
<1> QED
  BY <1>4, <1>5, <1>6 DEF FullText!Stacked

(* A step of the innermost call that leaves the analyzers and the calls    *)
(* around it.                                                              *)
LEMMA TextTopStep ==
    ASSUME FullText!Stacked, x3 # <<>>, NEW c \in FullText!Call, x3' = [x3 EXCEPT ![Len(x3)] = c],
           c.table = FullText!Here, c.analyzer = FullText!Top.analyzer, ~FullText!Top.guarded,
              ~c.guarded, UNCHANGED <<x2, x4, x5>>,
           c.step # "read" \/ c.table[2] # "override",
           x1' \in [FullText!Tables -> [exists : BOOLEAN, rows : SUBSET UNION TextIndex.contents,
              ready : BOOLEAN]],
           \A t \in FullText!Tables : t # FullText!Here => x1'[t] = x1[t],
           x1[FullText!Here].ready => x1'[FullText!Here] = x1[FullText!Here],
           c.step \in {"guard", "read"} => x1'[FullText!Here].ready,
           x1'[FullText!Here].ready => x1'[FullText!Here].exists
              /\ x1'[FullText!Here].rows = FullText!Here[1],
           c.step = "populate" => /\ x1'[FullText!Here].exists /\ ~x1'[FullText!Here].ready
                                  /\ x1'[FullText!Here].rows \cup c.left = FullText!Here[1]
    PROVE  FullText!Stacked'
<1> DEFINE n == Len(x3)
<1>1. /\ n \in Nat \ {0} /\ n \in 1..n /\ FullText!Top = x3[n] /\ FullText!Top \in FullText!Call
         /\ FullText!Here = FullText!Top.table /\ FullText!Here \in FullText!Tables
  <2>1. FullText!Typed
    BY DEF FullText!Stacked
  <2> QED
    BY <2>1, TextTopCall
<1>2. x3' \in Seq(FullText!Call) /\ Len(x3') = n /\ x3'[n] = c /\ \A i \in 1..n : i < n
      => x3'[i] = x3[i]
  <2>1. x3 \in Seq(FullText!Call)
    BY DEF FullText!Stacked, FullText!Typed
  <2> QED
    BY <2>1
<1>3. \A i \in 1..n : i < n => x3[i].step = "read" /\ x3[i] \in FullText!Call
  <2>1. x3 \in Seq(FullText!Call) /\ \A i \in 1..n : i < n => x3[i].step = "read"
    BY DEF FullText!Stacked, FullText!Typed
  <2> QED
    BY <2>1, ElementOfSeq
<1>4. FullText!Typed'
  <2>1. x2 \in [FullText!Tables -> FullText!Analyzers \cup {TextIndex.configured}] /\ x4 \in Nat
    BY DEF FullText!Stacked, FullText!Typed
  <2>2. x2' = x2 /\ x4' = x4
    OBVIOUS
  <2>3. \A i \in 1..Len(x3') : i < Len(x3') => x3'[i].step = "read"
    <3> SUFFICES ASSUME NEW i \in 1..Len(x3'), i < Len(x3') PROVE x3'[i].step = "read"
      OBVIOUS
    <3>1. i \in 1..n /\ i < n
      BY <1>2
    <3> QED
      BY <1>2, <1>3, <3>1
  <2> QED
    BY <1>2, <2>1, <2>2, <2>3 DEF FullText!Typed
<1>5. FullText!Filled'
  <2>1. FullText!ReadyMeansWhole'
    BY DEF FullText!Stacked, FullText!Filled, FullText!ReadyMeansWhole
  <2>2. ASSUME NEW i \in 1..n, i < n
        PROVE  x3'[i].step = "read" /\ x1'[x3'[i].table].ready
    <3>1. x1[x3[i].table].ready /\ x3[i].table \in FullText!Tables
      BY <1>3, <2>2 DEF FullText!Stacked, FullText!Filled, FullText!Call
    <3>2. x1'[x3[i].table] = x1[x3[i].table]
      BY <3>1
    <3>3. x3'[i] = x3[i] /\ x3[i].step = "read"
      BY <1>2, <1>3, <2>2
    <3> QED
      BY <3>1, <3>2, <3>3
  <2>3. /\ c.step \in {"guard", "read"} => x1'[c.table].ready
        /\ c.step = "populate" => /\ x1'[c.table].exists /\ ~x1'[c.table].ready
                                  /\ x1'[c.table].rows \cup c.left = c.table[1]
    OBVIOUS
  <2>4. ASSUME NEW i \in 1..n
        PROVE  /\ x3'[i].step \in {"guard", "read"} => x1'[x3'[i].table].ready
               /\ x3'[i].step = "populate" =>
                    /\ x1'[x3'[i].table].exists /\ ~x1'[x3'[i].table].ready
                    /\ x1'[x3'[i].table].rows \cup x3'[i].left = x3'[i].table[1]
    <3>1. CASE i < n
      <4> HIDE DEF n
      <4> QED
        BY <2>2, <3>1
    <3>2. CASE i = n
      <4>1. x3'[i] = c
        BY <1>2, <3>2
      <4> QED
        BY <2>3, <4>1
    <3> QED
      BY <1>1, <3>1, <3>2
  <2> QED
    BY <1>2, <2>1, <2>4 DEF FullText!Filled
<1>6. FullText!Nested'
  <2>1. \A i \in 1..n : /\ x3'[i].guarded = x3[i].guarded /\ x3'[i].table = x3[i].table
                        /\ x3'[i].analyzer = x3[i].analyzer
    <3>1. c.guarded = FullText!Top.guarded
      BY <1>1 DEF FullText!Call
    <3>2. \A i \in 1..n : i = n \/ i < n
      BY <1>1
    <3> QED
      BY <1>1, <1>2, <3>1, <3>2
  <2>2. ASSUME NEW m \in 0..n, NEW t, NEW a, FullText!InForce(x3, m, t, a)
        PROVE  FullText!InForce(x3', m, t, a)
    <3>1. m \in Nat /\ \A i \in 1..m : i \in 1..n
      BY <1>1
    <3> QED
      BY <2>1, <2>2, <3>1, TextSameInForce
  <2>3. ASSUME NEW i \in 1..n
        PROVE  /\ x3'[i].guarded <=> x3'[i].step = "read" /\ x3'[i].table[2] = "override"
               /\ x3'[i].table[2] = "plain" => x3'[i].analyzer = TextIndex.configured
               /\ x3'[i].guarded => FullText!InForce(x3', i - 1, x3'[i].table, x3'[i].previous)
    <3>1. /\ x3[i].guarded <=> x3[i].step = "read" /\ x3[i].table[2] = "override"
          /\ x3[i].table[2] = "plain" => x3[i].analyzer = TextIndex.configured
          /\ x3[i].guarded => FullText!InForce(x3, i - 1, x3[i].table, x3[i].previous)
      BY DEF FullText!Stacked, FullText!Nested
    <3>2. CASE i = n
      BY <1>1, <1>2, <3>1, <3>2
    <3>3. CASE i < n
      <4>1. x3'[i] = x3[i] /\ i - 1 \in 0..n
        BY <1>1, <1>2, <3>3
      <4> QED
        BY <2>2, <3>1, <4>1
    <3> QED
      BY <1>1, <3>2, <3>3
  <2>4. ASSUME NEW t \in FullText!Tables
        PROVE  FullText!InForce(x3', n, t, x2'[t])
    <3>1. FullText!InForce(x3, n, t, x2[t]) /\ n \in 0..n
      BY <1>1 DEF FullText!Stacked, FullText!Nested
    <3> QED
      BY <2>2, <3>1
  <2> QED
    BY <1>2, <2>3, <2>4 DEF FullText!Nested
<1>7. FullText!AnswerIsRight'
  BY DEF FullText!Stacked, FullText!AnswerIsRight
<1> QED
  BY <1>4, <1>5, <1>6, <1>7 DEF FullText!Stacked

(* What is known of a table while its call prepares, fills or guards it.   *)
LEMMA TextTopFacts ==
    ASSUME FullText!Stacked, NEW step, FullText!At(step)
    PROVE  /\ x3 # <<>> /\ FullText!Top \in FullText!Call /\ FullText!Top.step = step
              /\ FullText!Here = FullText!Top.table /\ FullText!Here \in FullText!Tables
           /\ x1[FullText!Here] \in [exists : BOOLEAN, rows : SUBSET UNION TextIndex.contents,
              ready : BOOLEAN]
           /\ x1[FullText!Here].ready => x1[FullText!Here].exists
              /\ x1[FullText!Here].rows = FullText!Here[1]
           /\ FullText!Here[1] \in TextIndex.contents /\ FullText!Here[2] \in {"plain", "override"}
           /\ step \in {"guard", "read"} => x1[FullText!Here].ready
           /\ step = "populate" => /\ x1[FullText!Here].exists /\ ~x1[FullText!Here].ready
                                   /\ x1[FullText!Here].rows \cup FullText!Top.left = FullText!Here[1]
           /\ step # "read" => ~FullText!Top.guarded
           /\ FullText!Here[2] = "plain" => FullText!Top.analyzer = TextIndex.configured
              /\ ~FullText!Top.guarded
           /\ step = "read" /\ FullText!Here[2] = "override" => FullText!Top.guarded
<1>1. FullText!Typed /\ x3 # <<>> /\ FullText!Top.step = step
  BY DEF FullText!Stacked, FullText!At
<1>2. FullText!Top = x3[Len(x3)] /\ Len(x3) \in 1..Len(x3) /\ FullText!Top \in FullText!Call
      /\ FullText!Here = FullText!Top.table /\ FullText!Here \in FullText!Tables
  BY <1>1, TextTopCall
<1>3. x1[FullText!Here] \in [exists : BOOLEAN, rows : SUBSET UNION TextIndex.contents, ready : BOOLEAN]
  BY <1>1, <1>2 DEF FullText!Typed
<1>4. FullText!Here[1] \in TextIndex.contents /\ FullText!Here[2] \in {"plain", "override"}
  BY <1>2 DEF FullText!Tables
<1>5. x1[FullText!Here].ready => x1[FullText!Here].exists /\ x1[FullText!Here].rows = FullText!Here[1]
  BY <1>2 DEF FullText!Stacked, FullText!Filled, FullText!ReadyMeansWhole
<1>6. /\ step \in {"guard", "read"} => x1[FullText!Here].ready
      /\ step = "populate" => /\ x1[FullText!Here].exists /\ ~x1[FullText!Here].ready
                              /\ x1[FullText!Here].rows \cup FullText!Top.left = FullText!Here[1]
  BY <1>1, <1>2 DEF FullText!Stacked, FullText!Filled
<1>7. /\ FullText!Top.guarded <=> FullText!Top.step = "read" /\ FullText!Here[2] = "override"
      /\ FullText!Here[2] = "plain" => FullText!Top.analyzer = TextIndex.configured
  BY <1>2 DEF FullText!Stacked, FullText!Nested
<1> QED
  BY <1>1, <1>2, <1>3, <1>4, <1>5, <1>6, <1>7

(* A new call.                                                             *)
LEMMA TextBeginStep ==
    ASSUME FullText!Stacked, NEW c \in TextIndex.contents, NEW a \in FullText!Analyzers, NEW v
           \in TextIndex.views, NEW w \in TextIndex.windows, FullText!Begin(c, a, v, w)
    PROVE  FullText!Stacked'
<1> DEFINE n == Len(x3)
           new == [step |-> "prepare", table |-> <<c,
              IF a = TextIndex.configured THEN "plain" ELSE "override">>,
                   analyzer |-> a, view |-> v, window |-> w, left |-> {},
                      previous |-> TextIndex.configured, guarded |-> FALSE]
<1>1. /\ x3' = Append(x3, new) /\ UNCHANGED <<x1, x2, x5>> /\ x4' = x4 + 1
      /\ x3 = <<>> \/ FullText!At("read")
  BY DEF FullText!Begin
<1>2. /\ new \in FullText!Call /\ new.step = "prepare" /\ ~new.guarded
      /\ new.table[2] = "plain" => new.analyzer = TextIndex.configured
  BY DEF FullText!Call, FullText!Tables
<1> HIDE DEF new
<1>3. x3 \in Seq(FullText!Call) /\ n \in Nat /\ x4 \in Nat
  BY DEF FullText!Stacked, FullText!Typed
<1>4. /\ x3' \in Seq(FullText!Call) /\ Len(x3') = n + 1 /\ x3'[n + 1] = new
      /\ \A i \in 1..n : x3'[i] = x3[i] /\ x3[i] \in FullText!Call
      /\ \A i \in 1..n + 1 : i \in 1..n \/ i = n + 1
  BY <1>1, <1>2, <1>3
<1>5. \A i \in 1..n : x3[i].step = "read"
  <2>1. CASE x3 = <<>>
    BY <2>1
  <2>2. CASE FullText!At("read")
    <3>1. x3 # <<>> /\ x3[n].step = "read"
      BY <2>2 DEF FullText!At, FullText!Top, FullText!Last
    <3>2. \A i \in 1..n : i = n \/ i < n
      BY <1>3
    <3> QED
      BY <3>1, <3>2 DEF FullText!Stacked, FullText!Typed
  <2> QED
    BY <1>1, <2>1, <2>2
<1>6. FullText!Typed'
  <2>1. \A i \in 1..n + 1 : i < n + 1 => x3'[i].step = "read"
    BY <1>4, <1>5
  <2> QED
    BY <1>1, <1>3, <1>4, <2>1 DEF FullText!Stacked, FullText!Typed
<1>7. FullText!Filled'
  <2>1. FullText!ReadyMeansWhole'
    BY <1>1 DEF FullText!Stacked, FullText!Filled, FullText!ReadyMeansWhole
  <2>2. \A i \in 1..n : x1[x3[i].table].ready
    BY <1>5 DEF FullText!Stacked, FullText!Filled
  <2> QED
    BY <1>1, <1>2, <1>4, <1>5, <2>1, <2>2 DEF FullText!Filled
<1>8. FullText!Nested'
  <2>1. ASSUME NEW m \in 0..n, NEW t, NEW b, FullText!InForce(x3, m, t, b)
        PROVE  FullText!InForce(x3', m, t, b)
    <3>1. m \in Nat /\ \A i \in 1..m : x3'[i] = x3[i]
      BY <1>3, <1>4
    <3> QED
      BY <2>1, <3>1, TextSameInForce
  <2>2. ASSUME NEW i \in 1..n
        PROVE  /\ x3'[i].guarded <=> x3'[i].step = "read" /\ x3'[i].table[2] = "override"
               /\ x3'[i].table[2] = "plain" => x3'[i].analyzer = TextIndex.configured
               /\ x3'[i].guarded => FullText!InForce(x3', i - 1, x3'[i].table, x3'[i].previous)
    <3>1. /\ x3[i].guarded <=> x3[i].step = "read" /\ x3[i].table[2] = "override"
          /\ x3[i].table[2] = "plain" => x3[i].analyzer = TextIndex.configured
          /\ x3[i].guarded => FullText!InForce(x3, i - 1, x3[i].table, x3[i].previous)
      BY DEF FullText!Stacked, FullText!Nested
    <3>2. x3'[i] = x3[i] /\ i - 1 \in 0..n
      BY <1>3, <1>4
    <3> QED
      BY <2>1, <3>1, <3>2
  <2>3. ASSUME NEW t \in FullText!Tables
        PROVE  FullText!InForce(x3', n + 1, t, x2'[t])
    <3>1. FullText!InForce(x3, n, t, x2[t]) /\ n \in 0..n
      BY <1>3 DEF FullText!Stacked, FullText!Nested
    <3>2. FullText!InForce(x3', n, t, x2'[t])
      BY <1>1, <2>1, <3>1
    <3>3. ~FullText!On(x3', n + 1, t)
      BY <1>2, <1>4 DEF FullText!On
    <3> QED
      BY <1>3, <3>2, <3>3, TextOneMore
  <2> QED
    BY <1>2, <1>4, <2>2, <2>3 DEF FullText!Nested
<1>9. FullText!AnswerIsRight'
  BY <1>1 DEF FullText!Stacked, FullText!AnswerIsRight
<1> QED
  BY <1>6, <1>7, <1>8, <1>9 DEF FullText!Stacked

(* A call that finds its table ready.                                      *)
LEMMA TextUseReadyStep == ASSUME FullText!Stacked, FullText!UseReady PROVE FullText!Stacked'
<1>1. FullText!At("prepare") /\ x1[FullText!Here].ready /\ UNCHANGED <<x1, x2, x4, x5>>
      /\ x3' = [x3 EXCEPT ![Len(x3)].step = "guard"]
  BY DEF FullText!UseReady, FullText!Goto
<1> DEFINE c == [FullText!Top EXCEPT !.step = "guard"]
<1>2. /\ x3 # <<>> /\ FullText!Top \in FullText!Call /\ FullText!Here = FullText!Top.table
         /\ FullText!Here \in FullText!Tables /\ ~FullText!Top.guarded
      /\ x1[FullText!Here].exists /\ x1[FullText!Here].rows = FullText!Here[1]
  BY <1>1, TextTopFacts
<1>3. c \in FullText!Call /\ c.step = "guard" /\ c.table = FullText!Here
      /\ c.analyzer = FullText!Top.analyzer /\ ~c.guarded
  BY <1>2 DEF FullText!Call
<1>4. x3' = [x3 EXCEPT ![Len(x3)] = c]
  BY <1>1 DEF FullText!Top, FullText!Last
<1>5. x1' \in [FullText!Tables -> [exists : BOOLEAN, rows : SUBSET UNION TextIndex.contents,
      ready : BOOLEAN]]
  BY <1>1 DEF FullText!Stacked, FullText!Typed
<1> HIDE DEF c
<1> QED
  BY <1>1, <1>2, <1>3, <1>4, <1>5, TextTopStep

(* A call that begins to fill its table.                                   *)
LEMMA TextFillStep ==
    ASSUME FullText!Stacked, FullText!At("prepare"), ~x1[FullText!Here].ready, UNCHANGED <<x2, x4, x5>>,
           x1' \in [FullText!Tables -> [exists : BOOLEAN, rows : SUBSET UNION TextIndex.contents,
              ready : BOOLEAN]],
           x1'[FullText!Here].exists, ~x1'[FullText!Here].ready, x1'[FullText!Here].rows = {},
           \A t \in FullText!Tables : t # FullText!Here => x1'[t] = x1[t],
           x3' = [x3 EXCEPT ![Len(x3)] = [@ EXCEPT !.step = "populate", !.left = FullText!Here[1]]]
    PROVE  FullText!Stacked'
<1> DEFINE c == [FullText!Top EXCEPT !.step = "populate", !.left = FullText!Here[1]]
<1>1. x3 # <<>> /\ FullText!Top \in FullText!Call /\ FullText!Here = FullText!Top.table
      /\ FullText!Here \in FullText!Tables /\ ~FullText!Top.guarded /\ FullText!Here[1]
      \in TextIndex.contents
  BY TextTopFacts
<1>2. /\ c \in FullText!Call /\ c.step = "populate" /\ c.table = FullText!Here
         /\ c.analyzer = FullText!Top.analyzer /\ ~c.guarded
      /\ c.left = FullText!Here[1]
  BY <1>1 DEF FullText!Call
<1>3. x3' = [x3 EXCEPT ![Len(x3)] = c]
  BY DEF FullText!Top, FullText!Last
<1> HIDE DEF c
<1> QED
  BY <1>1, <1>2, <1>3, TextTopStep

(* Owners are inserted in order of their numbers: there always is a next one.*)
LEMMA TextInsertRowStep == ASSUME FullText!Stacked, TextIndex.contents \subseteq SUBSET Nat,
   FullText!InsertRow PROVE FullText!Stacked'
<1> DEFINE o == CHOOSE o \in FullText!Top.left : \A p \in FullText!Top.left : o <= p
           c == [FullText!Top EXCEPT !.left = @ \ {o}]
<1>1. /\ FullText!At("populate") /\ FullText!Top.left # {} /\ UNCHANGED <<x2, x4, x5>>
      /\ x1' = [x1 EXCEPT ![FullText!Here].rows = @ \cup {o}]
      /\ x3' = [x3 EXCEPT ![Len(x3)].left = @ \ {o}]
  BY DEF FullText!InsertRow
<1>2. /\ x3 # <<>> /\ FullText!Top \in FullText!Call /\ FullText!Here = FullText!Top.table
         /\ FullText!Here \in FullText!Tables /\ ~FullText!Top.guarded /\ FullText!Top.step = "populate"
      /\ x1[FullText!Here].exists /\ ~x1[FullText!Here].ready
         /\ x1[FullText!Here].rows \cup FullText!Top.left = FullText!Here[1] /\ FullText!Here[1]
         \in TextIndex.contents
      /\ x1[FullText!Here] \in [exists : BOOLEAN, rows : SUBSET UNION TextIndex.contents,
         ready : BOOLEAN]
  BY <1>1, TextTopFacts
<1>3. o \in FullText!Top.left
  <2>1. FullText!Top.left \in SUBSET Nat
    BY <1>2
  <2>2. \E m \in FullText!Top.left : \A p \in FullText!Top.left : m <= p
    BY <1>1, <2>1, LeastNumber
  <2> QED
    BY <2>2
<1>4. x3' = [x3 EXCEPT ![Len(x3)] = c]
  BY <1>1 DEF FullText!Top, FullText!Last
<1> HIDE DEF o
<1>5. /\ c \in FullText!Call /\ c.step = "populate" /\ c.table = FullText!Here
         /\ c.analyzer = FullText!Top.analyzer /\ ~c.guarded
      /\ c.left = FullText!Top.left \ {o}
  BY <1>2 DEF FullText!Call
<1>6. /\ x1' \in [FullText!Tables -> [exists : BOOLEAN, rows : SUBSET UNION TextIndex.contents,
         ready : BOOLEAN]]
      /\ x1'[FullText!Here].exists /\ ~x1'[FullText!Here].ready
         /\ x1'[FullText!Here].rows = x1[FullText!Here].rows \cup {o}
      /\ \A t \in FullText!Tables : t # FullText!Here => x1'[t] = x1[t]
  <2>1. x1[FullText!Here].rows \cup {o} \in SUBSET UNION TextIndex.contents
    BY <1>2, <1>3
  <2>2. x1 \in [FullText!Tables -> [exists : BOOLEAN, rows : SUBSET UNION TextIndex.contents,
        ready : BOOLEAN]]
    BY DEF FullText!Stacked, FullText!Typed
  <2> QED
    BY <1>1, <1>2, <2>1, <2>2
<1>7. x1'[FullText!Here].rows \cup c.left = FullText!Here[1]
  BY <1>2, <1>3, <1>5, <1>6
<1> HIDE DEF c
<1> QED
  BY <1>1, <1>2, <1>4, <1>5, <1>6, <1>7, TextTopStep

(* The mark is set when all owners are in.                                 *)
LEMMA TextMarkReadyStep == ASSUME FullText!Stacked, FullText!MarkReady PROVE FullText!Stacked'
<1> DEFINE c == [FullText!Top EXCEPT !.step = "guard"]
<1>1. /\ FullText!At("populate") /\ FullText!Top.left = {} /\ UNCHANGED <<x2, x4, x5>>
      /\ x1' = [x1 EXCEPT ![FullText!Here].ready = TRUE]
      /\ x3' = [x3 EXCEPT ![Len(x3)].step = "guard"]
  BY DEF FullText!MarkReady, FullText!Goto
<1>2. /\ x3 # <<>> /\ FullText!Top \in FullText!Call /\ FullText!Here = FullText!Top.table
         /\ FullText!Here \in FullText!Tables /\ ~FullText!Top.guarded
      /\ x1[FullText!Here].exists /\ ~x1[FullText!Here].ready
         /\ x1[FullText!Here].rows \cup FullText!Top.left = FullText!Here[1]
      /\ x1[FullText!Here] \in [exists : BOOLEAN, rows : SUBSET UNION TextIndex.contents,
         ready : BOOLEAN]
  BY <1>1, TextTopFacts
<1>3. x3' = [x3 EXCEPT ![Len(x3)] = c]
  BY <1>1 DEF FullText!Top, FullText!Last
<1>4. c \in FullText!Call /\ c.step = "guard" /\ c.table = FullText!Here
      /\ c.analyzer = FullText!Top.analyzer /\ ~c.guarded
  BY <1>2 DEF FullText!Call
<1>5. /\ x1 \in [FullText!Tables -> [exists : BOOLEAN, rows : SUBSET UNION TextIndex.contents,
         ready : BOOLEAN]]
      /\ x1' \in [FullText!Tables -> [exists : BOOLEAN, rows : SUBSET UNION TextIndex.contents,
         ready : BOOLEAN]]
      /\ x1'[FullText!Here].ready /\ x1'[FullText!Here].exists
         /\ x1'[FullText!Here].rows = FullText!Here[1]
      /\ \A t \in FullText!Tables : t # FullText!Here => x1'[t] = x1[t]
  BY <1>1, <1>2 DEF FullText!Stacked, FullText!Typed
<1> HIDE DEF c
<1> QED
  BY <1>1, <1>2, <1>3, <1>4, <1>5, TextTopStep

(* An end of the innermost call that leaves the tables.                    *)
LEMMA TextEndStep ==
    ASSUME FullText!Stacked, x3 # <<>>, FullText!Leave, UNCHANGED <<x1, x4>>, FullText!AnswerIsRight'
    PROVE  FullText!Stacked'
<1>1. FullText!Typed
  BY DEF FullText!Stacked
<1>2. x1' \in [FullText!Tables -> [exists : BOOLEAN, rows : SUBSET UNION TextIndex.contents,
      ready : BOOLEAN]]
  BY <1>1 DEF FullText!Typed
<1> QED
  BY <1>2, TextLeaveKeeps

(* The calls that end in an error.                                         *)
LEMMA TextFailStep ==
    ASSUME FullText!Stacked, FullText!ResetBusy \/ FullText!InstallFails \/ FullText!FailRead
    PROVE  FullText!Stacked'
<1>1. x3 # <<>> /\ FullText!Leave /\ UNCHANGED <<x1, x4, x5>>
  BY DEF FullText!ResetBusy, FullText!InstallFails, FullText!FailRead, FullText!At
<1>2. FullText!AnswerIsRight'
  BY <1>1 DEF FullText!Stacked, FullText!AnswerIsRight
<1> QED
  BY <1>1, <1>2, TextEndStep

(* A table that is made, or emptied after a build that failed.             *)
LEMMA TextPrepareStep ==
    ASSUME FullText!Stacked, FullText!ResetIncomplete \/ FullText!CreateTable
    PROVE  FullText!Stacked'
<1>1. FullText!At("prepare") /\ (~x1[FullText!Here].ready \/ ~x1[FullText!Here].exists)
  BY DEF FullText!ResetIncomplete, FullText!CreateTable
<1>2. /\ FullText!At("prepare") /\ ~x1[FullText!Here].ready /\ x3 # <<>>
      /\ x1[FullText!Here] \in [exists : BOOLEAN, rows : SUBSET UNION TextIndex.contents,
         ready : BOOLEAN]
  BY <1>1, TextTopFacts
<1>3. /\ FullText!Here \in FullText!Tables
      /\ x1 \in [FullText!Tables -> [exists : BOOLEAN, rows : SUBSET UNION TextIndex.contents,
         ready : BOOLEAN]]
  BY <1>2, TextTopFacts DEF FullText!Stacked, FullText!Typed
<1>4. CASE FullText!ResetIncomplete
  <2>1. /\ x1' = [x1 EXCEPT ![FullText!Here].rows = {}] /\ x1[FullText!Here].exists /\ UNCHANGED <<x2,
           x4, x5>>
        /\ x3' = [x3 EXCEPT ![Len(x3)] = [@ EXCEPT !.step = "populate", !.left = FullText!Here[1]]]
    BY <1>4 DEF FullText!ResetIncomplete
  <2>2. /\ x1' \in [FullText!Tables -> [exists : BOOLEAN, rows : SUBSET UNION TextIndex.contents,
           ready : BOOLEAN]]
        /\ x1'[FullText!Here].exists /\ ~x1'[FullText!Here].ready /\ x1'[FullText!Here].rows = {}
        /\ \A t \in FullText!Tables : t # FullText!Here => x1'[t] = x1[t]
    BY <1>2, <1>3, <2>1
  <2> QED
    BY <1>2, <2>1, <2>2, TextFillStep
<1>5. CASE FullText!CreateTable
  <2>1. CASE FullText!Leave /\ UNCHANGED x1
    <3>1. FullText!AnswerIsRight' /\ x4' = x4
      BY <1>5, <2>1 DEF FullText!CreateTable, FullText!Stacked, FullText!AnswerIsRight
    <3> QED
      BY <1>2, <2>1, <3>1, TextEndStep
  <2>2. CASE /\ x1' = [x1 EXCEPT ![FullText!Here] = [exists |-> TRUE, rows |-> {}, ready |-> FALSE]]
             /\ x3' = [x3 EXCEPT ![Len(x3)] = [@ EXCEPT !.step = "populate", !.left = FullText!Here[1]]]
             /\ UNCHANGED x2
    <3>1. /\ x1' \in [FullText!Tables -> [exists : BOOLEAN, rows : SUBSET UNION TextIndex.contents,
             ready : BOOLEAN]]
          /\ x1'[FullText!Here].exists /\ ~x1'[FullText!Here].ready /\ x1'[FullText!Here].rows = {}
          /\ \A t \in FullText!Tables : t # FullText!Here => x1'[t] = x1[t]
      BY <1>3, <2>2
    <3>2. UNCHANGED <<x4, x5>>
      BY <1>5 DEF FullText!CreateTable
    <3> QED
      BY <1>2, <2>2, <3>1, <3>2, TextFillStep
  <2> QED
    BY <1>5, <2>1, <2>2 DEF FullText!CreateTable
<1> QED
  BY <1>4, <1>5

(* A build that fails leaves no mark.                                      *)
LEMMA TextFailBuildStep == ASSUME FullText!Stacked, FullText!FailBuild PROVE FullText!Stacked'
<1>1. /\ FullText!At("populate") /\ FullText!Leave /\ UNCHANGED <<x4, x5>>
      /\ x1' \in {[x1 EXCEPT ![FullText!Here].ready = FALSE, ![FullText!Here].rows = r] : r \in {{},
         x1[FullText!Here].rows}}
  BY DEF FullText!FailBuild
<1>2. /\ x3 # <<>> /\ FullText!Here \in FullText!Tables /\ ~x1[FullText!Here].ready
      /\ x1[FullText!Here] \in [exists : BOOLEAN, rows : SUBSET UNION TextIndex.contents,
         ready : BOOLEAN]
      /\ x1 \in [FullText!Tables -> [exists : BOOLEAN, rows : SUBSET UNION TextIndex.contents,
         ready : BOOLEAN]]
  BY <1>1, TextTopFacts DEF FullText!Stacked, FullText!Typed
<1>3. PICK r \in {{}, x1[FullText!Here].rows} : x1' = [x1 EXCEPT ![FullText!Here].ready = FALSE,
      ![FullText!Here].rows = r]
  BY <1>1
<1>4. r \in SUBSET UNION TextIndex.contents
  BY <1>2
<1>5. /\ x1' \in [FullText!Tables -> [exists : BOOLEAN, rows : SUBSET UNION TextIndex.contents,
         ready : BOOLEAN]]
      /\ ~x1'[FullText!Here].ready /\ \A t \in FullText!Tables : t # FullText!Here => x1'[t] = x1[t]
  BY <1>2, <1>3, <1>4
<1>6. FullText!AnswerIsRight'
  BY <1>1 DEF FullText!Stacked, FullText!AnswerIsRight
<1> QED
  BY <1>1, <1>2, <1>5, <1>6, TextLeaveKeeps

(* The analyzer in force is the one of the call that reads.                *)
LEMMA TextReadStep == ASSUME FullText!Stacked, FullText!Read PROVE FullText!Stacked'
<1>1. /\ FullText!At("read") /\ FullText!Leave /\ UNCHANGED <<x1, x4>>
      /\ x5' = [call |-> x4, table |-> FullText!Here, analyzer |-> FullText!Top.analyzer,
         view |-> FullText!Top.view, window |-> FullText!Top.window,
                    hits |-> FullText!Window(x1[FullText!Here].rows \cap TextIndex.matching[x2[FullText!Here]]
                                               \cap FullText!Top.view, FullText!Top.window)]
  BY DEF FullText!Read
<1>2. /\ x3 # <<>> /\ FullText!Top \in FullText!Call /\ FullText!Top.step = "read"
         /\ FullText!Here = FullText!Top.table /\ FullText!Here \in FullText!Tables
      /\ x1[FullText!Here].ready /\ x1[FullText!Here].rows = FullText!Here[1] /\ FullText!Here[2]
         \in {"plain", "override"}
      /\ FullText!Here[2] = "plain" => FullText!Top.analyzer = TextIndex.configured
         /\ ~FullText!Top.guarded
      /\ FullText!Here[2] = "override" => FullText!Top.guarded
  BY <1>1, TextTopFacts
<1>3. x2[FullText!Here] = FullText!Top.analyzer
  <2> DEFINE n == Len(x3)
  <2>1. n \in Nat \ {0} /\ n \in 1..n /\ FullText!Top = x3[n]
    BY <1>2, TextTopCall DEF FullText!Stacked
  <2>2. FullText!InForce(x3, n, FullText!Here, x2[FullText!Here])
    BY <1>2 DEF FullText!Stacked, FullText!Nested
  <2>3. CASE FullText!Top.guarded
    <3>1. FullText!On(x3, n, FullText!Here)
      BY <1>2, <2>1, <2>3 DEF FullText!On
    <3>2. PICK i \in 1..n : /\ FullText!On(x3, i, FullText!Here) /\ x2[FullText!Here] = x3[i].analyzer
                            /\ \A j \in i + 1..n : ~FullText!On(x3, j, FullText!Here)
      BY <2>1, <2>2, <3>1 DEF FullText!InForce
    <3>3. i = n
      BY <2>1, <3>1, <3>2
    <3> QED
      BY <2>1, <3>2, <3>3
  <2>4. CASE ~FullText!Top.guarded
    <3>1. FullText!Here[2] = "plain" /\ FullText!Top.analyzer = TextIndex.configured
      BY <1>2, <2>4
    <3>2. \A i \in 1..n : ~FullText!On(x3, i, FullText!Here)
      BY <3>1 DEF FullText!On, FullText!Stacked, FullText!Nested
    <3> QED
      BY <2>2, <3>1, <3>2 DEF FullText!InForce
  <2> QED
    BY <2>3, <2>4
<1>4. FullText!AnswerIsRight'
  BY <1>1, <1>2, <1>3 DEF FullText!AnswerIsRight
<1> QED
  BY <1>1, <1>2, <1>4, TextEndStep

(* The analyzer of a call takes the place of the one in force, which the   *)
(* call remembers.                                                         *)
LEMMA TextInstallStep == ASSUME FullText!Stacked, FullText!Install PROVE FullText!Stacked'
<1> DEFINE n == Len(x3)
           c == [FullText!Top EXCEPT !.step = "read", !.previous = x2[FullText!Here], !.guarded = TRUE]
           plain == [FullText!Top EXCEPT !.step = "read"]
<1>1. FullText!At("guard") /\ UNCHANGED <<x1, x4, x5>>
  BY DEF FullText!Install
<1>2. /\ x3 # <<>> /\ FullText!Top \in FullText!Call /\ FullText!Here = FullText!Top.table
         /\ FullText!Here \in FullText!Tables /\ ~FullText!Top.guarded
      /\ x1[FullText!Here].ready /\ x1[FullText!Here].exists
         /\ x1[FullText!Here].rows = FullText!Here[1]
  BY <1>1, TextTopFacts
<1>3. CASE FullText!Here[2] # "override"
  <2>1. x3' = [x3 EXCEPT ![Len(x3)].step = "read"] /\ UNCHANGED x2
    BY <1>3 DEF FullText!Install, FullText!Goto
  <2>2. x3' = [x3 EXCEPT ![Len(x3)] = plain]
    BY <2>1 DEF FullText!Top, FullText!Last
  <2>3. /\ plain \in FullText!Call /\ plain.step = "read" /\ plain.table = FullText!Here
           /\ plain.analyzer = FullText!Top.analyzer
        /\ ~plain.guarded
    BY <1>2 DEF FullText!Call
  <2>4. x1' \in [FullText!Tables -> [exists : BOOLEAN, rows : SUBSET UNION TextIndex.contents,
        ready : BOOLEAN]]
    BY <1>1 DEF FullText!Stacked, FullText!Typed
  <2> HIDE DEF plain
  <2> QED
    BY <1>1, <1>2, <1>3, <2>1, <2>2, <2>3, <2>4, TextTopStep
<1>4. CASE FullText!Here[2] = "override"
  <2>1. /\ x2' = [x2 EXCEPT ![FullText!Here] = FullText!Top.analyzer]
        /\ x3' = [x3 EXCEPT ![Len(x3)] = c]
    BY <1>4 DEF FullText!Install, FullText!Top, FullText!Last
  <2>2. FullText!Typed
    BY DEF FullText!Stacked
  <2>3. n \in Nat \ {0} /\ n \in 1..n /\ FullText!Top = x3[n] /\ x3 \in Seq(FullText!Call)
    BY <1>2, <2>2, TextTopCall DEF FullText!Typed
  <2>4. /\ c \in FullText!Call /\ c.step = "read" /\ c.table = FullText!Here
           /\ c.analyzer = FullText!Top.analyzer
        /\ c.guarded /\ c.previous = x2[FullText!Here] /\ FullText!Top.analyzer \in FullText!Analyzers
    BY <1>2, <2>2 DEF FullText!Call, FullText!Typed
  <2> HIDE DEF c
  <2>5. x3' \in Seq(FullText!Call) /\ Len(x3') = n /\ x3'[n] = c /\ \A i \in 1..n : i < n
        => x3'[i] = x3[i]
    BY <2>1, <2>3, <2>4
  <2>6. \A i \in 1..n : i < n => x3[i].step = "read"
    BY <2>2 DEF FullText!Typed
  <2>7. FullText!Typed'
    <3>1. x2' \in [FullText!Tables -> FullText!Analyzers \cup {TextIndex.configured}]
      BY <1>2, <2>1, <2>2, <2>4 DEF FullText!Typed
    <3>2. \A i \in 1..Len(x3') : i < Len(x3') => x3'[i].step = "read"
      BY <2>5, <2>6
    <3> QED
      BY <1>1, <2>2, <2>5, <3>1, <3>2 DEF FullText!Typed
  <2>8. FullText!Filled'
    <3>1. FullText!ReadyMeansWhole'
      BY <1>1 DEF FullText!Stacked, FullText!Filled, FullText!ReadyMeansWhole
    <3>2. \A i \in 1..n : i < n => x1[x3[i].table].ready
      BY <2>6 DEF FullText!Stacked, FullText!Filled
    <3>3. \A i \in 1..n : x3'[i].step = "read" /\ x1[x3'[i].table].ready
      BY <1>2, <2>3, <2>4, <2>5, <2>6, <3>2
    <3> QED
      BY <1>1, <2>5, <3>1, <3>3 DEF FullText!Filled
  <2>9. FullText!Nested'
    <3>1. ASSUME NEW m \in 0..n - 1, NEW t, NEW a, FullText!InForce(x3, m, t, a)
          PROVE  FullText!InForce(x3', m, t, a)
      <4>1. m \in Nat /\ \A i \in 1..m : x3'[i] = x3[i]
        BY <2>3, <2>5
      <4> QED
        BY <3>1, <4>1, TextSameInForce
    <3>2. \A t \in FullText!Tables : FullText!InForce(x3, n, t, x2[t])
      BY DEF FullText!Stacked, FullText!Nested
    <3>3. ASSUME NEW t \in FullText!Tables PROVE FullText!InForce(x3, n - 1, t, x2[t])
      <4>1. ~FullText!On(x3, n, t) /\ n - 1 \in Nat /\ n - 1 + 1 = n
        BY <1>2, <2>3 DEF FullText!On
      <4> QED
        BY <3>2, <4>1, TextOneLess
    <3>4. ASSUME NEW i \in 1..n
          PROVE  /\ x3'[i].guarded <=> x3'[i].step = "read" /\ x3'[i].table[2] = "override"
                 /\ x3'[i].table[2] = "plain" => x3'[i].analyzer = TextIndex.configured
                 /\ x3'[i].guarded => FullText!InForce(x3', i - 1, x3'[i].table, x3'[i].previous)
      <4>1. CASE i < n
        <5>1. /\ x3[i].guarded <=> x3[i].step = "read" /\ x3[i].table[2] = "override"
              /\ x3[i].table[2] = "plain" => x3[i].analyzer = TextIndex.configured
              /\ x3[i].guarded => FullText!InForce(x3, i - 1, x3[i].table, x3[i].previous)
          BY DEF FullText!Stacked, FullText!Nested
        <5>2. x3'[i] = x3[i] /\ i - 1 \in 0..n - 1
          BY <2>3, <2>5, <4>1
        <5> QED
          BY <3>1, <5>1, <5>2
      <4>2. CASE i = n
        <5>1. FullText!InForce(x3', n - 1, FullText!Here, x2[FullText!Here])
          BY <1>2, <2>3, <3>1, <3>3
        <5> QED
          BY <1>4, <2>4, <2>5, <4>2, <5>1
      <4> QED
        BY <2>3, <4>1, <4>2
    <3>5. ASSUME NEW t \in FullText!Tables PROVE FullText!InForce(x3', n, t, x2'[t])
      <4>1. CASE t = FullText!Here
        <5>1. FullText!On(x3', n, t) /\ x2'[t] = x3'[n].analyzer
          BY <1>2, <2>1, <2>2, <2>4, <2>5, <4>1 DEF FullText!On, FullText!Typed
        <5>2. \A j \in n + 1..n : ~FullText!On(x3', j, t)
          BY <2>3
        <5> QED
          BY <2>3, <5>1, <5>2 DEF FullText!InForce
      <4>2. CASE t # FullText!Here
        <5>1. x2'[t] = x2[t] /\ ~FullText!On(x3', n, t)
          BY <2>1, <2>2, <2>4, <2>5, <4>2 DEF FullText!On, FullText!Typed
        <5>2. FullText!InForce(x3', n - 1, t, x2'[t])
          BY <2>3, <3>1, <3>3, <5>1
        <5>3. n - 1 \in Nat /\ n - 1 + 1 = n
          BY <2>3
        <5> QED
          BY <5>1, <5>2, <5>3, TextOneMore
      <4> QED
        BY <4>1, <4>2
    <3> QED
      BY <2>5, <3>4, <3>5 DEF FullText!Nested
  <2>10. FullText!AnswerIsRight'
    BY <1>1 DEF FullText!Stacked, FullText!AnswerIsRight
  <2> QED
    BY <2>7, <2>8, <2>9, <2>10 DEF FullText!Stacked
<1> QED
  BY <1>3, <1>4

(* No call runs at first.                                                  *)
LEMMA FullTextAtFirst == ASSUME TextIndex.configured \in FullText!Analyzers,
   FullText!Init PROVE FullText!Stacked
<1>1. /\ x1 = [t \in FullText!Tables |-> FullText!Absent] /\ x2 = [t
         \in FullText!Tables |-> TextIndex.configured]
      /\ x3 = <<>> /\ x4 = 0 /\ x5 = FullText!None
  BY DEF FullText!Init
<1>2. Len(x3) = 0 /\ x3 \in Seq(FullText!Call)
  BY <1>1
<1>3. FullText!Typed
  BY <1>1, <1>2 DEF FullText!Typed, FullText!Absent
<1>4. FullText!Filled
  BY <1>1, <1>2 DEF FullText!Filled, FullText!ReadyMeansWhole, FullText!Absent
<1>5. FullText!Nested
  BY <1>1, <1>2 DEF FullText!Nested, FullText!InForce
<1>6. FullText!AnswerIsRight
  BY <1>1 DEF FullText!AnswerIsRight, FullText!None
<1> QED
  BY <1>3, <1>4, <1>5, <1>6 DEF FullText!Stacked

(* Every step keeps the nest of calls.                                     *)
LEMMA FullTextKept ==
    ASSUME TextIndex.contents \subseteq SUBSET Nat, FullText!Stacked, [FullText!Next]_(FullText!vars)
    PROVE  FullText!Stacked'
<1>1. CASE UNCHANGED FullText!vars
  BY <1>1 DEF FullText!vars, FullText!Stacked, FullText!Typed, FullText!Filled,
     FullText!ReadyMeansWhole, FullText!Nested, FullText!InForce, FullText!On, FullText!AnswerIsRight
<1>2. CASE FullText!Next
  BY <1>2, TextBeginStep, TextUseReadyStep, TextPrepareStep, TextFailStep, TextInsertRowStep,
     TextMarkReadyStep, TextFailBuildStep, TextInstallStep,
     TextReadStep DEF FullText!Next
<1> QED
  BY <1>1, <1>2

(* The nest of calls gives the three properties.                           *)
LEMMA FullTextStaysRight == ASSUME FullText!Stacked PROVE FullText!ReadyMeansWhole
   /\ FullText!AnswerIsRight /\ FullText!AnalyzersRestored
<1>1. FullText!ReadyMeansWhole /\ FullText!AnswerIsRight
  BY DEF FullText!Stacked, FullText!Filled
<1>2. ASSUME x3 = <<>>, NEW t \in FullText!Tables PROVE x2[t] = TextIndex.configured
  <2>1. FullText!InForce(x3, Len(x3), t, x2[t]) /\ Len(x3) = 0
    BY <1>2 DEF FullText!Stacked, FullText!Nested
  <2> QED
    BY <2>1 DEF FullText!InForce
<1> QED
  BY <1>1, <1>2 DEF FullText!AnalyzersRestored

-----------------------------------------------------------------------------
(* Slots: nodes a and b, a property p of a, q of b or of the relationship  *)
(* r, a constraint u.                                                      *)
NoConstraint == [c \in {} |-> {}]

ANodeGraph ==
    [slots |-> {"a", "p"}, values |-> {"v1", "v2"},
     owners |-> ("a" :> {}) @@ ("p" :> {"a"}),
     kind |-> ("a" :> "node") @@ ("p" :> "property"),
     slotValues |-> ("a" :> {"v1"}) @@ ("p" :> {"v1", "v2"}),
     conforms |-> NoConstraint, constrainedBy |-> NoConstraint]

ALoopGraph ==
    [slots |-> {"a", "p", "r"}, values |-> {"v1", "v2"},
     owners |-> ("a" :> {}) @@ ("p" :> {"a"}) @@ ("r" :> {"a"}),
     kind |-> ("a" :> "node") @@ ("p" :> "property") @@ ("r" :> "relationship"),
     slotValues |-> ("a" :> {"v1"}) @@ ("p" :> {"v1", "v2"}) @@ ("r" :> {"v1"}),
     conforms |-> NoConstraint, constrainedBy |-> NoConstraint]

ARelationshipGraph ==
    [slots |-> {"a", "b", "p", "q", "r"}, values |-> {"v1", "v2"},
     owners |-> ("a" :> {}) @@ ("b" :> {}) @@ ("p" :> {"a"}) @@ ("r" :> {"a", "b"}) @@ ("q" :> {"r"}),
     kind |-> ("a" :> "node") @@ ("b" :> "node") @@ ("p" :> "property")
              @@ ("r" :> "relationship") @@ ("q" :> "relationshipProperty"),
     slotValues |-> [s \in {"a", "b", "p", "q", "r"} |-> IF s = "q" THEN {"v1", "v2"} ELSE {"v1"}],
     conforms |-> NoConstraint, constrainedBy |-> NoConstraint]

(* u: the two nodes do not have the same value.                            *)
AConstraintGraph ==
    [slots |-> {"a", "b", "p", "q", "u"}, values |-> {"v1"},
     owners |-> ("a" :> {}) @@ ("b" :> {}) @@ ("p" :> {"a"}) @@ ("q" :> {"b"}) @@ ("u" :> {}),
     kind |-> ("a" :> "node") @@ ("b" :> "node") @@ ("p" :> "property")
              @@ ("q" :> "property") @@ ("u" :> "schema"),
     slotValues |-> [s \in {"a", "b", "p", "q", "u"} |-> {"v1"}],
     conforms |-> "u" :> {g \in [{"a", "b", "p", "q", "u"} -> {"v1", "none"}] :
                             g["p"] = "none" \/ g["p"] # g["q"]},
     constrainedBy |-> "u" :> {"p", "q"}]

-----------------------------------------------------------------------------
(* Indexes: two owners of one property with writes of the query's own, two *)
(* definitions of the name with and without transactions, and long         *)
(* histories for the cursor.                                               *)
ACorrectedIndex ==
    [owners |-> {1, 2}, definitions |-> {"p"}, values |-> {1}, commits |-> 3, generations |-> 3,
     bindings |-> 1, writes |-> {0}]
ARedefinedIndex ==
    [owners |-> {1}, definitions |-> {"p", "q"}, values |-> {1}, commits |-> 3, generations |-> 2,
     bindings |-> 1, writes |-> {}]
AScannedIndex ==
    [owners |-> {1, 2}, definitions |-> {"p"}, values |-> {1}, commits |-> 4, generations |-> 2,
     bindings |-> 0, writes |-> {}]

(* The plain analyzer misses what stems do.                                *)
ATextIndex ==
    [owners |-> 1..3, contents |-> {{1, 2, 3}, {2}}, configured |-> "unicode",
     matching |-> [unicode |-> {1, 3}, porter |-> {1, 2, 3}, trigram |-> {2}],
     views |-> {{1, 2, 3}, {2, 3}}, windows |-> {<<0, 3>>, <<1, 1>>}, depth |-> 2, calls |-> 3]

(* Up to five rows in batches of two, all forms of the clause, and a       *)
(* commit of the other connection.                                         *)
ABatchQuery ==
    [rows |-> 5, size |-> 2, others |-> 1,
     clauses |-> [error : {"fail", "continue", "break"}, retry : BOOLEAN, mutates : BOOLEAN,
                  policy : {"immediate", "deferred", "outerWrite"}]]

-----------------------------------------------------------------------------
(* The parts of the graphs.                                                *)
RelationshipSlots == RelationshipGraph.slots
RelationshipOwners == RelationshipGraph.owners
RelationshipKind == RelationshipGraph.kind
RelationshipSlotValues == RelationshipGraph.slotValues
RelationshipValues == RelationshipGraph.values
RelationshipConforms == RelationshipGraph.conforms
RelationshipConstrainedBy == RelationshipGraph.constrainedBy

ConstraintSlots == ConstraintGraph.slots
ConstraintOwners == ConstraintGraph.owners
ConstraintKind == ConstraintGraph.kind
ConstraintSlotValues == ConstraintGraph.slotValues
ConstraintValues == ConstraintGraph.values
ConstraintConforms == ConstraintGraph.conforms
ConstraintConstrainedBy == ConstraintGraph.constrainedBy

NodeSlots == NodeGraph.slots
NodeOwners == NodeGraph.owners
NodeKind == NodeGraph.kind
NodeSlotValues == NodeGraph.slotValues
NodeValues == NodeGraph.values
NodeConforms == NodeGraph.conforms
NodeConstrainedBy == NodeGraph.constrainedBy

LoopSlots == LoopGraph.slots
LoopOwners == LoopGraph.owners
LoopKind == LoopGraph.kind
LoopSlotValues == LoopGraph.slotValues
LoopValues == LoopGraph.values
LoopConforms == LoopGraph.conforms
LoopConstrainedBy == LoopGraph.constrainedBy

-----------------------------------------------------------------------------
(* All graphs of four commits under a log, with two timestamps and ids     *)
(* that order commits of one timestamp against their creation; all graphs  *)
(* of GraphCommits without a log.                                          *)
Logged == INSTANCE History WITH graph <- x1, at <- x2, hash <- x3, roots <- x4, log <- x5,
    MaxCommits <- 4, Stamp <- {1, 2}, Hashes <- {[c \in 1..4 |-> 0 - c]}

Bases == INSTANCE History WITH graph <- x1, at <- x2, hash <- x3, roots <- x4, log <- x5,
    MaxCommits <- GraphCommits, Stamp <- {1}, Hashes <- {[c \in 1..GraphCommits |-> c]}

Checkout == INSTANCE ActiveBranch WITH
    head <- x1, active <- x2, saved <- x3, pending <- x4, last <- x5, Deleted <- 0

Sessions == INSTANCE MergeSession WITH disk <- x1, conn <- x2, writer <- x3, seen <- x4,
    Conflict <- ConflictName, Choice <- UserChoice, Nobody <- "nobody", NoSession <- [phase |-> "unused"], Ended <- [phase |-> "ended"]

(* A relationship with a property between two nodes; two nodes and a       *)
(* uniqueness constraint; a node over the virtual base of a criss-cross.   *)
Relationship == INSTANCE MergeResolution WITH
    ancestors <- x1, base <- x2, ours <- x3, theirs <- x4, resolutions <- x5,
    Slot <- RelationshipSlots, Value <- RelationshipValues, Owners <- RelationshipOwners, Kind <- RelationshipKind,
    SlotValues <- RelationshipSlotValues, Conforms <- RelationshipConforms, ConstrainedBy <- RelationshipConstrainedBy,
    Absent <- "none", Keep <- "keep", Unknown <- "unknown", Crossed <- FALSE

Constraint == INSTANCE MergeResolution WITH
    ancestors <- x1, base <- x2, ours <- x3, theirs <- x4, resolutions <- x5,
    Slot <- ConstraintSlots, Value <- ConstraintValues, Owners <- ConstraintOwners, Kind <- ConstraintKind,
    SlotValues <- ConstraintSlotValues, Conforms <- ConstraintConforms, ConstrainedBy <- ConstraintConstrainedBy,
    Absent <- "none", Keep <- "keep", Unknown <- "unknown", Crossed <- FALSE

CrissCross == INSTANCE MergeResolution WITH
    ancestors <- x1, base <- x2, ours <- x3, theirs <- x4, resolutions <- x5,
    Slot <- NodeSlots, Value <- NodeValues, Owners <- NodeOwners, Kind <- NodeKind,
    SlotValues <- NodeSlotValues, Conforms <- NodeConforms, ConstrainedBy <- NodeConstrainedBy,
    Absent <- "none", Keep <- "keep", Unknown <- "unknown", Crossed <- TRUE

(* Commits to replay over a node with a property and a relationship to     *)
(* itself; over the node and its property for the calls that are not       *)
(* cancelled.                                                              *)
Rebasing == INSTANCE Rebase WITH
    boundary <- x1, sources <- x2, onto <- x3, disk <- x4, call <- x5, resolutions <- x6, answer <- x7, clock <- x8,
    Slot <- LoopSlots, Value <- LoopValues, Owners <- LoopOwners, Kind <- LoopKind,
    SlotValues <- LoopSlotValues, Conforms <- LoopConforms, ConstrainedBy <- LoopConstrainedBy,
    Absent <- "none", Keep <- "keep", Unknown <- "unknown", AnswerAtOnce <- FALSE

Replaying == INSTANCE Rebase WITH
    boundary <- x1, sources <- x2, onto <- x3, disk <- x4, call <- x5, resolutions <- x6, answer <- x7, clock <- x8,
    Slot <- NodeSlots, Value <- NodeValues, Owners <- NodeOwners, Kind <- NodeKind,
    SlotValues <- NodeSlotValues, Conforms <- NodeConforms, ConstrainedBy <- NodeConstrainedBy,
    Absent <- "none", Keep <- "keep", Unknown <- "unknown", AnswerAtOnce <- FALSE

(* A standard index whose snapshots hold writes of the query; one that is  *)
(* defined anew, also in explicit transactions; one that is read by long   *)
(* scans.                                                                  *)
Generations == INSTANCE IndexGenerations WITH
    commits <- x1, head <- x2, generations <- x3, nextCommit <- x4, nextGen <- x5, bindings <- x6, scan <- x7,
    Owners <- CorrectedIndex.owners, Definitions <- CorrectedIndex.definitions, Values <- CorrectedIndex.values,
    MaxCommits <- CorrectedIndex.commits, MaxGenerations <- CorrectedIndex.generations,
    MaxBindings <- CorrectedIndex.bindings, LocalWrites <- CorrectedIndex.writes, SchemaInTx <- FALSE

Redefined == INSTANCE IndexGenerations WITH
    commits <- x1, head <- x2, generations <- x3, nextCommit <- x4, nextGen <- x5, bindings <- x6, scan <- x7,
    Owners <- RedefinedIndex.owners, Definitions <- RedefinedIndex.definitions, Values <- RedefinedIndex.values,
    MaxCommits <- RedefinedIndex.commits, MaxGenerations <- RedefinedIndex.generations,
    MaxBindings <- RedefinedIndex.bindings, LocalWrites <- RedefinedIndex.writes, SchemaInTx <- TRUE

Scanned == INSTANCE IndexGenerations WITH
    commits <- x1, head <- x2, generations <- x3, nextCommit <- x4, nextGen <- x5, bindings <- x6, scan <- x7,
    Owners <- ScannedIndex.owners, Definitions <- ScannedIndex.definitions, Values <- ScannedIndex.values,
    MaxCommits <- ScannedIndex.commits, MaxGenerations <- ScannedIndex.generations,
    MaxBindings <- ScannedIndex.bindings, LocalWrites <- ScannedIndex.writes, SchemaInTx <- FALSE

Batched == INSTANCE InTransactions WITH
    spec <- x1, rows <- x2, bad <- x3, branch <- x4, phase <- x5, taken <- x6, batch <- x7, base <- x8,
    attempt <- x9, expired <- x10, output <- x11,
    MaxRows <- BatchQuery.rows, BatchSize <- BatchQuery.size, MaxOther <- BatchQuery.others,
    Specs <- BatchQuery.clauses

-----------------------------------------------------------------------------
(* What the graphs have in common: owners are slots, the marks of a slot   *)
(* without a value are no values, and see Shaped and Local of              *)
(* ThreeWayMerge.                                                          *)
OfSlots(slots, values, owners) ==
    /\ owners \in [slots -> SUBSET slots]
    /\ "none" \notin values /\ "keep" \notin values

ASSUME RelationshipAssumption ==
    /\ OfSlots(RelationshipSlots, RelationshipValues, RelationshipOwners)
    /\ Relationship!Shaped /\ Relationship!Local

ASSUME ConstraintAssumption ==
    /\ OfSlots(ConstraintSlots, ConstraintValues, ConstraintOwners)
    /\ Constraint!Shaped /\ Constraint!Local

ASSUME NodeAssumption ==
    /\ OfSlots(NodeSlots, NodeValues, NodeOwners)
    /\ CrissCross!Shaped /\ CrissCross!Local

ASSUME LoopAssumption ==
    /\ OfSlots(LoopSlots, LoopValues, LoopOwners)
    /\ Rebasing!Shaped

(* The owners of an index have positive identities and numbers as values.  *)
ASSUME IndexAssumption == Generations!Numbered /\ Redefined!Numbered /\ Scanned!Numbered

(* The owners of a full-text index are numbers, and the analyzer of its    *)
(* definition is one of the analyzers.                                     *)
ASSUME TextAssumption ==
    /\ TextIndex.contents \subseteq SUBSET Nat
    /\ TextIndex.configured \in DOMAIN TextIndex.matching

ASSUME BatchAssumption == Batched!Parameters

ASSUME BoundsAssumption == {GraphCommits, MaxCommit, MaxHeads, MaxRevision, MaxSources} \subseteq Nat \ {0}

-----------------------------------------------------------------------------
(* The variables a part does not use.                                      *)
Idle9 == x9 = 0 /\ x10 = 0 /\ x11 = 0
Idle8 == x8 = 0 /\ Idle9
Idle6 == x6 = 0 /\ x7 = 0 /\ Idle8
Idle5 == x5 = 0 /\ Idle6

Init ==
    /\ part \in Parts
    /\ \/ part = "log" /\ Logged!Init /\ Idle6
       \/ part = "bases" /\ Bases!Init /\ Idle6
       \/ part = "branch" /\ Checkout!Init /\ Idle6
       \/ part = "session" /\ Sessions!Init /\ Idle5
       \/ part = "relationship" /\ Relationship!Init /\ Idle6
       \/ part = "constraint" /\ Constraint!Init /\ Idle6
       \/ part = "crisscross" /\ CrissCross!Init /\ Idle6
       \/ part = "rebase" /\ Rebasing!Init /\ Idle9
       \/ part = "replay" /\ Replaying!Init /\ Idle9
       \/ part = "generations" /\ Generations!Init /\ Idle8
       \/ part = "redefined" /\ Redefined!Init /\ Idle8
       \/ part = "scanned" /\ Scanned!Init /\ Idle8
       \/ part = "fulltext" /\ FullText!Init /\ Idle6
       \/ part = "batched" /\ Batched!Init
       \/ part = "opening" /\ Opening!Init /\ Idle5

rest9 == <<part, x9, x10, x11>>
rest8 == <<x8, rest9>>
rest6 == <<x6, x7, rest8>>
rest5 == <<x5, rest6>>

(* The steps that the code's scheduling makes fair.                        *)
OpeningStep(c) == part = "opening" /\ Opening!Progress(c) /\ UNCHANGED rest5
LogStep == part = "log" /\ Logged!Log /\ UNCHANGED rest6
CursorStep(c) == part = "session" /\ Sessions!Advance(c) /\ UNCHANGED rest5
ReplayStep == part = "replay" /\ Replaying!NextUncancelled /\ UNCHANGED rest9

Next ==
    \/ part = "log" /\ Logged!Next /\ UNCHANGED rest6
    \/ part = "bases" /\ Bases!GraphNext /\ UNCHANGED rest6
    \/ part = "branch" /\ Checkout!Next /\ UNCHANGED rest6
    \/ part = "session" /\ Sessions!Next /\ UNCHANGED rest5
    \/ part = "relationship" /\ Relationship!Next /\ UNCHANGED rest6
    \/ part = "constraint" /\ Constraint!Next /\ UNCHANGED rest6
    \/ part = "crisscross" /\ CrissCross!Next /\ UNCHANGED rest6
    \/ part = "rebase" /\ Rebasing!Next /\ UNCHANGED rest9
    \/ ReplayStep
    \/ part = "generations" /\ Generations!Next /\ UNCHANGED rest8
    \/ part = "redefined" /\ Redefined!Next /\ UNCHANGED rest8
    \/ part = "scanned" /\ Scanned!Next /\ UNCHANGED rest8
    \/ part = "fulltext" /\ FullText!Next /\ UNCHANGED rest6
    \/ part = "batched" /\ Batched!Next /\ UNCHANGED part
    \/ part = "opening" /\ Opening!Next /\ UNCHANGED rest5

Spec ==
    /\ Init /\ [][Next]_vars
    /\ WF_vars(LogStep)
    /\ \A c \in Connection : WF_vars(CursorStep(c)) /\ WF_vars(OpeningStep(c))
    /\ WF_vars(ReplayStep)

-----------------------------------------------------------------------------
(* Properties of history, checkout and merge sessions.                     *)

(* Pages of lithograph.log put together are the one-shot traversal,        *)
(* however commits, merges and gc come between the pages.                  *)
PagesAreTheLog == part = "log" => Logged!PagesAreTheLog

(* The traversal reports no corrupt graph, and a cursor fails only when gc *)
(* collected the commit the log started from.                              *)
LogFailsOnlyAfterGc == part = "log" => Logged!LogFailsOnlyAfterGc

(* A client that keeps asking for the next page of the log comes to the    *)
(* end of it.                                                              *)
LogEnds == (part = "log" /\ Logged!Reading) ~> (part = "log" /\ ~ Logged!Reading)

(* A rebase replays exactly the commits of the first-parent chain that     *)
(* onto lacks, each after its parent.                                      *)
ReplaysWhatOntoLacks == part = "bases" => Bases!ReplaysWhatOntoLacks

(* A query changes the branch it read and nothing else, whatever was       *)
(* checked out, deleted or made again between its preparation and its run. *)
QueryHitsWhatItRead == [][part = "branch" => Checkout!HitsWhatItRead]_vars

(* A revision of a merge session names one set of resolutions: what was    *)
(* read at a revision is what finalize at that revision commits.           *)
RevisionNamesResolutions == part = "session" => Sessions!RevisionNamesResolutions

(* Two-phase procedures on several connections, with BUSY retries,         *)
(* cancelled cursors and crashes, implement the atomic operations of       *)
(* MergeSessionSpec.                                                       *)
ImplementsPromise ==
    /\ part = "session" => Sessions!Promise!Init
    /\ [][part = "session" => Sessions!Promise!Next \/ UNCHANGED x1]_vars

(* Every session procedure ends: the retry of start_pending_write does not *)
(* go on for ever.                                                         *)
EveryQueryEnds ==
    \A c \in Connection :
        (part = "session" /\ Sessions!Running(c)) ~> (part = "session" /\ ~ Sessions!Running(c))

-----------------------------------------------------------------------------
(* Properties of three-way merges and rebase.                              *)

(* A merge that reports ready, after whatever conflicts were resolved in   *)
(* whatever order, has a candidate with all owners in place that satisfies *)
(* its constraints: finalize commits it without another look.              *)
ReadyIsValid ==
    /\ part = "relationship" => Relationship!ReadyIsValid
    /\ part = "constraint" => Constraint!ReadyIsValid
    /\ part = "crisscross" => CrissCross!ReadyIsValid

(* What one side changed since the base is in a ready candidate, unless    *)
(* the user resolved a conflict about it.                                  *)
NoSilentLoss ==
    /\ part = "relationship" => Relationship!NoSilentLoss
    /\ part = "crisscross" => CrissCross!NoSilentLoss

(* A session is never stuck: there are resolutions that make it ready,     *)
(* except where a property was added to a deleted relationship.            *)
AlwaysResolvable == part = "relationship" => Relationship!AlwaysResolvable

(* Merging the other way round with the mirrored choices gives the same    *)
(* candidate.                                                              *)
MergeSymmetric ==
    /\ part = "constraint" => Constraint!MergeSymmetric
    /\ part = "crisscross" => CrissCross!MergeSymmetric

(* Where the sparse property merge applies it reports the conflicts and    *)
(* the candidate of the full scan.                                         *)
SparseAgrees == part = "constraint" => Constraint!SparseAgrees

(* A virtual base never hides a change that no best common ancestor has.   *)
VirtualBaseSafe == part = "crisscross" => CrissCross!VirtualBaseSafe

(* docs/design/versioning.md: "delete-vs-modify -> conflict".  Where one   *)
(* side only deleted a relationship and the other one only set a property  *)
(* of it, the merge is not refused without a conflict to resolve.          *)
DeleteModifyReported == part = "relationship" => Relationship!DeleteModifyReported

(* Conflict ids do not depend on what an earlier call committed: no        *)
(* resolution the caller was asked for is refused later as unknown.        *)
ResolutionsStayKnown ==
    (part = "rebase" => Rebasing!ResolutionsStayKnown) /\ (part = "replay" => Replaying!ResolutionsStayKnown)

(* A caller that answers what it is asked comes to an end of the rebase,   *)
(* and none of its answers is refused as unknown.                          *)
RebaseEnds ==
    /\ []ResolutionsStayKnown
    /\ part = "replay" ~> part = "replay" /\ Replaying!Ended

-----------------------------------------------------------------------------
(* Properties of indexes and of queries in batches.                        *)

(* What a connection has bound for a snapshot corrects its generation to   *)
(* exactly the entries of that snapshot and the query's own writes.        *)
BindingsAreExact ==
    /\ part = "generations" => Generations!BindingsAreExact
    /\ part = "redefined" => Redefined!BindingsAreExact

(* No generation is left on a commit that was collected.                   *)
AnchorsExist == part = "generations" => Generations!AnchorsExist

(* A cursor over a managed index gives the owners of its snapshot, once    *)
(* each and in order, whatever is written, rebuilt or collected meanwhile. *)
IndexScanIsExact ==
    /\ part = "generations" => Generations!ScanIsExact
    /\ part = "redefined" => Redefined!ScanIsExact
    /\ part = "scanned" => Scanned!ScanIsExact

(* A full-text table with its ready mark holds the rows of its snapshot.   *)
ReadyMeansWhole == part = "fulltext" => FullText!ReadyMeansWhole

(* A full-text query answers for its own analyzer, also when nested calls  *)
(* with other analyzers ran on the same table.                             *)
FullTextAnswerIsRight == part = "fulltext" => FullText!AnswerIsRight

(* After the outermost call the configured analyzer is in force again.     *)
AnalyzersRestored == part = "fulltext" => FullText!AnalyzersRestored

(* However often a batch is retried, its rows are written once, in the     *)
(* order of the input.                                                     *)
WrittenOnceInOrder == part = "batched" => Batched!WrittenOnceInOrder

(* No other commit comes between the head a batch saw and its own commit.  *)
BatchesSeeTheHead == [][part = "batched" => Batched!CommitsOnItsBase]_vars

(* REPORT STATUS tells the truth about every row.                          *)
StatusIsTrue == part = "batched" => Batched!StatusIsTrue

(* ON ERROR FAIL, BREAK and CONTINUE do what they say.                     *)
ModeIsKept == part = "batched" => Batched!ModeIsKept

(* lithograph_init leaves the file it found or one that the integrity      *)
(* check accepts, whatever failed, crashed or raced.                       *)
AllOrNothing == part = "opening" => Opening!AllOrNothing

(* A file that lithograph_init must refuse stays as it is.                 *)
RefusedUntouched == part = "opening" => Opening!RefusedUntouched

(* The id and the commits survive migration; the format never goes down.   *)
IdentityKept == [][part = "opening" => Opening!KeepsIdentity]_vars

(* What lithograph_init answered lasts, and racing calls agree.            *)
AnswersLast == part = "opening" => Opening!AnswersLast

(* Every invocation of lithograph_init returns.                            *)
EveryCallReturns ==
    \A c \in Connection :
        (part = "opening" /\ Opening!Running(c)) ~> (part = "opening" /\ ~ Opening!Running(c))

-----------------------------------------------------------------------------
(* What the runs check: the promises of each part, by the code that keeps  *)
(* them.                                                                   *)

(* The paged log (lithograph.log) is the one-shot traversal of the         *)
(* history, and its cursor fails only when gc took the commit it started   *)
(* from; the walk of a rebase over the history gives the commits that onto *)
(* lacks, each after its parent.                                           *)
WalksAreExact ==
    /\ PagesAreTheLog
    /\ LogFailsOnlyAfterGc
    /\ ReplaysWhatOntoLacks

(* A merge starts from the maximal common ancestors of its two heads.      *)
BasesAreRight == part = "bases" => Bases!BestBasesAreMaximal

(* A reader of the log comes to its end, and so does every session         *)
(* procedure, although it retries while the database is busy, and every    *)
(* call of lithograph_init, which does not wait for another.               *)
HistoryCallsEnd ==
    /\ LogEnds
    /\ EveryQueryEnds
    /\ EveryCallReturns

(* A merge loses no change the user was not asked about, hides none behind *)
(* a virtual base, favours no side, and is the same computed sparsely.     *)
MergeIsFaithful ==
    /\ NoSilentLoss
    /\ VirtualBaseSafe
    /\ MergeSymmetric
    /\ SparseAgrees

(* No half-finished rebase is seen: a call that stops at a conflict or     *)
(* fails leaves the branch alone, whatever it had already committed; and a *)
(* slot nobody was asked about has, after a rebase, the value the source   *)
(* commits gave it last, or that of onto.                                  *)
RebaseIsAtomic == part = "rebase" => Rebasing!AllOrNothing /\ Rebasing!NothingLostInReplay

(* A managed index gives exactly the entries of the snapshot that is read, *)
(* whatever is written, rebuilt, redefined or collected meanwhile, and no  *)
(* generation outlives its commit.                                         *)
IndexIsExact ==
    /\ BindingsAreExact
    /\ AnchorsExist
    /\ IndexScanIsExact

(* A full-text query answers for its own analyzer from a table that holds  *)
(* its snapshot, and leaves the configured analyzer in force.              *)
FullTextIsRight ==
    /\ ReadyMeansWhole
    /\ FullTextAnswerIsRight
    /\ AnalyzersRestored

(* CALL IN TRANSACTIONS writes every row once and in order however often a *)
(* batch is retried, commits on the head a batch saw, reports every row    *)
(* truly, and follows its ON ERROR mode.                                   *)
BatchesAreKept ==
    /\ [](WrittenOnceInOrder /\ StatusIsTrue /\ ModeIsKept)
    /\ BatchesSeeTheHead

(* lithograph_init leaves the file as it was or a database its own check   *)
(* accepts, does not touch a file it must refuse, and gives racing calls   *)
(* the same lasting answer.                                                *)
OpeningIsSafe ==
    /\ AllOrNothing
    /\ RefusedUntouched
    /\ AnswersLast

-----------------------------------------------------------------------------
(* Theorems about merges, for all graphs.                                  *)

LEMMA RelationshipInit == Relationship!Init => Relationship!Typed
<1> SUFFICES ASSUME Relationship!Init PROVE Relationship!Typed
  OBVIOUS
<1>1. x2 \in Relationship!Version /\ x1 = {x2}
  BY DEF Relationship!Init, Relationship!Bases, Relationship!OneBase
<1>2. Relationship!Mergeable(x2, x3, x4, x5)
  BY <1>1 DEF Relationship!Init, Relationship!Mergeable, Relationship!Version, Relationship!Graph
<1>3. \A s \in RelationshipSlots : {g[s] : g \in x1} = {x2[s]}
  BY <1>1
<1> QED
  BY <1>1, <1>2, <1>3 DEF Relationship!Typed

LEMMA RelationshipNext == Relationship!Typed /\ Relationship!Next => Relationship!Typed'
<1> SUFFICES ASSUME Relationship!Typed, Relationship!Next PROVE Relationship!Typed'
  OBVIOUS
<1>1. x1' = x1 /\ x2' = x2 /\ x3' = x3 /\ x4' = x4
  BY DEF Relationship!Next
<1>2. PICK incoming \in Relationship!Incoming(Relationship!Current.conflicts) :
          x5' = Relationship!Proposed(incoming)
  BY DEF Relationship!Next, Relationship!Resolve
<1>3. /\ DOMAIN incoming \subseteq RelationshipSlots
      /\ \A s \in DOMAIN incoming : incoming[s] \in Relationship!Choice(s)
  <2>1. Relationship!Current.conflicts \subseteq RelationshipSlots
    BY RelationshipAssumption, Relationship!ConflictsAreSlots DEF OfSlots, Relationship!Current
  <2> QED
    BY <2>1 DEF Relationship!Incoming
<1>4. Relationship!Mergeable(x2, x3, x4, x5')
  <2>1. Relationship!Mergeable(x2, x3, x4, x5)
    BY DEF Relationship!Typed
  <2>2. Relationship!Mergeable(x2, x3, x4, [s \in DOMAIN x5 \cup DOMAIN incoming |->
            IF s \in DOMAIN incoming THEN incoming[s] ELSE x5[s]])
    BY <1>3, <2>1, RelationshipAssumption, Relationship!ResolvedMergeable DEF OfSlots
  <2> QED
    BY <1>2, <2>2 DEF Relationship!Proposed
<1> QED
  BY <1>1, <1>4 DEF Relationship!Typed

LEMMA ConstraintInit == Constraint!Init => Constraint!Typed
<1> SUFFICES ASSUME Constraint!Init PROVE Constraint!Typed
  OBVIOUS
<1>1. x2 \in Constraint!Version /\ x1 = {x2}
  BY DEF Constraint!Init, Constraint!Bases, Constraint!OneBase
<1>2. Constraint!Mergeable(x2, x3, x4, x5)
  BY <1>1 DEF Constraint!Init, Constraint!Mergeable, Constraint!Version, Constraint!Graph
<1>3. \A s \in ConstraintSlots : {g[s] : g \in x1} = {x2[s]}
  BY <1>1
<1> QED
  BY <1>1, <1>2, <1>3 DEF Constraint!Typed

LEMMA ConstraintNext == Constraint!Typed /\ Constraint!Next => Constraint!Typed'
<1> SUFFICES ASSUME Constraint!Typed, Constraint!Next PROVE Constraint!Typed'
  OBVIOUS
<1>1. x1' = x1 /\ x2' = x2 /\ x3' = x3 /\ x4' = x4
  BY DEF Constraint!Next
<1>2. PICK incoming \in Constraint!Incoming(Constraint!Current.conflicts) :
          x5' = Constraint!Proposed(incoming)
  BY DEF Constraint!Next, Constraint!Resolve
<1>3. /\ DOMAIN incoming \subseteq ConstraintSlots
      /\ \A s \in DOMAIN incoming : incoming[s] \in Constraint!Choice(s)
  <2>1. Constraint!Current.conflicts \subseteq ConstraintSlots
    BY ConstraintAssumption, Constraint!ConflictsAreSlots DEF OfSlots, Constraint!Current
  <2> QED
    BY <2>1 DEF Constraint!Incoming
<1>4. Constraint!Mergeable(x2, x3, x4, x5')
  <2>1. Constraint!Mergeable(x2, x3, x4, x5)
    BY DEF Constraint!Typed
  <2>2. Constraint!Mergeable(x2, x3, x4, [s \in DOMAIN x5 \cup DOMAIN incoming |->
            IF s \in DOMAIN incoming THEN incoming[s] ELSE x5[s]])
    BY <1>3, <2>1, ConstraintAssumption, Constraint!ResolvedMergeable DEF OfSlots
  <2> QED
    BY <1>2, <2>2 DEF Constraint!Proposed
<1> QED
  BY <1>1, <1>4 DEF Constraint!Typed

LEMMA CrissCrossInit == CrissCross!Init => CrissCross!Typed
<1> SUFFICES ASSUME CrissCross!Init PROVE CrissCross!Typed
  OBVIOUS
<1> DEFINE Known(of, virtual) ==
        /\ of # {}
        /\ \A s \in NodeSlots : LET values == {g[s] : g \in of}
                               IN  /\ virtual[s] \in values \cup {"unknown"}
                                   /\ \A v \in values : values = {v} => virtual[s] = v
           BaseTyped(virtual) ==
               /\ virtual \in [NodeSlots -> NodeValues \cup {"none", "unknown"}]
               /\ \A s \in NodeSlots : virtual[s] \in NodeSlotValues[s] \cup {"none", "unknown"}
<1>1. ASSUME NEW root \in CrissCross!Version, NEW first \in CrissCross!Version,
             NEW second \in CrissCross!Version
      PROVE  /\ Known({first, second}, CrissCross!VirtualMerge(root, first, second))
             /\ BaseTyped(CrissCross!VirtualMerge(root, first, second))
  <2> DEFINE virtual == CrissCross!VirtualMerge(root, first, second)
  <2>1. \A s \in NodeSlots : /\ virtual[s] \in {first[s], second[s], "unknown"}
                             /\ first[s] = second[s] => virtual[s] = first[s]
    BY NodeAssumption, CrissCross!VirtualMergeKnows DEF OfSlots
  <2>2. virtual = [s \in NodeSlots |-> virtual[s]]
    BY DEF CrissCross!VirtualMerge
  <2>3. \A s \in NodeSlots : /\ first[s] \in NodeSlotValues[s] \cup {"none"}
                             /\ second[s] \in NodeSlotValues[s] \cup {"none"}
                             /\ first[s] \in NodeValues \cup {"none"} /\ second[s] \in NodeValues \cup {"none"}
    BY DEF CrissCross!Version, CrissCross!Graph
  <2> HIDE DEF virtual
  <2>4. BaseTyped(virtual)
    BY <2>1, <2>2, <2>3
  <2>5. \A s \in NodeSlots : {g[s] : g \in {first, second}} = {first[s], second[s]}
    OBVIOUS
  <2>6. Known({first, second}, virtual)
    BY <2>1, <2>5
  <2> QED
    BY <2>4, <2>6 DEF virtual
<1>2. ASSUME NEW of, NEW virtual, NEW third \in CrissCross!Version, Known(of, virtual), BaseTyped(virtual)
      PROVE  /\ Known(of \cup {third}, CrissCross!Narrow(virtual, third))
             /\ BaseTyped(CrissCross!Narrow(virtual, third))
  <2> DEFINE narrow == CrissCross!Narrow(virtual, third)
  <2>1. \A s \in NodeSlots : /\ narrow[s] \in {third[s], "unknown"}
                             /\ virtual[s] = third[s] => narrow[s] = third[s]
    BY NodeAssumption, CrissCross!NarrowKnows DEF OfSlots
  <2>2. narrow = [s \in NodeSlots |-> narrow[s]]
    BY DEF CrissCross!Narrow
  <2>3. \A s \in NodeSlots : third[s] \in NodeSlotValues[s] \cup {"none"} /\ third[s] \in NodeValues \cup {"none"}
    BY DEF CrissCross!Version, CrissCross!Graph
  <2> HIDE DEF narrow
  <2>4. BaseTyped(narrow)
    BY <2>1, <2>2, <2>3
  <2>5. ASSUME NEW s \in NodeSlots
        PROVE  LET values == {g[s] : g \in of \cup {third}}
               IN  /\ narrow[s] \in values \cup {"unknown"}
                   /\ \A v \in values : values = {v} => narrow[s] = v
    <3> DEFINE old == {g[s] : g \in of}
               values == {g[s] : g \in of \cup {third}}
    <3>1. values = old \cup {third[s]}
      OBVIOUS
    <3>2. old # {} /\ \A v \in old : old = {v} => virtual[s] = v
      BY <1>2
    <3> HIDE DEF old, values
    <3>3. ASSUME NEW v \in values, values = {v}
          PROVE  narrow[s] = v
      <4>1. v = third[s] /\ old = {v}
        BY <3>1, <3>2, <3>3
      <4> QED
        BY <2>1, <3>2, <4>1
    <3> QED
      BY <2>1, <3>1, <3>3 DEF values
  <2> QED
    BY <2>4, <2>5 DEF narrow
<1> HIDE DEF Known, BaseTyped
<1>3. Known(x1, x2) /\ BaseTyped(x2)
  <2>1. PICK merged \in CrissCross!ManyBases : x1 = merged.of /\ x2 = merged.virtual
    BY DEF CrissCross!Init, CrissCross!Bases
  <2>2. \A two \in CrissCross!TwoBases : Known(two.of, two.virtual) /\ BaseTyped(two.virtual)
    BY <1>1 DEF CrissCross!TwoBases
  <2>3. CASE merged \in CrissCross!TwoBases
    BY <2>1, <2>2, <2>3
  <2>4. CASE merged \notin CrissCross!TwoBases
    <3>1. PICK two \in CrissCross!TwoBases, third \in CrissCross!Version :
              merged = [of |-> two.of \cup {third}, virtual |-> CrissCross!Narrow(two.virtual, third)]
      BY <2>4 DEF CrissCross!ManyBases
    <3>2. x1 = two.of \cup {third} /\ x2 = CrissCross!Narrow(two.virtual, third)
      BY <2>1, <3>1
    <3> QED
      BY <1>2, <2>2, <3>2
  <2> QED
    BY <2>3, <2>4
<1>4. CrissCross!Mergeable(x2, x3, x4, x5)
  BY <1>3 DEF CrissCross!Init, CrissCross!Mergeable, BaseTyped
<1> QED
  BY <1>3, <1>4 DEF CrissCross!Typed, Known

LEMMA CrissCrossNext == CrissCross!Typed /\ CrissCross!Next => CrissCross!Typed'
<1> SUFFICES ASSUME CrissCross!Typed, CrissCross!Next PROVE CrissCross!Typed'
  OBVIOUS
<1>1. x1' = x1 /\ x2' = x2 /\ x3' = x3 /\ x4' = x4
  BY DEF CrissCross!Next
<1>2. PICK incoming \in CrissCross!Incoming(CrissCross!Current.conflicts) :
          x5' = CrissCross!Proposed(incoming)
  BY DEF CrissCross!Next, CrissCross!Resolve
<1>3. /\ DOMAIN incoming \subseteq NodeSlots
      /\ \A s \in DOMAIN incoming : incoming[s] \in CrissCross!Choice(s)
  <2>1. CrissCross!Current.conflicts \subseteq NodeSlots
    BY NodeAssumption, CrissCross!ConflictsAreSlots DEF OfSlots, CrissCross!Current
  <2> QED
    BY <2>1 DEF CrissCross!Incoming
<1>4. CrissCross!Mergeable(x2, x3, x4, x5')
  <2>1. CrissCross!Mergeable(x2, x3, x4, x5)
    BY DEF CrissCross!Typed
  <2>2. CrissCross!Mergeable(x2, x3, x4, [s \in DOMAIN x5 \cup DOMAIN incoming |->
            IF s \in DOMAIN incoming THEN incoming[s] ELSE x5[s]])
    BY <1>3, <2>1, NodeAssumption, CrissCross!ResolvedMergeable DEF OfSlots
  <2> QED
    BY <1>2, <2>2 DEF CrissCross!Proposed
<1> QED
  BY <1>1, <1>4 DEF CrissCross!Typed

(* What every merge starts from.                                           *)
MergesTyped ==
    /\ part = "relationship" => Relationship!Typed
    /\ part = "constraint" => Constraint!Typed
    /\ part = "crisscross" => CrissCross!Typed

LEMMA MergesAlwaysTyped == Spec => []MergesTyped
<1>1. Init => MergesTyped
  BY RelationshipInit, ConstraintInit, CrissCrossInit DEF Init, MergesTyped
<1>2. MergesTyped /\ [Next]_vars => MergesTyped'
  <2> SUFFICES ASSUME MergesTyped, [Next]_vars PROVE MergesTyped'
    OBVIOUS
  <2>1. CASE UNCHANGED vars
    BY <2>1 DEF MergesTyped, vars, Relationship!Typed, Constraint!Typed, CrissCross!Typed
  <2>2. CASE Next
    <3>1. part' = part
      BY <2>2 DEF Next, ReplayStep, rest5, rest6, rest8, rest9
    <3>2. /\ part = "relationship" => Relationship!Next
          /\ part = "constraint" => Constraint!Next
          /\ part = "crisscross" => CrissCross!Next
      BY <2>2 DEF Next, ReplayStep
    <3> QED
      BY <3>1, <3>2, RelationshipNext, ConstraintNext, CrissCrossNext DEF MergesTyped
  <2> QED
    BY <2>1, <2>2
<1> QED
  BY <1>1, <1>2, PTL DEF Spec

(* A merge that reports ready holds a version that can be committed, for   *)
(* every graph, however the conflicts were resolved.                       *)
THEOREM ReadyMergesAreValid == Spec => []ReadyIsValid
<1>1. MergesTyped => ReadyIsValid
  <2>1. ASSUME Relationship!Typed PROVE Relationship!ReadyIsValid
    <3>1. Relationship!Mergeable(x2, x3, x4, x5)
      BY <2>1 DEF Relationship!Typed
    <3>2. Relationship!Ready(Relationship!Current) => Relationship!Current.candidate \in Relationship!Version
      BY <3>1, RelationshipAssumption, Relationship!ReadyIsVersion DEF OfSlots, Relationship!Current
    <3> QED
      BY <3>2 DEF Relationship!ReadyIsValid, Relationship!Version
  <2>2. ASSUME Constraint!Typed PROVE Constraint!ReadyIsValid
    <3>1. Constraint!Mergeable(x2, x3, x4, x5)
      BY <2>2 DEF Constraint!Typed
    <3>2. Constraint!Ready(Constraint!Current) => Constraint!Current.candidate \in Constraint!Version
      BY <3>1, ConstraintAssumption, Constraint!ReadyIsVersion DEF OfSlots, Constraint!Current
    <3> QED
      BY <3>2 DEF Constraint!ReadyIsValid, Constraint!Version
  <2>3. ASSUME CrissCross!Typed PROVE CrissCross!ReadyIsValid
    <3>1. CrissCross!Mergeable(x2, x3, x4, x5)
      BY <2>3 DEF CrissCross!Typed
    <3>2. CrissCross!Ready(CrissCross!Current) => CrissCross!Current.candidate \in CrissCross!Version
      BY <3>1, NodeAssumption, CrissCross!ReadyIsVersion DEF OfSlots, CrissCross!Current
    <3> QED
      BY <3>2 DEF CrissCross!ReadyIsValid, CrissCross!Version
  <2> QED
    BY <2>1, <2>2, <2>3 DEF MergesTyped, ReadyIsValid
<1> QED
  BY <1>1, MergesAlwaysTyped, PTL

(* A merge, for every graph, keeps every change nobody was asked about,    *)
(* hides none behind a virtual base, favours no side, and is the same      *)
(* computed sparsely.                                                      *)
THEOREM MergesAreFaithful == Spec => []MergeIsFaithful
<1>1. MergesTyped => NoSilentLoss
  <2>1. ASSUME Relationship!Typed PROVE Relationship!NoSilentLoss
    <3>1. Relationship!Mergeable(x2, x3, x4, x5)
      BY <2>1 DEF Relationship!Typed
    <3>2. ASSUME Relationship!Ready(Relationship!Current), NEW s \in RelationshipSlots, NEW side \in {x3, x4},
                 x2[s] \notin {"unknown", side[s]}, ~ Relationship!Asked(Relationship!Current.conflicts, s)
          PROVE  Relationship!Current.candidate[s] = side[s]
      BY <3>1, <3>2, RelationshipAssumption, Relationship!MergeKeeps DEF OfSlots, Relationship!Current, Relationship!Asked
    <3> QED
      BY <3>2 DEF Relationship!NoSilentLoss
  <2>2. ASSUME CrissCross!Typed PROVE CrissCross!NoSilentLoss
    <3>1. CrissCross!Mergeable(x2, x3, x4, x5)
      BY <2>2 DEF CrissCross!Typed
    <3>2. ASSUME CrissCross!Ready(CrissCross!Current), NEW s \in NodeSlots, NEW side \in {x3, x4},
                 x2[s] \notin {"unknown", side[s]}, ~ CrissCross!Asked(CrissCross!Current.conflicts, s)
          PROVE  CrissCross!Current.candidate[s] = side[s]
      BY <3>1, <3>2, NodeAssumption, CrissCross!MergeKeeps DEF OfSlots, CrissCross!Current, CrissCross!Asked
    <3> QED
      BY <3>2 DEF CrissCross!NoSilentLoss
  <2> QED
    BY <2>1, <2>2 DEF MergesTyped, NoSilentLoss
<1>2. MergesTyped => VirtualBaseSafe
  <2>1. ASSUME CrissCross!Typed PROVE CrissCross!VirtualBaseSafe
    <3>1. CrissCross!Mergeable(x2, x3, x4, x5)
      BY <2>1 DEF CrissCross!Typed
    <3>2. ASSUME NEW s \in NodeSlots, x3[s] # x4[s], {x3[s], x4[s]} \cap {g[s] : g \in x1} = {}
          PROVE  CrissCross!Asked(CrissCross!Current.conflicts, s)
      <4>1. x3[s] # "unknown" /\ x4[s] # "unknown"
        <5>1. {x3[s], x4[s]} \subseteq NodeValues \cup {"none"}
          BY <3>1 DEF CrissCross!Mergeable, CrissCross!Version, CrissCross!Graph
        <5> QED
          BY <5>1, NodeAssumption DEF CrissCross!Shaped
      <4>2. x2[s] # x3[s] /\ x2[s] # x4[s]
        BY <2>1, <3>2, <4>1 DEF CrissCross!Typed
      <4> QED
        BY <3>1, <3>2, <4>2, NodeAssumption, CrissCross!DifferenceIsAsked
           DEF OfSlots, CrissCross!Current, CrissCross!Asked
    <3> QED
      BY <2>1, <3>2 DEF CrissCross!VirtualBaseSafe, CrissCross!Typed
  <2> QED
    BY <2>1 DEF MergesTyped, VirtualBaseSafe
<1>3. MergeSymmetric
  <2>1. Constraint!MergeSymmetric
    <3>1. Constraint!Ready(Constraint!Current) =>
              LET swapped == Constraint!Merge(x2, x4, x3, Constraint!Mirrored(x5))
              IN  Constraint!Ready(swapped) /\ swapped.candidate = Constraint!Current.candidate
      BY ConstraintAssumption, Constraint!MergeIsMirrored DEF OfSlots, Constraint!Current
    <3> QED
      BY <3>1 DEF Constraint!MergeSymmetric
  <2>2. CrissCross!MergeSymmetric
    <3>1. CrissCross!Ready(CrissCross!Current) =>
              LET swapped == CrissCross!Merge(x2, x4, x3, CrissCross!Mirrored(x5))
              IN  CrissCross!Ready(swapped) /\ swapped.candidate = CrissCross!Current.candidate
      BY NodeAssumption, CrissCross!MergeIsMirrored DEF OfSlots, CrissCross!Current
    <3> QED
      BY <3>1 DEF CrissCross!MergeSymmetric
  <2> QED
    BY <2>1, <2>2 DEF MergeSymmetric
<1>4. MergesTyped => SparseAgrees
  <2>1. ASSUME Constraint!Typed, Constraint!SparseApplies(x2, x3, x4)
        PROVE  Constraint!FullMerge(x2, x3, x4, x5) = Constraint!SparseMerge(x2, x3, x4, x5)
    <3>1. x2 \in Constraint!Version /\ Constraint!Mergeable(x2, x3, x4, x5)
      BY <2>1 DEF Constraint!Typed
    <3> QED
      BY <2>1, <3>1, ConstraintAssumption, Constraint!SparseIsFull DEF OfSlots
  <2> QED
    BY <2>1 DEF MergesTyped, SparseAgrees, Constraint!SparseAgrees
<1> QED
  BY <1>1, <1>2, <1>3, <1>4, MergesAlwaysTyped, PTL DEF MergeIsFaithful

(* For every graph there are resolutions that make a session ready, except *)
(* where a property was added to a deleted relationship.                   *)
THEOREM MergesAreResolvable == Spec => []AlwaysResolvable
<1>1. MergesTyped => AlwaysResolvable
  <2>1. ASSUME Relationship!Typed PROVE Relationship!AlwaysResolvable
    <3>1. {x2, x3, x4} \subseteq Relationship!Version
      BY <2>1 DEF Relationship!Typed, Relationship!Mergeable
    <3> QED
      BY <3>1, RelationshipAssumption, Relationship!EscapeIsReady
         DEF OfSlots, Relationship!AlwaysResolvable
  <2> QED
    BY <2>1 DEF MergesTyped, AlwaysResolvable
<1> QED
  BY <1>1, MergesAlwaysTyped, PTL

-----------------------------------------------------------------------------
(* Theorems about merge sessions and checkouts, for all numbers of         *)
(* connections, sessions, conflicts, choices and branches.                 *)

SessionsSerial == part = "session" => Sessions!Serial

LEMMA SessionsDistinct == Sessions!Distinct
  BY NamesAssumption, BoundsAssumption DEF Sessions!Distinct, Sessions!Promise!OpenSession

LEMMA SessionStep ==
    ASSUME [Next]_vars, part' = "session"
    PROVE  part = "session" /\ [Sessions!Next]_(Sessions!vars)
  BY DEF Next, vars, Sessions!vars, ReplayStep, rest5, rest6, rest8, rest9

LEMMA SessionsAlwaysSerial == Spec => []SessionsSerial
<1>1. Init => SessionsSerial
  <2>1. Init /\ part = "session" => Sessions!Init
    BY DEF Init
  <2> QED
    BY <2>1, SessionsDistinct, Sessions!InitSerial DEF SessionsSerial
<1>2. SessionsSerial /\ [Next]_vars => SessionsSerial'
  <2> SUFFICES ASSUME SessionsSerial, [Next]_vars, part' = "session" PROVE Sessions!Serial'
    BY DEF SessionsSerial
  <2>1. Sessions!Serial /\ [Sessions!Next]_(Sessions!vars)
    BY SessionStep DEF SessionsSerial
  <2> QED
    BY <2>1, SessionsDistinct, Sessions!NextSerial
<1> QED
  BY <1>1, <1>2, PTL DEF Spec

(* What a caller reads of a session at a revision is what finalize at that *)
(* revision commits.                                                       *)
THEOREM RevisionsNameResolutions == Spec => []RevisionNamesResolutions
<1>1. SessionsSerial => RevisionNamesResolutions
  BY DEF SessionsSerial, Sessions!Serial, RevisionNamesResolutions
<1> QED
  BY <1>1, SessionsAlwaysSerial, PTL

(* The two-phase procedures implement the atomic operations, however many  *)
(* connections interleave, retry, are cancelled and crash.                 *)
THEOREM SessionsKeepThePromise == Spec => ImplementsPromise
<1>1. Init => (part = "session" => Sessions!Promise!Init)
  BY DEF Init, Sessions!Init
<1>2. SessionsSerial /\ [Next]_vars => [part = "session" => Sessions!Promise!Next \/ UNCHANGED x1]_vars
  <2> SUFFICES ASSUME SessionsSerial, Next, part = "session" PROVE Sessions!Promise!Next \/ UNCHANGED x1
    OBVIOUS
  <2>1. part' = "session"
    BY DEF Next, ReplayStep, rest5, rest6, rest8, rest9
  <2>2. Sessions!Serial /\ [Sessions!Next]_(Sessions!vars)
    BY <2>1, SessionStep DEF SessionsSerial
  <2>3. [Sessions!Promise!Next]_x1
    BY <2>2, SessionsDistinct, Sessions!StepRefines
  <2> QED
    BY <2>3
<1> QED
  BY <1>1, <1>2, SessionsAlwaysSerial, PTL DEF Spec, ImplementsPromise

CheckoutTyped == part = "branch" => Checkout!TypeOK

LEMMA CheckoutStep ==
    ASSUME [Next]_vars, part' = "branch"
    PROVE  part = "branch" /\ [Checkout!Next]_(Checkout!vars)
  BY DEF Next, vars, Checkout!vars, ReplayStep, rest5, rest6, rest8, rest9

LEMMA CheckoutAlwaysTyped == Spec => []CheckoutTyped
<1>1. Init => CheckoutTyped
  BY NamesAssumption DEF Init, CheckoutTyped, Checkout!Init, Checkout!TypeOK
<1>2. CheckoutTyped /\ [Next]_vars => CheckoutTyped'
  <2> SUFFICES ASSUME CheckoutTyped, [Next]_vars, part' = "branch" PROVE Checkout!TypeOK'
    BY DEF CheckoutTyped
  <2>1. Checkout!TypeOK /\ [Checkout!Next]_(Checkout!vars)
    BY CheckoutStep DEF CheckoutTyped
  <2>2. CASE UNCHANGED Checkout!vars
    BY <2>1, <2>2 DEF Checkout!TypeOK, Checkout!vars
  <2>3. CASE Checkout!Next
    <3>1. PICK c \in Connection :
              \/ \E b \in Branch : Checkout!CreateBranch(c, b) \/ Checkout!DeleteBranch(c, b)
                                   \/ Checkout!Checkout(c, b)
              \/ \E b \in Branch, kind \in {"write", "procedure"} : Checkout!Prepare(c, kind, b)
              \/ Checkout!CompleteCheckout(c) \/ Checkout!CancelCheckout(c) \/ Checkout!Reopen(c)
              \/ Checkout!Write(c) \/ Checkout!Procedure(c) \/ Checkout!Refuse(c)
      BY <2>3 DEF Checkout!Next
    <3>2. ASSUME NEW b \in Branch, Checkout!CreateBranch(c, b) \/ Checkout!DeleteBranch(c, b)
                                   \/ Checkout!Checkout(c, b)
          PROVE  Checkout!TypeOK'
      BY <2>1, <3>2 DEF Checkout!TypeOK, Checkout!CreateBranch, Checkout!DeleteBranch, Checkout!Checkout
    <3>3. ASSUME NEW b \in Branch, NEW kind \in {"write", "procedure"}, Checkout!Prepare(c, kind, b)
          PROVE  Checkout!TypeOK'
      <4>1. [kind |-> kind, explicit |-> b # x2[c], branch |-> b, pinned |-> x1[b]] \in Checkout!Query
        BY <2>1 DEF Checkout!TypeOK, Checkout!Query
      <4> QED
        BY <2>1, <3>3, <4>1 DEF Checkout!TypeOK, Checkout!Prepare
    <3>4. CASE Checkout!CompleteCheckout(c) \/ Checkout!CancelCheckout(c) \/ Checkout!Reopen(c)
      BY <2>1, <3>4, NamesAssumption
         DEF Checkout!TypeOK, Checkout!CompleteCheckout, Checkout!CancelCheckout, Checkout!Reopen
    <3>5. CASE Checkout!Write(c)
      <4>1. /\ x5' = x5 + 1 /\ x1' = [x1 EXCEPT ![Checkout!WriteTarget(c)] = x5 + 1]
            /\ x4' = [x4 EXCEPT ![c] = Checkout!None] /\ UNCHANGED <<x2, x3>>
        BY <3>5 DEF Checkout!Write, Checkout!Finish
      <4>2. x1 \in [Branch -> Nat] /\ x5 + 1 \in Nat \ {0}
        BY <2>1 DEF Checkout!TypeOK
      <4>3. x1' \in [Branch -> Nat]
        BY <4>1, <4>2
      <4> QED
        BY <2>1, <4>1, <4>2, <4>3 DEF Checkout!TypeOK
    <3>6. CASE Checkout!Procedure(c) \/ Checkout!Refuse(c)
      BY <2>1, <3>6 DEF Checkout!TypeOK, Checkout!Procedure, Checkout!Refuse, Checkout!Finish
    <3> QED
      BY <3>1, <3>2, <3>3, <3>4, <3>5, <3>6
  <2> QED
    BY <2>1, <2>2, <2>3
<1> QED
  BY <1>1, <1>2, PTL DEF Spec

(* A query hits the branch it read and no other, whatever any number of    *)
(* connections checked out, deleted, made again or moved meanwhile.        *)
THEOREM QueriesHitWhatTheyRead == Spec => QueryHitsWhatItRead
<1>1. CheckoutTyped /\ [Next]_vars => [part = "branch" => Checkout!HitsWhatItRead]_vars
  <2> SUFFICES ASSUME CheckoutTyped, Next, part = "branch" PROVE Checkout!HitsWhatItRead
    OBVIOUS
  <2>1. Checkout!TypeOK /\ Checkout!Next
    BY DEF CheckoutTyped, Next, ReplayStep
  <2> SUFFICES ASSUME NEW c \in Connection, Checkout!RanQuery(c), NEW b \in Branch, x1'[b] # x1[b]
               PROVE  /\ x1[b] = x4[c].pinned /\ x1'[b] # 0
                      /\ x4[c].kind = "write" \/ x4[c].explicit => b = x4[c].branch
    BY DEF Checkout!HitsWhatItRead
  <2>2. PICK d \in Connection :
            \/ \E branch \in Branch : Checkout!CreateBranch(d, branch) \/ Checkout!DeleteBranch(d, branch)
                                      \/ Checkout!Checkout(d, branch)
            \/ \E branch \in Branch, kind \in {"write", "procedure"} : Checkout!Prepare(d, kind, branch)
            \/ Checkout!CompleteCheckout(d) \/ Checkout!CancelCheckout(d) \/ Checkout!Reopen(d)
            \/ Checkout!Write(d) \/ Checkout!Procedure(d) \/ Checkout!Refuse(d)
    BY <2>1 DEF Checkout!Next
  <2>3. x4' # x4 /\ x1' # x1
    BY DEF Checkout!RanQuery
  <2>4. Checkout!Write(d) \/ Checkout!Procedure(d)
    BY <2>2, <2>3 DEF Checkout!CreateBranch, Checkout!DeleteBranch, Checkout!Checkout, Checkout!Prepare,
       Checkout!CompleteCheckout, Checkout!CancelCheckout, Checkout!Reopen, Checkout!Refuse
  <2>5. c = d
    <3>1. x4' = [x4 EXCEPT ![d] = Checkout!None]
      BY <2>4 DEF Checkout!Write, Checkout!Procedure, Checkout!Finish
    <3> QED
      BY <2>1, <3>1 DEF Checkout!RanQuery, Checkout!TypeOK
  <2>6. CASE Checkout!Write(c)
    <3>1. x1' = [x1 EXCEPT ![x4[c].branch] = x5 + 1] /\ x1[x4[c].branch] = x4[c].pinned
      BY <2>6 DEF Checkout!Write, Checkout!WriteTarget, Checkout!AtPinnedHead
    <3> QED
      BY <2>1, <3>1 DEF Checkout!TypeOK
  <2>7. CASE Checkout!Procedure(c)
    <3> DEFINE moved == Checkout!ProcedureTarget(c)
    <3>1. /\ x4[c].kind = "procedure" /\ x1[moved] = x4[c].pinned
          /\ \E target \in 1..x5 : x1' = [x1 EXCEPT ![moved] = target]
      BY <2>7 DEF Checkout!Procedure, Checkout!AtPinnedHead
    <3>2. x4[c].explicit => moved = x4[c].branch
      BY DEF Checkout!ProcedureTarget
    <3> HIDE DEF moved
    <3>3. b = moved /\ x1'[b] # 0
      BY <2>1, <3>1 DEF Checkout!TypeOK
    <3> QED
      BY <3>1, <3>2, <3>3
  <2> QED
    BY <2>4, <2>5, <2>6, <2>7
<1> QED
  BY <1>1, CheckoutAlwaysTyped, PTL DEF Spec, QueryHitsWhatItRead

-----------------------------------------------------------------------------
(* Theorems about the commit graph: the merge bases that                   *)
(* best_common_ancestors computes from immediate parents are the maximal   *)
(* common ancestors, for every graph.                                      *)

(* The walk of ancestors starts at the commit and follows every parent.    *)
LEMMA AncestorsClosed ==
    ASSUME NEW graph, Bases!IsGraph(graph), NEW start \in DOMAIN graph
    PROVE  /\ start \in Bases!Ancestors(graph, start)
           /\ Bases!ParentClosed(graph, Bases!Ancestors(graph, start))
  BY DEF Bases!Ancestors, Bases!ParentClosed, Bases!IsGraph

(* It visits nothing that a closed set around the start leaves out.        *)
LEMMA AncestorsLeast ==
    ASSUME NEW graph, NEW start, NEW commits \in SUBSET DOMAIN graph,
           start \in commits, Bases!ParentClosed(graph, commits)
    PROVE  Bases!Ancestors(graph, start) \subseteq commits
  BY DEF Bases!Ancestors

(* Ancestors of ancestors are ancestors: the merge base of a merge base is *)
(* found by the same walk.                                                 *)
THEOREM AncestorsTransitive ==
    ASSUME NEW graph, Bases!IsGraph(graph), NEW start \in DOMAIN graph,
           NEW c \in Bases!Ancestors(graph, start)
    PROVE  Bases!Ancestors(graph, c) \subseteq Bases!Ancestors(graph, start)
  BY AncestorsClosed, AncestorsLeast DEF Bases!Ancestors

(* Between two different commits of which one is an ancestor of the other  *)
(* there is a child of the ancestor.                                       *)
LEMMA ChildBetween ==
    ASSUME NEW graph, Bases!IsGraph(graph), NEW d \in DOMAIN graph,
           NEW c \in Bases!Ancestors(graph, d), c # d
    PROVE  \E child \in Bases!Ancestors(graph, d) : c \in Bases!ParentsIn(graph, child)
  <1> SUFFICES ASSUME \A child \in Bases!Ancestors(graph, d) : c \notin Bases!ParentsIn(graph, child)
               PROVE  FALSE
    OBVIOUS
  <1> DEFINE others == Bases!Ancestors(graph, d) \ {c}
  <1>1. d \in others /\ others \in SUBSET DOMAIN graph
    BY AncestorsClosed DEF Bases!Ancestors
  <1>2. Bases!ParentClosed(graph, others)
    BY AncestorsClosed DEF Bases!ParentClosed
  <1>3. Bases!Ancestors(graph, d) \subseteq others
    BY <1>1, <1>2, AncestorsLeast
  <1> QED
    BY <1>3

(* The common ancestors of two commits are closed under parents, which the *)
(* comment in dominated_ancestors relies on.                               *)
LEMMA CommonClosed ==
    ASSUME NEW graph, Bases!IsGraph(graph), NEW left \in DOMAIN graph, NEW right \in DOMAIN graph
    PROVE  /\ Bases!ParentClosed(graph, Bases!CommonAncestors(graph, left, right))
           /\ Bases!CommonAncestors(graph, left, right) \subseteq DOMAIN graph
  <1>1. /\ Bases!ParentClosed(graph, Bases!Ancestors(graph, left))
        /\ Bases!ParentClosed(graph, Bases!Ancestors(graph, right))
    BY AncestorsClosed
  <1>2. Bases!Ancestors(graph, left) \subseteq DOMAIN graph
    BY DEF Bases!Ancestors
  <1> QED
    BY <1>1, <1>2 DEF Bases!CommonAncestors, Bases!ParentClosed

(* best_common_ancestors drops the immediate parents of common ancestors   *)
(* only; what is left are exactly the common ancestors that are not        *)
(* ancestors of other common ancestors.                                    *)
THEOREM BestAreMaximal ==
    ASSUME NEW graph, Bases!IsGraph(graph), Bases!Acyclic(graph),
           NEW left \in DOMAIN graph, NEW right \in DOMAIN graph
    PROVE  Bases!BestCommonAncestors(graph, left, right)
               = {c \in Bases!CommonAncestors(graph, left, right) :
                     \A d \in Bases!CommonAncestors(graph, left, right) : Bases!IsAncestor(graph, c, d) => c = d}
  <1> DEFINE common == Bases!CommonAncestors(graph, left, right)
  <1>1. Bases!ParentClosed(graph, common) /\ common \subseteq DOMAIN graph
    BY CommonClosed
  <1>2. ASSUME NEW c \in common, NEW d \in common, Bases!IsAncestor(graph, c, d), c # d
        PROVE  c \in Bases!Dominated(graph, common)
    <2>1. PICK child \in Bases!Ancestors(graph, d) : c \in Bases!ParentsIn(graph, child)
      BY <1>1, <1>2, ChildBetween DEF Bases!IsAncestor
    <2>2. Bases!Ancestors(graph, d) \subseteq common
      BY <1>1, AncestorsLeast
    <2> QED
      BY <2>1, <2>2 DEF Bases!Dominated
  <1>3. ASSUME NEW c \in common, c \in Bases!Dominated(graph, common)
        PROVE  \E d \in common : Bases!IsAncestor(graph, c, d) /\ c # d
    <2>1. PICK d \in common : c \in Bases!ParentsIn(graph, d)
      BY <1>3 DEF Bases!Dominated
    <2>2. d \in Bases!Ancestors(graph, d) /\ c \in Bases!Ancestors(graph, d)
      BY <1>1, <2>1, AncestorsClosed DEF Bases!ParentClosed
    <2>3. c \in Bases!Ancestors(graph, c)
      BY <1>1, AncestorsClosed
    <2>4. c # d
      BY <1>1, <2>1, <2>3 DEF Bases!Acyclic
    <2> QED
      BY <2>2, <2>4 DEF Bases!IsAncestor
  <1> QED
    BY <1>2, <1>3 DEF Bases!BestCommonAncestors

(* A commit and its ancestor have one merge base, the ancestor: a merge of *)
(* the two is up to date or a fast-forward and never needs a virtual base. *)
THEOREM AncestorIsOnlyBase ==
    ASSUME NEW graph, Bases!IsGraph(graph), Bases!Acyclic(graph),
           NEW right \in DOMAIN graph, NEW left \in Bases!Ancestors(graph, right)
    PROVE  Bases!BestCommonAncestors(graph, left, right) = {left}
  <1>1. left \in DOMAIN graph
    BY DEF Bases!Ancestors
  <1>2. Bases!CommonAncestors(graph, left, right) = Bases!Ancestors(graph, left)
    BY <1>1, AncestorsTransitive DEF Bases!CommonAncestors
  <1>3. left \in Bases!Ancestors(graph, left)
    BY <1>1, AncestorsClosed
  <1>4. ASSUME NEW c \in Bases!Ancestors(graph, left), c # left
        PROVE  c \notin Bases!BestCommonAncestors(graph, left, right)
    <2>1. PICK child \in Bases!Ancestors(graph, left) : c \in Bases!ParentsIn(graph, child)
      BY <1>1, <1>4, ChildBetween
    <2> QED
      BY <1>2, <2>1 DEF Bases!BestCommonAncestors, Bases!Dominated
  <1>5. left \notin Bases!Dominated(graph, Bases!Ancestors(graph, left))
    <2> SUFFICES ASSUME NEW d \in Bases!Ancestors(graph, left), left \in Bases!ParentsIn(graph, d)
                 PROVE  FALSE
      BY DEF Bases!Dominated
    <2>1. d \in DOMAIN graph
      BY DEF Bases!Ancestors
    <2> QED
      BY <2>1 DEF Bases!Acyclic
  <1> QED
    BY <1>2, <1>3, <1>4, <1>5 DEF Bases!BestCommonAncestors

(* A graph numbered after its parents is a graph, is acyclic, and its      *)
(* first commit is the ancestor of all.                                    *)
LEMMA NumberedIsAcyclic ==
    ASSUME NEW n \in Nat \ {0}, NEW g, DOMAIN g = 1..n,
           \A c \in 1..n : /\ Bases!ParentsIn(g, c) \subseteq 1..c - 1
                           /\ c # 1 => Bases!ParentsIn(g, c) # {}
    PROVE  Bases!IsGraph(g) /\ Bases!Acyclic(g) /\ \A c \in 1..n : 1 \in Bases!Ancestors(g, c)
<1>1. Bases!IsGraph(g)
  BY DEF Bases!IsGraph
<1>2. Bases!Acyclic(g)
  <2> SUFFICES ASSUME NEW c \in 1..n, NEW p \in Bases!ParentsIn(g, c)
               PROVE  c \notin Bases!Ancestors(g, p)
    BY DEF Bases!Acyclic
  <2>1. p \in 1..c - 1
    OBVIOUS
  <2>2. p \in 1..p /\ 1..p \in SUBSET (1..n) /\ c \notin 1..p
    BY <2>1
  <2>3. Bases!ParentClosed(g, 1..p)
    <3> SUFFICES ASSUME NEW d \in 1..p PROVE Bases!ParentsIn(g, d) \subseteq 1..p
      BY DEF Bases!ParentClosed
    <3>1. d \in 1..n /\ 1..d - 1 \subseteq 1..p
      BY <2>1
    <3> QED
      BY <3>1
  <2> QED
    BY <2>2, <2>3, AncestorsLeast
<1>3. ASSUME NEW c \in 1..n PROVE 1 \in Bases!Ancestors(g, c)
  <2> SUFFICES ASSUME NEW visited \in SUBSET (1..n), c \in visited, Bases!ParentClosed(g, visited)
               PROVE  1 \in visited
    BY DEF Bases!Ancestors
  <2>1. PICK x \in visited : \A y \in visited : x <= y
    <3>1. visited \in SUBSET Nat /\ visited # {}
      OBVIOUS
    <3> QED
      BY <3>1, LeastNumber
  <2>2. x # 1 => \E p \in 1..x - 1 : p \in visited
    BY DEF Bases!ParentClosed
  <2> QED
    BY <2>1, <2>2
<1> QED
  BY <1>1, <1>2, <1>3

LEMMA BasesStep ==
    ASSUME [Next]_vars, part' = "bases"
    PROVE  part = "bases" /\ [Bases!GraphNext]_(Bases!vars)
  BY DEF Next, vars, Bases!vars, ReplayStep, rest5, rest6, rest8, rest9

BasesNumbered == part = "bases" => Bases!Numbered

LEMMA BasesAlwaysNumbered == Spec => []BasesNumbered
<1>1. Init => BasesNumbered
  <2> SUFFICES ASSUME Bases!Init PROVE Bases!Numbered
    BY DEF Init, BasesNumbered
  <2>1. DOMAIN x1 = 1..1 /\ DOMAIN x2 = 1..1 /\ x4 \subseteq 1..1 /\ x1[1] = <<>>
    BY DEF Bases!Init
  <2>2. Bases!ParentsIn(x1, 1) = {}
    BY <2>1 DEF Bases!ParentsIn
  <2>3. \A c \in 1..1 : /\ Bases!ParentsIn(x1, c) \subseteq 1..c - 1
                        /\ c # 1 => Bases!ParentsIn(x1, c) # {}
    BY <2>2
  <2> QED
    BY <2>1, <2>3 DEF Bases!Numbered
<1>2. BasesNumbered /\ [Next]_vars => BasesNumbered'
  <2> SUFFICES ASSUME BasesNumbered, [Next]_vars, part' = "bases" PROVE Bases!Numbered'
    BY DEF BasesNumbered
  <2>1. Bases!Numbered /\ [Bases!GraphNext]_(Bases!vars)
    BY BasesStep DEF BasesNumbered
  <2>2. CASE UNCHANGED Bases!vars
    BY <2>1, <2>2 DEF Bases!Numbered, Bases!vars
  <2>3. CASE Bases!GraphNext
    <3>1. PICK n \in Nat \ {0} :
              /\ DOMAIN x1 = 1..n /\ DOMAIN x2 = 1..n /\ x4 \subseteq 1..n
              /\ \A c \in 1..n : /\ Bases!ParentsIn(x1, c) \subseteq 1..c - 1
                                 /\ c # 1 => Bases!ParentsIn(x1, c) # {}
      BY <2>1 DEF Bases!Numbered
    <3>2. PICK parents : /\ Bases!Add(parents) /\ DOMAIN parents # {}
                         /\ \A i \in DOMAIN parents : parents[i] \in x4
      <4>1. ASSUME NEW p \in x4, Bases!Add(<<p>>)
            PROVE  \E parents : /\ Bases!Add(parents) /\ DOMAIN parents # {}
                                /\ \A i \in DOMAIN parents : parents[i] \in x4
        <5>1. DOMAIN <<p>> # {} /\ \A i \in DOMAIN <<p>> : <<p>>[i] \in x4
          OBVIOUS
        <5> QED
          BY <4>1, <5>1, Zenon
      <4>2. ASSUME NEW p \in x4, NEW q \in x4, Bases!Add(<<p, q>>)
            PROVE  \E parents : /\ Bases!Add(parents) /\ DOMAIN parents # {}
                                /\ \A i \in DOMAIN parents : parents[i] \in x4
        <5>1. DOMAIN <<p, q>> # {} /\ \A i \in DOMAIN <<p, q>> : <<p, q>>[i] \in x4
          OBVIOUS
        <5> QED
          BY <4>2, <5>1, Zenon
      <4> QED
        BY <2>3, <4>1, <4>2 DEF Bases!GraphNext, Bases!Commit, Bases!MergeCommit
    <3>3. Bases!Cardinality(DOMAIN x2) + 1 = n + 1
      <4>1. Bases!Cardinality(DOMAIN x2) = Cardinality(DOMAIN x2)
        BY DEF Bases!Cardinality, Cardinality, Bases!IsFiniteSet, IsFiniteSet
      <4> QED
        BY <3>1, <4>1, FS_Interval
    <3>4. /\ x1' = [y \in 1..n + 1 |-> IF y = n + 1 THEN parents ELSE x1[y]]
          /\ DOMAIN x2' = 1..n + 1 /\ x4' \subseteq x4 \cup {n + 1}
      <4>1. 1..n \cup {n + 1} = 1..n + 1
        OBVIOUS
      <4> DEFINE c == Bases!Cardinality(DOMAIN x2) + 1
      <4>2. x1' = Bases!Extend(x1, c, parents) /\ \E stamp \in {1} : x2' = Bases!Extend(x2, c, stamp)
        BY <3>2 DEF Bases!Add
      <4>3. \E branched \in BOOLEAN : x4' = (IF branched THEN x4 ELSE x4 \ {parents[1]}) \cup {c}
        BY <3>2 DEF Bases!Add
      <4>4. c = n + 1
        BY <3>3
      <4> HIDE DEF c
      <4>5. x4' \subseteq x4 \cup {n + 1}
        BY <4>3, <4>4
      <4> QED
        BY <3>1, <4>1, <4>2, <4>4, <4>5 DEF Bases!Extend
    <3>5. Bases!ParentsIn(x1', n + 1) = {parents[i] : i \in DOMAIN parents}
      BY <3>4 DEF Bases!ParentsIn
    <3>6. \A c \in 1..n : Bases!ParentsIn(x1', c) = Bases!ParentsIn(x1, c)
      BY <3>4 DEF Bases!ParentsIn
    <3>7. /\ Bases!ParentsIn(x1', n + 1) \subseteq 1..(n + 1) - 1
          /\ Bases!ParentsIn(x1', n + 1) # {}
      <4>1. DOMAIN parents # {} /\ \A i \in DOMAIN parents : parents[i] \in x4
        BY <3>2, Zenon
      <4>2. (n + 1) - 1 = n
        OBVIOUS
      <4> QED
        BY <3>1, <3>5, <4>1, <4>2
    <3>8. \A c \in 1..n + 1 : /\ Bases!ParentsIn(x1', c) \subseteq 1..c - 1
                              /\ c # 1 => Bases!ParentsIn(x1', c) # {}
      <4>1. \A c \in 1..n + 1 : c \in 1..n \/ c = n + 1
        OBVIOUS
      <4> QED
        BY <3>1, <3>6, <3>7, <4>1
    <3>9. DOMAIN x1' = 1..n + 1 /\ x4' \subseteq 1..n + 1 /\ n + 1 \in Nat \ {0}
      BY <3>1, <3>4
    <3> QED
      BY <3>4, <3>8, <3>9 DEF Bases!Numbered
  <2> QED
    BY <2>1, <2>2, <2>3
<1> QED
  BY <1>1, <1>2, PTL DEF Spec

(* best_common_ancestors gives the maximal common ancestors of two heads,  *)
(* and at least one, whatever commits and merges made the graph.           *)
THEOREM BasesAreAlwaysRight == Spec => []BasesAreRight
<1>1. Bases!Numbered => Bases!BestBasesAreMaximal
  <2> SUFFICES ASSUME Bases!Numbered PROVE Bases!BestBasesAreMaximal
    OBVIOUS
  <2>1. PICK n \in Nat \ {0} :
            /\ DOMAIN x1 = 1..n
            /\ \A c \in 1..n : /\ Bases!ParentsIn(x1, c) \subseteq 1..c - 1
                               /\ c # 1 => Bases!ParentsIn(x1, c) # {}
    BY DEF Bases!Numbered
  <2>2. Bases!IsGraph(x1) /\ Bases!Acyclic(x1) /\ \A c \in 1..n : 1 \in Bases!Ancestors(x1, c)
    BY <2>1, NumberedIsAcyclic
  <2> SUFFICES ASSUME NEW left \in 1..n, NEW right \in 1..n
               PROVE  LET common == Bases!CommonAncestors(x1, left, right)
                      IN  /\ Bases!BestCommonAncestors(x1, left, right)
                                 = {c \in common : \A d \in common : Bases!IsAncestor(x1, c, d) => c = d}
                          /\ Bases!BestCommonAncestors(x1, left, right) # {}
                          /\ Bases!IsAncestor(x1, left, right) =>
                                 Bases!BestCommonAncestors(x1, left, right) = {left}
    BY <2>1 DEF Bases!BestBasesAreMaximal
  <2> DEFINE common == Bases!CommonAncestors(x1, left, right)
  <2>3. 1 \in common /\ common \subseteq 1..n
    BY <2>1, <2>2, CommonClosed DEF Bases!CommonAncestors
  <2>4. PICK c \in common : \A d \in common : d <= c
    <3> HIDE DEF common
    <3> DEFINE S == {n - d : d \in common}
    <3>1. S \in SUBSET Nat /\ S # {}
      BY <2>3
    <3>2. PICK x \in S : \A y \in S : x <= y
      BY <3>1, LeastNumber
    <3>3. PICK c \in common : x = n - c
      OBVIOUS
    <3>4. \A d \in common : n - c <= n - d
      BY <3>2, <3>3
    <3> QED
      BY <2>3, <3>4
  <2>5. c \notin Bases!Dominated(x1, common)
    <3> SUFFICES ASSUME NEW d \in common, c \in Bases!ParentsIn(x1, d) PROVE FALSE
      BY DEF Bases!Dominated
    <3>1. d \in 1..n /\ c \in 1..d - 1 /\ d <= c
      BY <2>1, <2>3, <2>4
    <3> QED
      BY <3>1
  <2>6. Bases!BestCommonAncestors(x1, left, right) # {}
    BY <2>5 DEF Bases!BestCommonAncestors
  <2>7. Bases!BestCommonAncestors(x1, left, right)
            = {e \in common : \A d \in common : Bases!IsAncestor(x1, e, d) => e = d}
    BY <2>1, <2>2, BestAreMaximal
  <2>8. Bases!IsAncestor(x1, left, right) => Bases!BestCommonAncestors(x1, left, right) = {left}
    BY <2>1, <2>2, AncestorIsOnlyBase DEF Bases!IsAncestor
  <2> QED
    BY <2>6, <2>7, <2>8
<1>2. BasesNumbered => BasesAreRight
  BY <1>1 DEF BasesNumbered, BasesAreRight
<1> QED
  BY <1>2, BasesAlwaysNumbered, PTL

-----------------------------------------------------------------------------
(* Theorems about rebase, for all graphs and numbers of commits.           *)

LEMMA RebaseInit == Rebasing!Init => Rebasing!Sound
<1> SUFFICES ASSUME Rebasing!Init PROVE Rebasing!Sound
  OBVIOUS
<1>1. x1 \in Rebasing!Version /\ x3 \in Rebasing!Version /\ x2 \in Seq(Rebasing!Version)
  BY DEF Rebasing!Init
<1>2. DOMAIN x6 = {}
  BY DEF Rebasing!Init, Rebasing!Empty
<1>3. /\ x5 = Rebasing!Idle /\ x4.from = "boundary" /\ x4.commits = x2
      /\ x7.status = "none" /\ x7 = [status |-> x7.status, conflicts |-> x7.conflicts]
  BY DEF Rebasing!Init, Rebasing!NoAnswer
<1> QED
  BY <1>1, <1>2, <1>3 DEF Rebasing!Sound, Rebasing!NothingLostInReplay

(* One source commit replayed without an open conflict.                    *)
LEMMA ReplayKeepsTheWord ==
    ASSUME Rebasing!Sound, Rebasing!Running, Rebasing!Step <= Len(x2), Rebasing!Ready(Rebasing!Replayed)
    PROVE  /\ Rebasing!Replayed.candidate \in Rebasing!Version
           /\ Rebasing!Seen(Rebasing!Replayed) \subseteq DOMAIN x6
           /\ \A s \in LoopSlots : ~ Rebasing!Asked(s) =>
                  Rebasing!Replayed.candidate[s] = Rebasing!Word(Rebasing!Step, s)
<1> DEFINE k == Len(x5.rewritten)
           head == Rebasing!ReplayHead
           base == Rebasing!SourceParent(k + 1)
           supplied == Rebasing!Supplied(k + 1, head)
           merge == Rebasing!FullMerge(base, head, x2[k + 1], supplied)
<1>1. /\ k \in Nat /\ k + 1 <= Len(x2) /\ Rebasing!Step = k + 1 /\ k + 1 \in DOMAIN x2
      /\ x5.rewritten \in Seq(Rebasing!Version) /\ x2 \in Seq(Rebasing!Version)
  BY DEF Rebasing!Sound, Rebasing!Running, Rebasing!Step
<1>2. merge = Rebasing!Replayed
  BY <1>1 DEF Rebasing!Replayed
<1>3. head \in Rebasing!Version /\ x2[k + 1] \in Rebasing!Version /\ base \in Rebasing!Version
  <2>1. head \in Rebasing!Version
    BY <1>1 DEF Rebasing!ReplayHead, Rebasing!Sound
  <2>2. k + 1 # 1 => x2[(k + 1) - 1] \in Rebasing!Version
    BY <1>1
  <2> QED
    BY <1>1, <2>1, <2>2 DEF Rebasing!SourceParent, Rebasing!Sound
<1>4. Rebasing!Mergeable(base, head, x2[k + 1], supplied)
  <2> HIDE DEF k, head, base
  <2>1. /\ base \in [LoopSlots -> LoopValues \cup {"none", "unknown"}]
        /\ \A s \in LoopSlots : base[s] \in LoopSlotValues[s] \cup {"none", "unknown"}
    BY <1>3 DEF Rebasing!Version, Rebasing!Graph
  <2>2. DOMAIN supplied \subseteq LoopSlots
    BY DEF Rebasing!Supplied
  <2>3. ASSUME NEW s \in DOMAIN supplied PROVE supplied[s] \in Rebasing!Choice(s)
    <3>1. /\ supplied[s] = x6[Rebasing!ConflictId(k + 1, head, s)]
          /\ Rebasing!ConflictId(k + 1, head, s) \in DOMAIN x6
      BY <2>3 DEF Rebasing!Supplied
    <3>2. Rebasing!ConflictId(k + 1, head, s)[3] = s
      BY DEF Rebasing!ConflictId
    <3> QED
      BY <3>1, <3>2 DEF Rebasing!Sound
  <2> QED
    BY <1>3, <2>1, <2>2, <2>3 DEF Rebasing!Mergeable
<1>5. Rebasing!Ready(merge)
  BY <1>2
<1>6. merge.candidate \in Rebasing!Version
  BY <1>4, <1>5, LoopAssumption, Rebasing!FullReadyIsVersion DEF OfSlots
<1>7. merge.conflicts \subseteq DOMAIN supplied
  BY <1>5, LoopAssumption, Rebasing!ReadyIsResolved DEF OfSlots
<1>8. \A s \in merge.conflicts : s \in LoopSlots /\ Rebasing!ConflictId(k + 1, head, s) \in DOMAIN x6
  BY <1>7 DEF Rebasing!Supplied
<1>9. Rebasing!Seen(Rebasing!Replayed) \subseteq DOMAIN x6
  <2>1. Rebasing!Seen(merge) = x5.seen \cup {Rebasing!ConflictId(k + 1, head, s) : s \in merge.conflicts}
    BY <1>1 DEF Rebasing!Seen
  <2>2. x5.seen \subseteq DOMAIN x6
    BY DEF Rebasing!Running
  <2> HIDE DEF merge, k, head
  <2> QED
    BY <1>2, <1>8, <2>1, <2>2
<1>10. ASSUME NEW s \in LoopSlots, ~ Rebasing!Asked(s)
       PROVE  merge.candidate[s] = Rebasing!Word(k + 1, s)
  <2>1. Rebasing!Around(s) \cap merge.conflicts = {}
    <3> SUFFICES ASSUME NEW t \in merge.conflicts, t \in Rebasing!Around(s) PROVE FALSE
      OBVIOUS
    <3>1. Rebasing!ConflictId(k + 1, head, t)[3] = t
      BY DEF Rebasing!ConflictId
    <3> QED
      BY <1>8, <1>10, <3>1 DEF Rebasing!Asked
  <2>2. /\ \A side \in {head, x2[k + 1]} : base[s] \notin {"unknown", side[s]} => merge.candidate[s] = side[s]
        /\ head[s] = x2[k + 1][s] => merge.candidate[s] = head[s]
    BY <1>4, <1>5, <2>1, LoopAssumption, Rebasing!FullMergeKeeps DEF OfSlots
  <2>3. base[s] # "unknown"
    <3>1. base[s] \in LoopValues \cup {"none"}
      BY <1>3 DEF Rebasing!Version, Rebasing!Graph
    <3> QED
      BY <3>1, LoopAssumption DEF Rebasing!Shaped
  <2>4. head[s] = Rebasing!Word(k, s)
    BY <1>10 DEF Rebasing!Running
  <2>5. k # 0 => base = x2[k]
    BY <1>1 DEF Rebasing!SourceParent
  <2> DEFINE Changed(i) == x2[i][s] # Rebasing!SourceParent(i)[s]
  <2>6. Rebasing!Word(k + 1, s) = IF \E i \in 1..k + 1 : Changed(i) THEN x2[k + 1][s] ELSE x3[s]
    BY DEF Rebasing!Word
  <2>7. head[s] = IF \E i \in 1..k : Changed(i) THEN x2[k][s] ELSE x3[s]
    BY <2>4 DEF Rebasing!Word
  <2>8. Changed(k + 1) <=> x2[k + 1][s] # base[s]
    OBVIOUS
  <2>9. (\E i \in 1..k + 1 : Changed(i)) <=> Changed(k + 1) \/ \E i \in 1..k : Changed(i)
    <3>1. \A i \in 1..k + 1 : i \in 1..k \/ i = k + 1
      BY <1>1
    <3>2. 1..k \subseteq 1..k + 1 /\ k + 1 \in 1..k + 1
      BY <1>1
    <3> HIDE DEF Changed, k
    <3> QED
      BY <3>1, <3>2
  <2>10. (\E i \in 1..k : Changed(i)) => k # 0
    BY <1>1
  <2> HIDE DEF merge, k, head, base, Changed
  <2> QED
    BY <2>2, <2>3, <2>5, <2>6, <2>7, <2>8, <2>9, <2>10
<1> HIDE DEF merge
<1> QED
  BY <1>1, <1>2, <1>6, <1>9, <1>10

LEMMA RebaseNext == Rebasing!Sound /\ [Rebasing!Next]_(Rebasing!vars) => Rebasing!Sound'
<1> SUFFICES ASSUME Rebasing!Sound, [Rebasing!Next]_(Rebasing!vars) PROVE Rebasing!Sound'
  OBVIOUS
<1> DEFINE Typed == /\ x1 \in Rebasing!Version /\ x3 \in Rebasing!Version /\ x2 \in Seq(Rebasing!Version)
                    /\ \A id \in DOMAIN x6 : x6[id] \in Rebasing!Choice(id[3])
           Before == x4.from = "boundary" /\ x4.commits = x2
           History == x1' = x1 /\ x2' = x2 /\ x3' = x3
<1>1. Typed
  BY DEF Rebasing!Sound
<1>2. (x5 = Rebasing!Idle /\ ~ x5.running) \/ (Rebasing!Running /\ x5.running)
  BY DEF Rebasing!Sound, Rebasing!Idle, Rebasing!Running
<1>3. x7.status \notin {"rebased", "up_to_date"} \/ x5.running => Before
  BY <1>2 DEF Rebasing!Sound, Rebasing!Idle
(* A step after which the branch is where it was and no call runs.         *)
<1>4. ASSUME History, Before, x4' = x4, x5' = Rebasing!Idle, Typed',
             NEW status, status \notin {"rebased", "up_to_date"},
             NEW conflicts, x7' = [status |-> status, conflicts |-> conflicts]
      PROVE  Rebasing!Sound'
  <2>1. x7'.status = status /\ x7' = [status |-> x7'.status, conflicts |-> x7'.conflicts]
    BY <1>4
  <2>2. x4'.from = "boundary" /\ x4'.commits = x2'
    BY <1>4
  <2> QED
    BY <1>4, <2>1, <2>2 DEF Rebasing!Sound, Rebasing!NothingLostInReplay
<1>5. ASSUME Rebasing!Call PROVE Rebasing!Sound'
  <2>1. /\ x5' = [running |-> TRUE, rewritten |-> <<>>, seen |-> {}] /\ x7' = Rebasing!NoAnswer
        /\ History /\ x4' = x4 /\ x6' = x6 /\ x7.status \in {"none", "resolved"} /\ x2 # <<>>
    BY <1>5 DEF Rebasing!Call, Rebasing!history
  <2>2. Before
    BY <1>3, <2>1
  <2>3. /\ x5'.running /\ x5'.rewritten = <<>> /\ x5'.seen = {}
        /\ x7'.status = "none" /\ x7' = [status |-> x7'.status, conflicts |-> x7'.conflicts]
    BY <2>1 DEF Rebasing!NoAnswer
  <2>4. Rebasing!ReplayHead' = x3 /\ \A s : Rebasing!Word(0, s)' = x3[s]
    BY <2>1, <2>3 DEF Rebasing!ReplayHead, Rebasing!Word
  <2>5. Len(x5'.rewritten) = 0 /\ x5'.rewritten \in Seq(Rebasing!Version)
    BY <2>3
  <2>6. Rebasing!Running'
    BY <1>1, <2>1, <2>2, <2>3, <2>4, <2>5 DEF Rebasing!Running
  <2> QED
    BY <1>1, <2>1, <2>2, <2>3, <2>6 DEF Rebasing!Sound, Rebasing!NothingLostInReplay
<1>6. ASSUME Rebasing!UpToDate PROVE Rebasing!Sound'
  <2>1. /\ x2 = <<>> /\ x4' = [from |-> "onto", commits |-> <<>>] /\ x5' = Rebasing!Idle
        /\ x7' = [status |-> "up_to_date", conflicts |-> {}] /\ History /\ x6' = x6
    BY <1>6 DEF Rebasing!UpToDate, Rebasing!OnOnto, Rebasing!Return, Rebasing!history
  <2> QED
    BY <1>1, <2>1 DEF Rebasing!Sound, Rebasing!NothingLostInReplay
<1>7. ASSUME Rebasing!ReplayCommit PROVE Rebasing!Sound'
  <2> DEFINE candidate == Rebasing!Replayed.candidate
             seen == Rebasing!Seen(Rebasing!Replayed)
  <2>1. /\ x5.running /\ Rebasing!Step <= Len(x2) /\ Rebasing!Ready(Rebasing!Replayed)
        /\ x5' = [x5 EXCEPT !.rewritten = Append(@, candidate), !.seen = seen]
        /\ History /\ x4' = x4 /\ x6' = x6 /\ x7' = x7
    BY <1>7 DEF Rebasing!ReplayCommit, Rebasing!history
  <2>2. Rebasing!Running
    BY <1>2, <2>1
  <2>3. PICK k \in Nat : k = Len(x5.rewritten) /\ Rebasing!Step = k + 1
    BY <2>2 DEF Rebasing!Running, Rebasing!Step
  <2>4. /\ candidate \in Rebasing!Version /\ seen \subseteq DOMAIN x6
        /\ \A s \in LoopSlots : ~ Rebasing!Asked(s) => candidate[s] = Rebasing!Word(k + 1, s)
    BY <2>1, <2>2, <2>3, ReplayKeepsTheWord
  <2> HIDE DEF candidate, seen
  <2>5. x5' = [running |-> TRUE, rewritten |-> Append(x5.rewritten, candidate), seen |-> seen]
    BY <2>1, <2>2 DEF Rebasing!Running
  <2>6. x5.rewritten \in Seq(Rebasing!Version) /\ k + 1 <= Len(x2)
    BY <2>1, <2>2, <2>3 DEF Rebasing!Running
  <2>7. /\ x5'.rewritten = Append(x5.rewritten, candidate) /\ x5'.seen = seen
        /\ x5'.rewritten \in Seq(Rebasing!Version) /\ Len(x5'.rewritten) = k + 1
        /\ x5'.rewritten # <<>> /\ x5'.rewritten[k + 1] = candidate
    BY <2>4, <2>5, <2>6, <2>3
  <2>8. Rebasing!ReplayHead' = candidate
    BY <2>7 DEF Rebasing!ReplayHead
  <2>9. \A s \in LoopSlots : /\ Rebasing!Asked(s)' <=> Rebasing!Asked(s)
                             /\ Rebasing!Word(k + 1, s)' = Rebasing!Word(k + 1, s)
    BY <2>1 DEF Rebasing!Asked, Rebasing!Word, Rebasing!SourceParent
  <2>10. Rebasing!Running'
    <3>1. x4'.from = "boundary" /\ x7' = Rebasing!NoAnswer /\ x2' # <<>>
      BY <2>1, <2>2 DEF Rebasing!Running
    <3>2. x5' = [running |-> TRUE, rewritten |-> x5'.rewritten, seen |-> x5'.seen]
      BY <2>5, <2>7
    <3>3. \A s \in LoopSlots : ~ Rebasing!Asked(s)' => candidate[s] = Rebasing!Word(k + 1, s)'
      BY <2>4, <2>9
    <3>4. Len(x5'.rewritten) <= Len(x2') /\ x5'.seen \subseteq DOMAIN x6'
      BY <2>1, <2>4, <2>6, <2>7
    <3>5. \A s \in LoopSlots : ~ Rebasing!Asked(s)' => Rebasing!ReplayHead'[s] = Rebasing!Word(Len(x5.rewritten), s)'
      BY <2>7, <2>8, <3>3
    <3> QED
      BY <2>7, <3>1, <3>2, <3>4, <3>5 DEF Rebasing!Running
  <2>11. Before /\ x7.status = "none"
    BY <1>3, <2>1, <2>2 DEF Rebasing!Running, Rebasing!NoAnswer
  <2> QED
    BY <1>1, <2>1, <2>10, <2>11 DEF Rebasing!Sound, Rebasing!NothingLostInReplay
<1>8. ASSUME Rebasing!Conflict PROVE Rebasing!Sound'
  <2>1. PICK status \in {"conflicted", "unknown"} :
            x5' = Rebasing!Idle /\ \E conflicts : x7' = [status |-> status, conflicts |-> conflicts]
    BY <1>8 DEF Rebasing!Conflict, Rebasing!Return
  <2>2. x5.running /\ x4' = x4 /\ History /\ x6' = x6
    BY <1>8 DEF Rebasing!Conflict, Rebasing!Return, Rebasing!history
  <2> QED
    BY <1>1, <1>3, <1>4, <2>1, <2>2
<1>9. ASSUME Rebasing!Fail PROVE Rebasing!Sound'
  <2>1. PICK status \in {"invalid", "cancelled"} :
            x5' = Rebasing!Idle /\ x7' = [status |-> status, conflicts |-> {}]
    BY <1>9 DEF Rebasing!Fail, Rebasing!Return
  <2>2. x5.running /\ x4' = x4 /\ History /\ x6' = x6
    BY <1>9 DEF Rebasing!Fail, Rebasing!Return, Rebasing!history
  <2> QED
    BY <1>1, <1>3, <1>4, <2>1, <2>2
<1>10. ASSUME Rebasing!Release PROVE Rebasing!Sound'
  <2>1. x5.running /\ Rebasing!Step > Len(x2) /\ x5' = Rebasing!Idle /\ History /\ x6' = x6
    BY <1>10 DEF Rebasing!Release, Rebasing!Return, Rebasing!history
  <2>2. CASE x4' = x4 /\ x7' = [status |-> "unknown", conflicts |-> {}]
    BY <1>1, <1>3, <1>4, <2>1, <2>2
  <2>3. CASE x4' = [from |-> "onto", commits |-> x5.rewritten] /\ x7' = [status |-> "rebased", conflicts |-> {}]
    <3>1. Rebasing!Running
      BY <1>2, <2>1
    <3>2. /\ Len(x5.rewritten) = Len(x2) /\ x5.rewritten \in Seq(Rebasing!Version)
          /\ x2 \in Seq(Rebasing!Version) /\ x2 # <<>>
      BY <1>1, <2>1, <3>1 DEF Rebasing!Running, Rebasing!Step
    <3>3. ASSUME NEW s \in LoopSlots, ~ Rebasing!Asked(s)
          PROVE  x5.rewritten[Len(x5.rewritten)][s] = Rebasing!LastWord(s)
      <4>1. Rebasing!ReplayHead = x5.rewritten[Len(x5.rewritten)]
        BY <3>2 DEF Rebasing!ReplayHead
      <4>2. Rebasing!ReplayHead[s] = Rebasing!Word(Len(x2), s)
        BY <3>1, <3>2, <3>3 DEF Rebasing!Running
      <4>3. Rebasing!Word(Len(x2), s) = Rebasing!LastWord(s)
        <5>1. DOMAIN x2 = 1..Len(x2)
          BY <3>2
        <5> QED
          BY <5>1 DEF Rebasing!Word, Rebasing!LastWord
      <4> QED
        BY <4>1, <4>2, <4>3
    <3>4. \A s \in LoopSlots : /\ Rebasing!Asked(s)' <=> Rebasing!Asked(s)
                               /\ Rebasing!LastWord(s)' = Rebasing!LastWord(s)
      BY <2>1 DEF Rebasing!Asked, Rebasing!LastWord, Rebasing!SourceParent
    <3>5. x4'.from = "onto" /\ x4'.commits = x5.rewritten
      BY <2>3
    <3>6. Rebasing!NothingLostInReplay'
      BY <3>3, <3>4, <3>5 DEF Rebasing!NothingLostInReplay
    <3>7. x7'.status = "rebased" /\ x7' = [status |-> x7'.status, conflicts |-> x7'.conflicts]
      BY <2>3
    <3> QED
      BY <1>1, <2>1, <3>2, <3>5, <3>6, <3>7 DEF Rebasing!Sound
  <2> QED
    BY <1>10, <2>2, <2>3 DEF Rebasing!Release, Rebasing!Return, Rebasing!OnOnto
<1>11. ASSUME Rebasing!Resolve PROVE Rebasing!Sound'
  <2> DEFINE ids == Rebasing!Answered(x7.conflicts)
  <2>1. PICK choices \in [ids -> UNION {Rebasing!Choice(id[3]) : id \in ids}] :
            /\ \A id \in ids : choices[id] \in Rebasing!Choice(id[3])
            /\ x6' = [id \in DOMAIN x6 \cup ids |-> IF id \in ids THEN choices[id] ELSE x6[id]]
    BY <1>11 DEF Rebasing!Resolve
  <2>2. /\ ~ x5.running /\ x7.status = "conflicted" /\ History /\ x4' = x4 /\ x5' = x5
        /\ x7' = [x7 EXCEPT !.status = "resolved", !.conflicts = {}]
    BY <1>11 DEF Rebasing!Resolve, Rebasing!history
  <2>3. x7' = [status |-> "resolved", conflicts |-> {}]
    BY <2>2 DEF Rebasing!Sound
  <2>4. Typed'
    <3> HIDE DEF ids
    <3>1. \A id \in DOMAIN x6' : x6'[id] \in Rebasing!Choice(id[3])
      BY <1>1, <2>1
    <3> QED
      BY <1>1, <2>2, <3>1
  <2> QED
    BY <1>2, <1>3, <1>4, <2>2, <2>3, <2>4
<1>12. ASSUME Rebasing!Retry PROVE Rebasing!Sound'
  <2>1. /\ ~ x5.running /\ x7.status = "cancelled" /\ History /\ x4' = x4 /\ x5' = x5 /\ x6' = x6
        /\ x7' = [x7 EXCEPT !.status = "resolved"]
    BY <1>12 DEF Rebasing!Retry, Rebasing!history
  <2>2. x7' = [status |-> "resolved", conflicts |-> x7.conflicts]
    BY <2>1 DEF Rebasing!Sound
  <2> QED
    BY <1>1, <1>2, <1>3, <1>4, <2>1, <2>2
<1>13. CASE UNCHANGED Rebasing!vars
  <2>1. x1' = x1 /\ x2' = x2 /\ x3' = x3 /\ x4' = x4 /\ x5' = x5 /\ x6' = x6 /\ x7' = x7
    BY <1>13 DEF Rebasing!vars
  <2> QED
    BY <2>1 DEF Rebasing!Sound, Rebasing!Running, Rebasing!ReplayHead, Rebasing!NothingLostInReplay,
       Rebasing!Asked, Rebasing!Word, Rebasing!LastWord, Rebasing!SourceParent
<1> QED
  BY <1>5, <1>6, <1>7, <1>8, <1>9, <1>10, <1>11, <1>12, <1>13 DEF Rebasing!Next, Rebasing!Progress

RebaseSound == part = "rebase" => Rebasing!Sound

LEMMA RebaseStep ==
    ASSUME [Next]_vars, part' = "rebase"
    PROVE  part = "rebase" /\ [Rebasing!Next]_(Rebasing!vars)
  BY DEF Next, vars, Rebasing!vars, ReplayStep, rest5, rest6, rest8, rest9

(* A rebase of any number of commits is all or nothing, however often it   *)
(* stops, is cancelled and is called again, and a slot nobody was asked    *)
(* about ends with the last word of the source commits.                    *)
THEOREM RebasesAreAtomic == Spec => []RebaseIsAtomic
<1>1. Init => RebaseSound
  BY RebaseInit DEF Init, RebaseSound
<1>2. RebaseSound /\ [Next]_vars => RebaseSound'
  <2> SUFFICES ASSUME RebaseSound, [Next]_vars, part' = "rebase" PROVE Rebasing!Sound'
    BY DEF RebaseSound
  <2>1. Rebasing!Sound /\ [Rebasing!Next]_(Rebasing!vars)
    BY RebaseStep DEF RebaseSound
  <2> QED
    BY <2>1, RebaseNext
<1>3. RebaseSound => RebaseIsAtomic
  BY DEF RebaseSound, RebaseIsAtomic, Rebasing!Sound, Rebasing!AllOrNothing
<1> QED
  BY <1>1, <1>2, <1>3, PTL DEF Spec

-----------------------------------------------------------------------------
(* Theorems about standard indexes, for all owners, definitions, values    *)
(* and numbers of commits, generations and bindings.                       *)

(* Commits, generations and bindings are those of IndexGenerations, the    *)
(* cursor has given the first keys of its snapshot, and anchors are there  *)
(* where no explicit transaction leaves one behind.                        *)
IndexesSound ==
    /\ part = "generations" => Generations!Exact /\ Generations!Paging /\ Generations!AnchorsExist
    /\ part = "redefined" => Redefined!Exact /\ Redefined!Paging
    /\ part = "scanned" => Scanned!Exact /\ Scanned!Paging

LEMMA GenerationsStep ==
    ASSUME [Next]_vars, part' = "generations"
    PROVE  part = "generations" /\ [Generations!Next]_(Generations!vars)
  BY DEF Next, vars, Generations!vars, ReplayStep, rest5, rest6, rest8, rest9

LEMMA RedefinedStep ==
    ASSUME [Next]_vars, part' = "redefined"
    PROVE  part = "redefined" /\ [Redefined!Next]_(Redefined!vars)
  BY DEF Next, vars, Redefined!vars, ReplayStep, rest5, rest6, rest8, rest9

LEMMA ScannedStep ==
    ASSUME [Next]_vars, part' = "scanned"
    PROVE  part = "scanned" /\ [Scanned!Next]_(Scanned!vars)
  BY DEF Next, vars, Scanned!vars, ReplayStep, rest5, rest6, rest8, rest9

(* A managed index gives exactly the entries of the snapshot that is read, *)
(* through its bindings and through paged scans, whatever is written,      *)
(* rebuilt, replaced, evicted, redefined or collected meanwhile, and no    *)
(* generation outlives its commit.                                         *)
THEOREM IndexesAreExact == Spec => []IndexIsExact
<1>1. Init => IndexesSound
  <2>1. Generations!Init => Generations!AnchorsExist
    BY DEF Generations!Init, Generations!AnchorsExist
  <2> QED
    BY <2>1, Generations!InitExact, Redefined!InitExact, Scanned!InitExact,
       Generations!PagingAtFirst, Redefined!PagingAtFirst, Scanned!PagingAtFirst
    DEF Init, IndexesSound
<1>2. IndexesSound /\ [Next]_vars => IndexesSound'
  <2> SUFFICES ASSUME IndexesSound, [Next]_vars PROVE IndexesSound'
    OBVIOUS
  <2>1. CASE part' = "generations"
    <3>1. part = "generations" /\ [Generations!Next]_(Generations!vars)
      BY <2>1, GenerationsStep
    <3>2. Generations!Exact /\ Generations!Paging /\ Generations!AnchorsExist
      BY <3>1 DEF IndexesSound
    <3>3. Generations!Exact' /\ Generations!Paging' /\ Generations!AnchorsExist'
      BY <3>1, <3>2, IndexAssumption, Generations!ExactStep, Generations!PagingStep, Generations!AnchorsStep
    <3> QED
      BY <2>1, <3>3 DEF IndexesSound
  <2>2. CASE part' = "redefined"
    <3>1. part = "redefined" /\ [Redefined!Next]_(Redefined!vars)
      BY <2>2, RedefinedStep
    <3>2. Redefined!Exact /\ Redefined!Paging
      BY <3>1 DEF IndexesSound
    <3>3. Redefined!Exact' /\ Redefined!Paging'
      BY <3>1, <3>2, IndexAssumption, Redefined!ExactStep, Redefined!PagingStep
    <3> QED
      BY <2>2, <3>3 DEF IndexesSound
  <2>3. CASE part' = "scanned"
    <3>1. part = "scanned" /\ [Scanned!Next]_(Scanned!vars)
      BY <2>3, ScannedStep
    <3>2. Scanned!Exact /\ Scanned!Paging
      BY <3>1 DEF IndexesSound
    <3>3. Scanned!Exact' /\ Scanned!Paging'
      BY <3>1, <3>2, IndexAssumption, Scanned!ExactStep, Scanned!PagingStep
    <3> QED
      BY <2>3, <3>3 DEF IndexesSound
  <2> QED
    BY <2>1, <2>2, <2>3 DEF IndexesSound
<1>3. IndexesSound => IndexIsExact
  <2>1. Generations!Exact => Generations!BindingsAreExact
    BY DEF Generations!Exact, Generations!Bound
  <2>2. Redefined!Exact => Redefined!BindingsAreExact
    BY DEF Redefined!Exact, Redefined!Bound
  <2> QED
    BY <2>1, <2>2, Generations!PagingIsExact, Redefined!PagingIsExact, Scanned!PagingIsExact
    DEF IndexesSound, IndexIsExact, BindingsAreExact, AnchorsExist, IndexScanIsExact
<1> QED
  BY <1>1, <1>2, <1>3, PTL DEF Spec

-----------------------------------------------------------------------------
(* Theorems about full-text search, for all snapshots, analyzers, views    *)
(* and windows, and nests of calls of any depth.                           *)

FullTextSound == part = "fulltext" => FullText!Stacked

LEMMA FullTextStep ==
    ASSUME [Next]_vars, part' = "fulltext"
    PROVE  part = "fulltext" /\ [FullText!Next]_(FullText!vars)
  BY DEF Next, vars, FullText!vars, ReplayStep, rest5, rest6, rest8, rest9

(* A table with its ready mark is whole, an answer is the one of the       *)
(* analyzer its own call named, and no analyzer stays in force after its   *)
(* call, whatever fails and however deeply analyzers search in turn.       *)
THEOREM FullTextIsAlwaysRight == Spec => []FullTextIsRight
<1>1. Init => FullTextSound
  <2>1. TextIndex.configured \in FullText!Analyzers
    BY TextAssumption DEF FullText!Analyzers
  <2> QED
    BY <2>1, FullTextAtFirst DEF Init, FullTextSound
<1>2. FullTextSound /\ [Next]_vars => FullTextSound'
  <2> SUFFICES ASSUME FullTextSound, [Next]_vars, part' = "fulltext" PROVE FullText!Stacked'
    BY DEF FullTextSound
  <2>1. FullText!Stacked /\ [FullText!Next]_(FullText!vars)
    BY FullTextStep DEF FullTextSound
  <2> QED
    BY <2>1, TextAssumption, FullTextKept
<1>3. FullTextSound => FullTextIsRight
  BY FullTextStaysRight DEF FullTextSound, FullTextIsRight, ReadyMeansWhole, FullTextAnswerIsRight, AnalyzersRestored
<1> QED
  BY <1>1, <1>2, <1>3, PTL DEF Spec

-----------------------------------------------------------------------------
(* Theorems about CALL IN TRANSACTIONS, for all inputs, sizes of batches   *)
(* and forms of the clause.                                                *)

BatchesInMode == part = "batched" => Batched!InMode

LEMMA BatchedStep ==
    ASSUME [Next]_vars, part' = "batched"
    PROVE  part = "batched" /\ [Batched!Next]_(Batched!vars)
  BY DEF Next, vars, Batched!vars, ReplayStep, rest5, rest6, rest8, rest9

(* However often a batch is retried and whatever the other connection      *)
(* commits, every row is written by one batch, in order and on the head    *)
(* the batch was given, is reported truly, and every mode of ON ERROR does *)
(* what it says.                                                           *)
THEOREM BatchesAreAlwaysKept == Spec => BatchesAreKept
<1>1. Init => BatchesInMode
  BY BatchAssumption, Batched!InModeAtFirst DEF Init, BatchesInMode
<1>2. BatchesInMode /\ [Next]_vars => BatchesInMode'
  BY BatchAssumption, BatchedStep, Batched!InModeKept DEF BatchesInMode
<1>3. BatchesInMode => WrittenOnceInOrder /\ StatusIsTrue /\ ModeIsKept
  <2>1. Batched!InMode => Batched!InOrder
    BY DEF Batched!InMode
  <2>2. Batched!InOrder => Batched!WrittenOnceInOrder
    BY DEF Batched!InOrder, Batched!Settled
  <2> QED
    BY <2>1, <2>2, BatchAssumption, Batched!InOrderIsTrue, Batched!InModeIsKept
    DEF BatchesInMode, WrittenOnceInOrder, StatusIsTrue, ModeIsKept
<1>4. BatchesInMode /\ [Next]_vars => [part = "batched" => Batched!CommitsOnItsBase]_vars
  <2> SUFFICES ASSUME BatchesInMode, Next, part = "batched" PROVE Batched!CommitsOnItsBase
    BY DEF vars
  <2>1. Batched!InOrder /\ Batched!Next
    BY DEF Next, ReplayStep, BatchesInMode, Batched!InMode
  <2> QED
    BY <2>1, Batched!CommitsOnBase
<1> QED
  BY <1>1, <1>2, <1>3, <1>4, PTL DEF Spec, BatchesAreKept, BatchesSeeTheHead

-----------------------------------------------------------------------------
(* Theorems about lithograph_init, for any number of connections and calls *)
(* over every file of Files.                                               *)

OpeningSound == part = "opening" => Opening!Opened

LEMMA OpeningNextStep ==
    ASSUME [Next]_vars, part' = "opening" \/ part = "opening"
    PROVE  part = "opening" /\ [Opening!Next]_(Opening!vars)
  BY DEF Next, vars, Opening!vars, ReplayStep, rest5, rest6, rest8, rest9

(* Whatever step of lithograph_init fails, is interrupted or crashes, in   *)
(* however many racing connections, the committed file is the one that was *)
(* found or one that the whole integrity check accepts; a file it must     *)
(* refuse is never touched; and what a call answered stays true.           *)
THEOREM OpeningIsAlwaysSafe == Spec => []OpeningIsSafe
<1>1. Init => OpeningSound
  BY OpeningAtFirst DEF Init, OpeningSound
<1>2. OpeningSound /\ [Next]_vars => OpeningSound'
  BY OpeningNextStep, OpeningKept DEF OpeningSound
<1>3. OpeningSound => OpeningIsSafe
  BY OpeningStaysSafe DEF OpeningSound, OpeningIsSafe, AllOrNothing, RefusedUntouched, AnswersLast
<1> QED
  BY <1>1, <1>2, <1>3, PTL DEF Spec

(* The id of a database and its commits outlive every migration, and no    *)
(* step lowers its format.                                                 *)
THEOREM IdentitiesAreKept == Spec => IdentityKept
<1>1. Init => OpeningSound
  BY OpeningAtFirst DEF Init, OpeningSound
<1>2. OpeningSound /\ [Next]_vars => OpeningSound'
  BY OpeningNextStep, OpeningKept DEF OpeningSound
<1>3. OpeningSound /\ [Next]_vars => [part = "opening" => Opening!KeepsIdentity]_vars
  BY OpeningNextStep, OpeningKeepsIdentity DEF OpeningSound
<1> QED
  BY <1>1, <1>2, <1>3, PTL DEF Spec, IdentityKept

=============================================================================
