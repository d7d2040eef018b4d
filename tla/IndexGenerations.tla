-------------------------- MODULE IndexGenerations --------------------------
(***************************************************************************)
(* A standard index: generations in main that hold the entries of one      *)
(* commit, the TEMP binding through which a connection reads a snapshot (a *)
(* generation of an ancestor and the owners changed since, or a local      *)
(* build), paged scans over it, and the maintenance that builds, replaces, *)
(* evicts and collects generations in between.                             *)
(***************************************************************************)
EXTENDS Integers, Sequences, FiniteSets, FiniteSetsExt, FiniteSetTheorems, WellFoundedInduction, TLAPS

CONSTANTS
    Owners,        \* the nodes, ordered by identity
    Definitions,   \* what an index of the one name may be defined on
    Values,        \* the indexed values; 0 is an absent property
    MaxCommits,    \* bound on the commits
    MaxGenerations,\* bound on the generations ever built
    MaxBindings,   \* bound on the snapshots a connection has bound
    LocalWrites,   \* the values a reading query may have written itself
    SchemaInTx     \* whether indexes are created in explicit transactions

None == 0
Slots == Owners \X Definitions
NoWrite == [s \in {} |-> None]

VARIABLES
    commits,      \* id -> [parent, props, touched, def]
    head,         \* the branch
    generations,  \* id -> [anchor, def, entries]
    nextCommit,
    nextGen,      \* AUTOINCREMENT
    bindings,     \* TEMP: snapshot -> [gen, anchor, changed, local]
    scan          \* the cursor

vars == <<commits, head, generations, nextCommit, nextGen, bindings, scan>>

(* A snapshot is a commit and what a query has written on top of it.       *)
Props(snapshot) ==
    [s \in Slots |-> IF s \in DOMAIN snapshot.local THEN snapshot.local[s]
                     ELSE commits[snapshot.commit].props[s]]

NoScan == [snapshot |-> [commit |-> None, local |-> NoWrite], order |-> "any", gen |-> None,
           after |-> 0, found |-> <<>>, status |-> "idle"]

Init ==
    /\ \E props \in [Slots -> Values \cup {None}] :
           commits = [c \in {1} |-> [parent |-> 0, props |-> props, touched |-> {}, def |-> "none"]]
    /\ head = 1 /\ nextCommit = 2 /\ nextGen = 1
    /\ generations = [g \in {} |-> {}]
    /\ bindings = [k \in {} |-> {}]
    /\ scan = NoScan

With(f, k, v) == [x \in DOMAIN f \cup {k} |-> IF x = k THEN v ELSE f[x]]
Without(f, S) == [x \in DOMAIN f \ S |-> f[x]]

-----------------------------------------------------------------------------
(* Sets of commits that the walk from a commit to its parent stays in.     *)
Closed == {S \in SUBSET DOMAIN commits : \A x \in S : commits[x].parent \in S \cup {None}}

(* The parent chain of a commit, itself included.                          *)
Chain(c) == {x \in DOMAIN commits : \A S \in Closed : c \in S => x \in S}

(* load_touched: the slots the layers between two commits touch.           *)
TouchedBetween(anchor, c) == UNION {commits[d].touched : d \in Chain(c) \ Chain(anchor)}

(* The indexed owners and their values: build_nodes and insert_owner.      *)
Entries(props, def) == [o \in {p \in Owners : props[<<p, def>>] # None} |-> props[<<o, def>>]]

(* relevant_changed_owners: changes of the commits and of the query.       *)
Changed(snapshot, anchor, def) ==
    {s[1] : s \in {t \in TouchedBetween(anchor, snapshot.commit) \cup DOMAIN snapshot.local : t[2] = def}}

(* materialize_changed_owner_values                                        *)
LocalValues(snapshot, changed, def) ==
    LET all == Entries(Props(snapshot), def) IN [o \in DOMAIN all \cap changed |-> all[o]]

DefOf(snapshot) == commits[snapshot.commit].def

(* cached_index_binding_valid: the bound generation is still the same.     *)
Valid(snapshot) ==
    /\ snapshot \in DOMAIN bindings
    /\ LET b == bindings[snapshot] IN
       b.gen = None \/ (/\ b.gen \in DOMAIN generations
                        /\ generations[b.gen].anchor = b.anchor
                        /\ generations[b.gen].def = DefOf(snapshot))

(* compatible_persistent_generation: the nearest ancestor that has one.    *)
Compatible(snapshot) ==
    {g \in DOMAIN generations :
        /\ generations[g].def = DefOf(snapshot)
        /\ generations[g].anchor \in Chain(snapshot.commit)
        /\ \A h \in DOMAIN generations :
               generations[h].def = DefOf(snapshot) /\ generations[h].anchor \in Chain(snapshot.commit)
                   => generations[h].anchor <= generations[g].anchor}

(* prepare_persistent_generation_overlay                                   *)
Bind(snapshot, g) ==
    LET anchor  == generations[g].anchor
        changed == Changed(snapshot, anchor, DefOf(snapshot))
    IN  [gen |-> g, anchor |-> anchor, changed |-> changed,
         local |-> LocalValues(snapshot, changed, DefOf(snapshot))]

(* rebuild_local                                                           *)
LocalBuild(snapshot) ==
    [gen |-> None, anchor |-> None, changed |-> {}, local |-> Entries(Props(snapshot), DefOf(snapshot))]

(* ensure_index_cache                                                      *)
Ensured(snapshot) ==
    IF Valid(snapshot) THEN bindings[snapshot]
    ELSE IF Compatible(snapshot) # {} THEN Bind(snapshot, CHOOSE g \in Compatible(snapshot) : TRUE)
    ELSE LocalBuild(snapshot)

(* The view over the generation's entries and the local ones.              *)
Effective(b) ==
    LET kept == IF b.gen = None THEN {} ELSE DOMAIN generations[b.gen].entries \ b.changed
    IN  [o \in kept \cup DOMAIN b.local |->
            IF o \in DOMAIN b.local THEN b.local[o] ELSE generations[b.gen].entries[o]]

-----------------------------------------------------------------------------
(* Writers                                                                 *)

NewCommit(parent, props, touched, def) ==
    /\ nextCommit <= MaxCommits
    /\ commits' = With(commits, nextCommit, [parent |-> parent, props |-> props, touched |-> touched, def |-> def])
    /\ head' = nextCommit /\ nextCommit' = nextCommit + 1

(* A write touches a slot, perhaps without changing it.                    *)
Write(slot, value) ==
    /\ NewCommit(head, [commits[head].props EXCEPT ![slot] = value], {slot}, commits[head].def)
    /\ UNCHANGED <<generations, nextGen, bindings, scan>>

(* create_generation_manifest deletes what the same anchor had.            *)
Replaced(commit, def) ==
    {g \in DOMAIN generations : generations[g].anchor = commit /\ generations[g].def = def}

(* evict_old_generations keeps the current one and the latest other.       *)
Evicted(gens, def, current) ==
    LET same == {g \in DOMAIN gens : gens[g].def = def} \ {current} IN
    IF same = {} THEN {} ELSE same \ {Max(same)}

(* create_generation_manifest, copy_local_generation_pages,                *)
(* publish_generation and evict_old_generations, in one transaction.       *)
Publish(commit, props, def) ==
    LET gens == With(Without(generations, Replaced(commit, def)), nextGen,
                     [anchor |-> commit, def |-> def, entries |-> Entries(props, def)])
    IN  /\ nextGen <= MaxGenerations
        /\ nextGen' = nextGen + 1
        /\ generations' = Without(gens, Evicted(gens, def, nextGen))

(* The binding of the connection that publishes moves to the generation.   *)
Rebind(commit) ==
    bindings' = With(bindings, [commit |-> commit, local |-> NoWrite],
                     [gen |-> nextGen, anchor |-> commit, changed |-> {}, local |-> [o \in {} |-> None]])

(* execute_schema: a schema commit, and the index built at it.             *)
CreateIndex(def) ==
    /\ commits[head].def # def
    /\ NewCommit(head, commits[head].props, {}, def)
    /\ Publish(nextCommit, commits[head].props, def) /\ Rebind(nextCommit)
    /\ UNCHANGED scan

DropIndex ==
    /\ commits[head].def # "none"
    /\ NewCommit(head, commits[head].props, {}, "none")
    /\ UNCHANGED <<generations, nextGen, bindings, scan>>

(* The same in an explicit transaction: the index is built at the staged   *)
(* commit, whose chain is discarded for the one commit of the transaction. *)
CreateIndexInTx(def) ==
    /\ SchemaInTx /\ commits[head].def # def
    /\ nextCommit < MaxCommits
    /\ Publish(nextCommit, commits[head].props, def) /\ Rebind(nextCommit)
    /\ commits' = With(commits, nextCommit + 1,
                       [parent |-> head, props |-> commits[head].props, touched |-> {}, def |-> def])
    /\ head' = nextCommit + 1 /\ nextCommit' = nextCommit + 2
    /\ UNCHANGED scan

(* lithograph.index.rebuild at any commit of the branch.                   *)
Rebuild(c) ==
    /\ c \in Chain(head) /\ commits[c].def # "none"
    /\ Publish(c, commits[c].props, commits[c].def) /\ Rebind(c)
    /\ UNCHANGED <<commits, head, nextCommit, scan>>

(* The same from another connection, whose TEMP tables are its own; a read *)
(* guard hides it from an open cursor.                                     *)
RebuildElsewhere(c) ==
    /\ scan.status = "idle" /\ c \in Chain(head) /\ commits[c].def # "none"
    /\ Publish(c, commits[c].props, commits[c].def)
    /\ UNCHANGED <<commits, head, nextCommit, bindings, scan>>

Reset(c) ==
    /\ c \in Chain(head) \ {head}
    /\ head' = c
    /\ UNCHANGED <<commits, generations, nextCommit, nextGen, bindings, scan>>

(* Mutant: garbage collection forgets the generations.                     *)
DeadGenerationsNone(dead) == {}

(* delete_commit_index_generations                                         *)
DeadGenerations(dead) == {g \in DOMAIN generations : generations[g].anchor \in dead}

CollectGarbage ==
    /\ scan.status = "idle"
    /\ LET dead == DOMAIN commits \ Chain(head)
       IN  /\ dead # {}
           /\ commits' = Without(commits, dead)
           /\ generations' = Without(generations, DeadGenerations(dead))
    /\ UNCHANGED <<head, nextCommit, nextGen, bindings, scan>>

-----------------------------------------------------------------------------
(* The reader                                                              *)

Snapshots ==
    [commit : Chain(head), local : {NoWrite} \cup UNION {[{t} -> LocalWrites] : t \in Slots}]

StartScan(snapshot) ==
    /\ scan.status = "idle" /\ DefOf(snapshot) # "none"
    /\ snapshot \in DOMAIN bindings \/ Cardinality(DOMAIN bindings) < MaxBindings
    /\ scan' = [NoScan EXCEPT !.snapshot = snapshot, !.status = "open"]
    /\ UNCHANGED <<commits, head, generations, nextCommit, nextGen, bindings>>

(* A generation is read in the order of the values, a local build in the   *)
(* order of the owners.                                                    *)
Key(numeric, entries, o) == IF numeric THEN entries[o] * (Max(Owners) + 1) + o ELSE o

(* numeric_range_cursor and owner_cursor_after: a cursor belongs to the    *)
(* generation, or to the kind of scan, that made it.                       *)
Continues(b) ==
    CASE scan.order = "any"     -> TRUE
      [] scan.order = "numeric" -> b.gen = scan.gen
      [] scan.order = "owner"   -> b.gen = None

(* One page of one row.                                                    *)
Advance(numeric, gen, entries, rest) ==
    LET first == CHOOSE o \in rest : \A p \in rest : Key(numeric, entries, o) <= Key(numeric, entries, p)
    IN  [snapshot |-> scan.snapshot, order |-> IF numeric THEN "numeric" ELSE "owner", gen |-> gen,
         after |-> Key(numeric, entries, first), found |-> Append(scan.found, first), status |-> "open"]

Deliver(numeric, gen, entries) ==
    LET rest == {o \in DOMAIN entries : Key(numeric, entries, o) > scan.after}
    IN  IF rest = {} THEN [scan EXCEPT !.status = "done"] ELSE Advance(numeric, gen, entries, rest)

NextPage ==
    /\ scan.status = "open"
    /\ \E b \in {Ensured(scan.snapshot)} :
           /\ bindings' = With(bindings, scan.snapshot, b)
           /\ scan' = IF ~ Continues(b) THEN [scan EXCEPT !.status = "failed"]
                      ELSE Deliver(b.gen # None, b.gen, Effective(b))
    /\ UNCHANGED <<commits, head, generations, nextCommit, nextGen>>

CloseScan ==
    /\ scan.status # "idle"
    /\ scan' = NoScan
    /\ UNCHANGED <<commits, head, generations, nextCommit, nextGen, bindings>>

(* TEMP tables go with the connection.                                     *)
Reconnect ==
    /\ scan.status = "idle" /\ bindings # [k \in {} |-> {}]
    /\ bindings' = [k \in {} |-> {}]
    /\ UNCHANGED <<commits, head, generations, nextCommit, nextGen, scan>>

Next ==
    \/ \E slot \in Slots, v \in Values \cup {None} : Write(slot, v)
    \/ \E def \in Definitions : CreateIndex(def)
    \/ \E def \in Definitions : CreateIndexInTx(def)
    \/ DropIndex \/ CollectGarbage \/ NextPage \/ CloseScan \/ Reconnect
    \/ \E c \in DOMAIN commits : Rebuild(c)
    \/ \E c \in DOMAIN commits : RebuildElsewhere(c)
    \/ \E c \in DOMAIN commits : Reset(c)
    \/ \E snapshot \in Snapshots : StartScan(snapshot)

Spec == Init /\ [][Next]_vars

-----------------------------------------------------------------------------
(* Properties                                                              *)

(* A binding that the connection would use gives exactly the snapshot's    *)
(* values, however the generation it is bound to came about.               *)
BindingsAreExact ==
    \A k \in DOMAIN bindings :
        k.commit \in DOMAIN commits /\ DefOf(k) # "none" /\ Valid(k)
            => Effective(bindings[k]) = Entries(Props(k), DefOf(k))

(* A paged scan that ends without an error has given every indexed owner   *)
(* of its snapshot once, although generations were built, replaced and     *)
(* evicted between its pages.                                              *)
ScanIsExact ==
    scan.status # "idle" =>
        LET found == {scan.found[i] : i \in DOMAIN scan.found} IN
        /\ Cardinality(found) = Len(scan.found)
        /\ scan.status = "done" => found = DOMAIN Entries(Props(scan.snapshot), DefOf(scan.snapshot))

(* Generations are derived data: each is anchored at a commit that exists. *)
AnchorsExist == \A g \in DOMAIN generations : generations[g].anchor \in DOMAIN commits

-----------------------------------------------------------------------------
(* Theorems                                                                *)

(* Commits are numbered after their parents and differ from them in the    *)
(* slots their layers touch; numbers are not used again.                   *)
Linked ==
    /\ nextCommit \in Nat \ {0} /\ head \in DOMAIN commits
    /\ DOMAIN commits \subseteq 1..nextCommit - 1
    /\ \A c \in DOMAIN commits :
           /\ commits[c].parent \in DOMAIN commits \cup {None} /\ commits[c].parent < c
           /\ commits[c].props \in [Slots -> Values \cup {None}]
           /\ commits[c].def \in Definitions \cup {"none"}
           /\ commits[c].parent # None =>
                  \A s \in Slots \ commits[c].touched :
                      commits[c].props[s] = commits[commits[c].parent].props[s]

(* A generation whose anchor is there has the anchor's entries.            *)
Anchored ==
    /\ nextGen \in Nat \ {0} /\ DOMAIN generations \subseteq 1..nextGen - 1
    /\ \A g \in DOMAIN generations :
           /\ generations[g].anchor \in 1..nextCommit - 1
           /\ generations[g].anchor \in DOMAIN commits =>
                  generations[g].entries = Entries(commits[generations[g].anchor].props, generations[g].def)

(* Bindings are exact and name commits and generations that have existed.  *)
Bound ==
    /\ \A k \in DOMAIN bindings :
           k.commit \in 1..nextCommit - 1 /\ bindings[k].gen \in 0..nextGen - 1
    /\ BindingsAreExact

(* The commit a cursor reads is kept.                                      *)
Scanning ==
    /\ scan = [snapshot |-> scan.snapshot, order |-> scan.order, gen |-> scan.gen,
               after |-> scan.after, found |-> scan.found, status |-> scan.status]
    /\ scan.status # "idle" => scan.snapshot.commit \in DOMAIN commits /\ DefOf(scan.snapshot) # "none"

Exact == Linked /\ Anchored /\ Bound /\ Scanning

(* The chain of a commit has the commit, stays in its parents, is in every *)
(* set that does both, and has no later commit.                            *)
LEMMA ChainOf ==
    ASSUME Linked, NEW c \in DOMAIN commits
    PROVE  /\ c \in Chain(c) /\ Chain(c) \subseteq DOMAIN commits
           /\ \A x \in Chain(c) : commits[x].parent \in Chain(c) \cup {None}
           /\ \A S \in SUBSET DOMAIN commits :
                  c \in S /\ (\A x \in S : commits[x].parent \in S \cup {None}) => Chain(c) \subseteq S
           /\ \A x \in Chain(c) : x <= c
<1>1. c \in Chain(c) /\ Chain(c) \subseteq DOMAIN commits
  BY DEF Chain
<1>2. ASSUME NEW x \in Chain(c), commits[x].parent # None
      PROVE  commits[x].parent \in Chain(c)
  <2>1. commits[x].parent \in DOMAIN commits
    BY <1>1, <1>2 DEF Linked
  <2>2. ASSUME NEW S \in Closed, c \in S
        PROVE  commits[x].parent \in S
    BY <1>2, <2>2 DEF Chain, Closed
  <2> QED
    BY <2>1, <2>2 DEF Chain
<1>3. ASSUME NEW S \in SUBSET DOMAIN commits, c \in S, \A x \in S : commits[x].parent \in S \cup {None}
      PROVE  Chain(c) \subseteq S
  <2>1. S \in Closed
    BY <1>3 DEF Closed
  <2> QED
    BY <2>1, <1>3 DEF Chain
<1>4. ASSUME NEW x \in Chain(c)
      PROVE  x <= c
  <2> DEFINE S == {y \in DOMAIN commits : y <= c}
  <2>1. c \in S
    BY DEF Linked
  <2>2. ASSUME NEW y \in S
        PROVE  commits[y].parent \in S \cup {None}
    <3>1. /\ commits[y].parent \in DOMAIN commits \cup {None} /\ commits[y].parent < y
          /\ y \in Int /\ c \in Int
      BY DEF Linked
    <3>2. commits[y].parent \in Int
      BY <3>1 DEF Linked, None
    <3> QED
      BY <3>1, <3>2
  <2>3. S \in SUBSET DOMAIN commits
    OBVIOUS
  <2> HIDE DEF S
  <2>4. Chain(c) \subseteq S
    BY <1>3, <2>1, <2>2, <2>3
  <2> QED
    BY <2>4 DEF S
<1> QED
  BY <1>1, <1>2, <1>3, <1>4

(* load_touched misses nothing: two commits of a chain agree on a slot no  *)
(* layer between them touches.                                             *)
LEMMA UntouchedAgree ==
    ASSUME Linked, NEW c \in DOMAIN commits, NEW a \in Chain(c),
           NEW s \in Slots, s \notin TouchedBetween(a, c)
    PROVE  commits[c].props[s] = commits[a].props[s]
<1> DEFINE S == {x \in Chain(c) : a \in Chain(x) => commits[x].props[s] = commits[c].props[s]}
<1>1. S \in SUBSET DOMAIN commits /\ c \in S /\ a \in DOMAIN commits
  BY ChainOf
<1>2. ASSUME NEW x \in S, commits[x].parent # None
      PROVE  commits[x].parent \in S
  <2> DEFINE p == commits[x].parent
  <2>1. x \in Chain(c) /\ x \in DOMAIN commits
    BY <1>1
  <2>2. p \in Chain(c) /\ p \in DOMAIN commits /\ p < x
    BY <2>1, <1>2, ChainOf DEF Linked
  <2>3. ASSUME a \in Chain(p)
        PROVE  commits[p].props[s] = commits[c].props[s]
    <3>1. p \in Chain(x)
      BY <2>1, <1>2, ChainOf
    <3>2. a <= p /\ a \in Int /\ p \in Int /\ x \in Int
      BY <2>1, <2>2, <2>3, <1>1, ChainOf DEF Linked
    <3>3. x \notin Chain(a)
      BY <3>2, <2>2, <1>1, ChainOf
    <3>4. a \in Chain(x)
      BY <2>1, <2>2, <2>3, <3>1 DEF Chain, Closed
    <3>5. commits[x].props[s] = commits[c].props[s]
      BY <3>4
    <3>6. s \notin commits[x].touched
      BY <3>3, <2>1 DEF TouchedBetween
    <3> QED
      BY <3>5, <3>6, <2>1, <1>2 DEF Linked
  <2> QED
    BY <2>2, <2>3
<1>3. Chain(c) \subseteq S
  BY <1>1, <1>2, ChainOf
<1>4. a \in Chain(a)
  BY <1>1, ChainOf
<1> QED
  BY <1>3, <1>4

(* A fresh binding to a generation of an ancestor gives the snapshot.      *)
LEMMA BindIsExact ==
    ASSUME Linked, Anchored, NEW k, k.commit \in DOMAIN commits, DefOf(k) # "none",
           NEW g \in Compatible(k)
    PROVE  Effective(Bind(k, g)) = Entries(Props(k), DefOf(k))
<1> DEFINE d == DefOf(k)
           a == generations[g].anchor
           changed == Changed(k, a, d)
           all == Entries(Props(k), d)
           old == Entries(commits[a].props, d)
           b == Bind(k, g)
<1>1. /\ g \in DOMAIN generations /\ generations[g].def = d /\ a \in Chain(k.commit)
      /\ g # None /\ a \in DOMAIN commits /\ d \in Definitions
  BY ChainOf DEF Compatible, Anchored, None, Linked, DefOf
<1>2. generations[g].entries = old
  BY <1>1 DEF Anchored
<1>3. /\ b.gen = g /\ b.changed = changed
      /\ b.local = [o \in DOMAIN all \cap changed |-> all[o]]
  BY DEF Bind, LocalValues
<1>4. ASSUME NEW o \in Owners, o \notin changed
      PROVE  <<o, d>> \in Slots /\ Props(k)[<<o, d>>] = commits[a].props[<<o, d>>]
  <2>1. <<o, d>> \in Slots
    BY <1>1 DEF Slots
  <2>2. <<o, d>> \notin TouchedBetween(a, k.commit) /\ <<o, d>> \notin DOMAIN k.local
    BY <1>4 DEF Changed
  <2>3. Props(k)[<<o, d>>] = commits[k.commit].props[<<o, d>>]
    BY <2>1, <2>2 DEF Props
  <2> QED
    BY <2>1, <2>2, <2>3, <1>1, UntouchedAgree
<1>5. /\ DOMAIN all = {p \in Owners : Props(k)[<<p, d>>] # None}
      /\ DOMAIN old = {p \in Owners : commits[a].props[<<p, d>>] # None}
      /\ \A o \in DOMAIN all : all[o] = Props(k)[<<o, d>>]
      /\ \A o \in DOMAIN old : old[o] = commits[a].props[<<o, d>>]
  BY DEF Entries
<1> HIDE DEF changed, all, old, d, a
<1>6. DOMAIN all = (DOMAIN old \ changed) \cup (DOMAIN all \cap changed)
  BY <1>4, <1>5
<1>7. \A o \in DOMAIN old \ changed : o \in DOMAIN all /\ all[o] = old[o]
  BY <1>4, <1>5
<1>8. Effective(b) = [o \in DOMAIN all |-> all[o]]
  BY <1>1, <1>2, <1>3, <1>6, <1>7 DEF Effective
<1>9. all = [o \in DOMAIN all |-> all[o]]
  BY DEF all, Entries
<1> QED
  BY <1>8, <1>9 DEF all, d, b

(* What ensure_index_cache gives is exact.                                 *)
LEMMA EnsuredIsExact ==
    ASSUME Linked, Anchored, Bound, NEW k, k.commit \in DOMAIN commits, DefOf(k) # "none"
    PROVE  /\ Ensured(k).gen \in 0..nextGen - 1
           /\ Effective(Ensured(k)) = Entries(Props(k), DefOf(k))
<1>1. CASE Valid(k)
  BY <1>1 DEF Ensured, Bound, BindingsAreExact, Valid
<1>2. CASE ~ Valid(k) /\ Compatible(k) # {}
  <2>1. PICK g \in Compatible(k) : Ensured(k) = Bind(k, g)
    BY <1>2 DEF Ensured
  <2>2. Bind(k, g).gen = g /\ g \in DOMAIN generations
    BY DEF Bind, Compatible
  <2>3. g \in 0..nextGen - 1
    BY <2>2 DEF Anchored
  <2> QED
    BY <2>1, <2>2, <2>3, BindIsExact
<1>3. CASE ~ Valid(k) /\ Compatible(k) = {}
  <2>1. Ensured(k) = LocalBuild(k)
    BY <1>3 DEF Ensured
  <2>2. /\ LocalBuild(k).gen = None
        /\ LocalBuild(k).local = Entries(Props(k), DefOf(k))
    BY DEF LocalBuild
  <2>3. Effective(LocalBuild(k)) = [o \in DOMAIN Entries(Props(k), DefOf(k)) |-> Entries(Props(k), DefOf(k))[o]]
    BY <2>2 DEF Effective
  <2>4. @ = Entries(Props(k), DefOf(k))
    BY DEF Entries
  <2>5. None \in 0..nextGen - 1
    BY DEF None, Anchored
  <2> QED
    BY <2>1, <2>2, <2>3, <2>4, <2>5
<1> QED
  BY <1>1, <1>2, <1>3

(* What every step keeps: numbers go up, and what has one stays the same   *)
(* or goes.                                                                *)
Later ==
    /\ nextCommit' \in Nat /\ nextCommit <= nextCommit' /\ nextGen' \in Nat /\ nextGen <= nextGen'
    /\ \A c \in DOMAIN commits' :
           c < nextCommit => c \in DOMAIN commits /\ commits'[c] = commits[c]
    /\ \A g \in DOMAIN generations' :
           g < nextGen => g \in DOMAIN generations /\ generations'[g] = generations[g]

(* A binding that was exact stays exact, or is no longer valid.            *)
LEMMA BindingStays ==
    ASSUME Linked, Anchored, Bound, Later, NEW k \in DOMAIN bindings,
           bindings'[k] = bindings[k], k.commit \in DOMAIN commits', DefOf(k)' # "none", Valid(k)'
    PROVE  (Effective(bindings[k]) = Entries(Props(k), DefOf(k)))'
<1> DEFINE b == bindings[k]
<1>1. k.commit \in 1..nextCommit - 1 /\ b.gen \in 0..nextGen - 1
  BY DEF Bound
<1>2. k.commit \in DOMAIN commits /\ commits'[k.commit] = commits[k.commit]
  BY <1>1 DEF Later, Linked
<1>3. DefOf(k)' = DefOf(k) /\ Props(k)' = Props(k)
  BY <1>2 DEF DefOf, Props
<1>4. b.gen = None \/ (b.gen \in DOMAIN generations /\ generations'[b.gen] = generations[b.gen]
                       /\ b.gen \in DOMAIN generations')
  BY <1>1 DEF Valid, Later, Anchored
<1>5. Valid(k)
  BY <1>3, <1>4 DEF Valid
<1>6. Effective(b) = Entries(Props(k), DefOf(k))
  BY <1>2, <1>3, <1>5 DEF Bound, BindingsAreExact
<1>7. Effective(bindings[k])' = Effective(b)
  BY <1>4 DEF Effective
<1> QED
  BY <1>3, <1>6, <1>7

LEMMA BoundStays ==
    ASSUME Linked, Anchored, Bound, Later,
           \A k \in DOMAIN bindings' :
               \/ k \in DOMAIN bindings /\ bindings'[k] = bindings[k]
               \/ /\ k.commit \in 1..nextCommit' - 1 /\ bindings'[k].gen \in 0..nextGen' - 1
                  /\ k.commit \in DOMAIN commits' /\ DefOf(k)' # "none" /\ Valid(k)' =>
                         (Effective(bindings[k]) = Entries(Props(k), DefOf(k)))'
    PROVE  Bound'
<1>1. ASSUME NEW k \in DOMAIN bindings'
      PROVE  k.commit \in 1..nextCommit' - 1 /\ bindings'[k].gen \in 0..nextGen' - 1
  <2>1. CASE k \in DOMAIN bindings /\ bindings'[k] = bindings[k]
    <3>1. k.commit \in 1..nextCommit - 1 /\ bindings[k].gen \in 0..nextGen - 1
      BY <2>1 DEF Bound
    <3> QED
      BY <2>1, <3>1 DEF Later, Linked, Anchored
  <2> QED
    BY <2>1, <1>1
<1>2. ASSUME NEW k \in DOMAIN bindings', k.commit \in DOMAIN commits', DefOf(k)' # "none", Valid(k)'
      PROVE  (Effective(bindings[k]) = Entries(Props(k), DefOf(k)))'
  BY <1>2, BindingStays
<1> QED
  BY <1>1, <1>2 DEF Bound, BindingsAreExact

(* A commit on the head, with the head's properties off the touched slots. *)
OnHead(c, props, touched, def) ==
    /\ c \in {nextCommit, nextCommit + 1} /\ head' = c /\ nextCommit' = c + 1
    /\ props \in [Slots -> Values \cup {None}] /\ def \in Definitions \cup {"none"}
    /\ \A s \in Slots \ touched : props[s] = commits[head].props[s]
    /\ commits' = With(commits, c, [parent |-> head, props |-> props, touched |-> touched, def |-> def])

LEMMA NewCommitLinked ==
    ASSUME Linked, NEW c, NEW props, NEW touched, NEW def, OnHead(c, props, touched, def)
    PROVE  /\ Linked' /\ nextCommit' \in Nat /\ nextCommit <= nextCommit'
           /\ DOMAIN commits' = DOMAIN commits \cup {c} /\ c \notin DOMAIN commits
           /\ commits'[c].props = props /\ commits'[c].def = def
           /\ \A x \in DOMAIN commits : x \in DOMAIN commits' /\ commits'[x] = commits[x]
           /\ \A x \in DOMAIN commits' : x < nextCommit => x \in DOMAIN commits /\ commits'[x] = commits[x]
<1> USE DEF OnHead
<1>1. c \notin DOMAIN commits /\ c \in Nat \ {0} /\ nextCommit' \in Nat \ {0} /\ nextCommit <= c
  BY DEF Linked
<1>2. DOMAIN commits' = DOMAIN commits \cup {c} /\ head' \in DOMAIN commits'
  BY DEF With
<1>3. commits'[c] = [parent |-> head, props |-> props, touched |-> touched, def |-> def]
  BY <1>2 DEF With
<1>4. \A x \in DOMAIN commits : x < nextCommit /\ commits'[x] = commits[x]
  BY <1>1 DEF With, Linked
<1>5. DOMAIN commits' \subseteq 1..nextCommit' - 1
  BY <1>1, <1>2 DEF Linked
<1>6. head # None /\ head < c /\ head \in DOMAIN commits
  BY <1>1 DEF Linked, None
<1>7. ASSUME NEW x \in DOMAIN commits'
      PROVE  /\ commits'[x].parent \in DOMAIN commits' \cup {None} /\ commits'[x].parent < x
             /\ commits'[x].props \in [Slots -> Values \cup {None}]
             /\ commits'[x].def \in Definitions \cup {"none"}
             /\ commits'[x].parent # None =>
                    \A s \in Slots \ commits'[x].touched :
                        commits'[x].props[s] = commits'[commits'[x].parent].props[s]
  <2>1. CASE x = c
    BY <2>1, <1>2, <1>3, <1>4, <1>6
  <2>2. CASE x \in DOMAIN commits
    BY <2>2, <1>2, <1>4 DEF Linked
  <2> QED
    BY <2>1, <2>2, <1>2
<1>8. Linked'
  BY <1>1, <1>2, <1>5, <1>7 DEF Linked
<1>9. \A x \in DOMAIN commits' : x < nextCommit => x \in DOMAIN commits /\ commits'[x] = commits[x]
  <2>1. ~ (c < nextCommit)
    BY <1>1 DEF Linked
  <2> QED
    BY <2>1, <1>2, <1>4
<1> HIDE DEF OnHead
<1> QED
  BY <1>1, <1>2, <1>3, <1>4, <1>8, <1>9 DEF Linked

(* A generation is published for a commit that had a number.               *)
Publishes(c, props, def) ==
    /\ Publish(c, props, def) /\ c \in 1..nextCommit' - 1
    /\ nextCommit' \in Nat /\ nextCommit <= nextCommit'
    /\ c \in DOMAIN commits' => props = commits'[c].props /\ def = commits'[c].def /\ def \in Definitions
    /\ \A x \in DOMAIN commits' : x < nextCommit => x \in DOMAIN commits /\ commits'[x] = commits[x]

(* It is the commit's.                                                     *)
LEMMA PublishAnchored ==
    ASSUME Anchored, Linked, NEW c, NEW props, NEW def, Publishes(c, props, def)
    PROVE  /\ Anchored' /\ Later
           /\ nextGen \in DOMAIN generations' =>
                  generations'[nextGen] = [anchor |-> c, def |-> def, entries |-> Entries(props, def)]
<1> USE DEF Publishes
<1> DEFINE new == [anchor |-> c, def |-> def, entries |-> Entries(props, def)]
           gens == With(Without(generations, Replaced(c, def)), nextGen, new)
<1>1. nextGen \notin DOMAIN generations /\ nextGen \in Nat \ {0} /\ nextGen' = nextGen + 1
  BY DEF Anchored, Publish
<1>2. /\ DOMAIN gens \subseteq DOMAIN generations \cup {nextGen} /\ gens[nextGen] = new
      /\ \A g \in DOMAIN gens : g # nextGen => g \in DOMAIN generations /\ gens[g] = generations[g]
  <2> DEFINE left == Without(generations, Replaced(c, def))
  <2>1. DOMAIN left \subseteq DOMAIN generations /\ \A g \in DOMAIN left : left[g] = generations[g]
    BY DEF Without
  <2>2. gens = With(left, nextGen, new)
    OBVIOUS
  <2> HIDE DEF left, gens, new
  <2> QED
    BY <2>1, <2>2 DEF With
<1> HIDE DEF gens
<1>3. generations' = Without(gens, Evicted(gens, def, nextGen))
  BY DEF Publish, gens
<1>4. DOMAIN generations' \subseteq DOMAIN gens /\ \A g \in DOMAIN generations' : generations'[g] = gens[g]
  BY <1>3 DEF Without
<1>5. /\ DOMAIN generations' \subseteq DOMAIN generations \cup {nextGen}
      /\ \A g \in DOMAIN generations' :
             IF g = nextGen THEN generations'[g] = new
             ELSE g \in DOMAIN generations /\ generations'[g] = generations[g]
  BY <1>2, <1>4
<1>6. DOMAIN generations' \subseteq 1..nextGen' - 1
  BY <1>1, <1>5 DEF Anchored
<1>7. ASSUME NEW g \in DOMAIN generations'
      PROVE  /\ generations'[g].anchor \in 1..nextCommit' - 1
             /\ generations'[g].anchor \in DOMAIN commits' =>
                    generations'[g].entries = Entries(commits'[generations'[g].anchor].props, generations'[g].def)
  <2>1. CASE g = nextGen
    <3>1. generations'[g] = new
      BY <2>1, <1>5
    <3>2. /\ generations'[g].anchor = c /\ generations'[g].def = def
          /\ generations'[g].entries = Entries(props, def)
      BY <3>1
    <3> QED
      BY <3>2
  <2>2. CASE g # nextGen
    <3>1. g \in DOMAIN generations /\ generations'[g] = generations[g]
      BY <2>2, <1>5
    <3>2. generations[g].anchor \in 1..nextCommit - 1
      BY <3>1 DEF Anchored
    <3>3. generations[g].anchor \in 1..nextCommit' - 1 /\ generations[g].anchor < nextCommit
      BY <3>2 DEF Linked
    <3> QED
      BY <3>1, <3>3 DEF Anchored
  <2> QED
    BY <2>1, <2>2
<1>8. Anchored'
  <2>1. \A g \in DOMAIN generations' : Entries(commits[generations[g].anchor].props, generations[g].def)'
            = Entries(commits'[generations'[g].anchor].props, generations'[g].def)
    BY DEF Entries
  <2>2. (nextGen \in Nat \ {0})'
    BY <1>1
  <2> QED
    BY <1>6, <1>7, <2>2 DEF Anchored, Entries
<1>9. Later
  BY <1>1, <1>5 DEF Later
<1> QED
  BY <1>5, <1>8, <1>9

(* The binding that moves to a published generation is exact.              *)
LEMMA RebindExact ==
    ASSUME Anchored, Linked, NEW c, NEW props, NEW def, Publishes(c, props, def), Rebind(c),
           NEW k \in DOMAIN bindings'
    PROVE  \/ k \in DOMAIN bindings /\ bindings'[k] = bindings[k]
           \/ /\ k.commit \in 1..nextCommit' - 1 /\ bindings'[k].gen \in 0..nextGen' - 1
              /\ k.commit \in DOMAIN commits' /\ DefOf(k)' # "none" /\ Valid(k)' =>
                     (Effective(bindings[k]) = Entries(Props(k), DefOf(k)))'
<1> USE DEF Publishes
<1>0. /\ Later
      /\ nextGen \in DOMAIN generations' =>
             generations'[nextGen] = [anchor |-> c, def |-> def, entries |-> Entries(props, def)]
  BY PublishAnchored
<1> DEFINE key == [commit |-> c, local |-> NoWrite]
           b == [gen |-> nextGen, anchor |-> c, changed |-> {}, local |-> [o \in {} |-> None]]
<1>1. bindings' = With(bindings, key, b)
  BY DEF Rebind
<1>2. CASE k # key
  BY <1>1, <1>2 DEF With
<1>3. CASE k = key
  <2>1. bindings'[k] = b /\ k.commit = c
    BY <1>1, <1>3 DEF With
  <2>2. nextGen \in Nat \ {0} /\ nextGen \in 0..nextGen' - 1
    BY DEF Anchored, Publish
  <2>3. ASSUME c \in DOMAIN commits', Valid(k)'
        PROVE  (Effective(bindings[k]) = Entries(Props(k), DefOf(k)))'
    <3>1. nextGen \in DOMAIN generations' /\ generations'[nextGen].entries = Entries(props, def)
      BY <1>0, <2>1, <2>2, <2>3 DEF Valid, None
    <3>2. Effective(bindings[k])' = [o \in DOMAIN Entries(props, def) |-> Entries(props, def)[o]]
      BY <2>1, <2>2, <3>1 DEF Effective, None
    <3>3. @ = Entries(props, def)
      BY DEF Entries
    <3>4. DefOf(k)' = def
      BY <2>1, <2>3 DEF DefOf
    <3>5. ASSUME NEW o \in Owners
          PROVE  Props(k)'[<<o, def>>] = props[<<o, def>>]
      <4>1. <<o, def>> \in Slots /\ DOMAIN k.local = {}
        BY <1>3, <2>3 DEF Slots, NoWrite
      <4> QED
        BY <4>1, <2>1, <2>3 DEF Props
    <3>6. Entries(Props(k)', def) = Entries(props, def)
      BY <3>5 DEF Entries
    <3> QED
      BY <3>2, <3>3, <3>4, <3>6
  <2>4. k.commit \in 1..nextCommit' - 1 /\ bindings'[k].gen \in 0..nextGen' - 1
    <3>1. c \in 1..nextCommit' - 1 /\ b.gen = nextGen
      OBVIOUS
    <3> HIDE DEF b, key, Publishes
    <3> QED
      BY <3>1, <2>1, <2>2
  <2> QED
    BY <2>1, <2>3, <2>4
<1> QED
  BY <1>2, <1>3

(* A step that publishes and binds, if anything, the published.            *)
LEMMA PublishExact ==
    ASSUME Exact, Linked', NEW c, NEW props, NEW def, Publishes(c, props, def),
           Rebind(c) \/ bindings' = bindings
    PROVE  Anchored' /\ Bound' /\ Later
<1>1. Anchored' /\ Later
  BY PublishAnchored DEF Exact
<1>2. ASSUME NEW k \in DOMAIN bindings'
      PROVE  \/ k \in DOMAIN bindings /\ bindings'[k] = bindings[k]
             \/ /\ k.commit \in 1..nextCommit' - 1 /\ bindings'[k].gen \in 0..nextGen' - 1
                /\ k.commit \in DOMAIN commits' /\ DefOf(k)' # "none" /\ Valid(k)' =>
                       (Effective(bindings[k]) = Entries(Props(k), DefOf(k)))'
  <2>1. CASE Rebind(c)
    BY <2>1, RebindExact DEF Exact
  <2> QED
    BY <2>1
<1> QED
  BY <1>1, <1>2, BoundStays DEF Exact

LEMMA InitExact == Init => Exact
<1> SUFFICES ASSUME Init PROVE Exact
  OBVIOUS
<1>1. PICK props \in [Slots -> Values \cup {None}] :
          commits = [c \in {1} |-> [parent |-> 0, props |-> props, touched |-> {}, def |-> "none"]]
  BY DEF Init
<1>2. Linked
  BY <1>1 DEF Init, Linked, None
<1>3. Anchored /\ Bound /\ Scanning
  BY DEF Init, Anchored, Bound, BindingsAreExact, Scanning, NoScan
<1> QED
  BY <1>2, <1>3 DEF Exact

(* A step that adds no generation and binds nothing.                       *)
LEMMA QuietStep ==
    ASSUME Exact, Linked', nextCommit' \in Nat, nextCommit <= nextCommit',
           \A c \in DOMAIN commits' : c < nextCommit => c \in DOMAIN commits /\ commits'[c] = commits[c],
           UNCHANGED <<generations, nextGen, bindings>>
    PROVE  Anchored' /\ Bound' /\ Later
<1>1. Later
  BY DEF Later, Exact, Anchored
<1>2. ASSUME NEW g \in DOMAIN generations', generations'[g].anchor \in DOMAIN commits'
      PROVE  generations'[g].entries = Entries(commits'[generations'[g].anchor].props, generations'[g].def)
  <2>1. generations[g].anchor \in 1..nextCommit - 1
    BY DEF Exact, Anchored
  <2>2. generations[g].anchor < nextCommit
    BY <2>1 DEF Exact, Linked
  <2> QED
    BY <2>2, <1>2 DEF Exact, Anchored
<1>3. \A g \in DOMAIN generations' : generations'[g].anchor \in 1..nextCommit' - 1
  <2> SUFFICES ASSUME NEW g \in DOMAIN generations' PROVE generations'[g].anchor \in 1..nextCommit' - 1
    OBVIOUS
  <2>1. generations[g].anchor \in 1..nextCommit - 1
    BY DEF Exact, Anchored
  <2> QED
    BY <2>1 DEF Exact, Linked
<1>4. Anchored'
  BY <1>2, <1>3 DEF Exact, Anchored, Entries
<1>5. Bound'
  <2>1. \A k \in DOMAIN bindings' : k \in DOMAIN bindings /\ bindings'[k] = bindings[k]
    OBVIOUS
  <2> QED
    BY <1>1, <2>1, BoundStays DEF Exact
<1> QED
  BY <1>1, <1>4, <1>5

(* A scan that is not touched goes on reading its commit.                  *)
LEMMA ScanStays ==
    ASSUME Exact, scan' = scan, \A c \in DOMAIN commits : c \in DOMAIN commits' /\ commits'[c] = commits[c]
    PROVE  Scanning'
BY DEF Exact, Scanning, DefOf

LEMMA WriteExact ==
    ASSUME Exact, NEW slot \in Slots, NEW v \in Values \cup {None}, Write(slot, v)
    PROVE  Exact' /\ Later
<1> DEFINE props == [commits[head].props EXCEPT ![slot] = v]
<1>1. /\ head \in DOMAIN commits /\ commits[head].props \in [Slots -> Values \cup {None}]
      /\ commits[head].def \in Definitions \cup {"none"}
  BY DEF Exact, Linked
<1>2. props \in [Slots -> Values \cup {None}] /\ \A s \in Slots \ {slot} : props[s] = commits[head].props[s]
  BY <1>1
<1>3. OnHead(nextCommit, props, {slot}, commits[head].def)
  BY <1>1, <1>2 DEF OnHead, Write, NewCommit
<1> HIDE DEF props
<1>4. /\ Linked' /\ nextCommit' \in Nat /\ nextCommit <= nextCommit'
      /\ \A x \in DOMAIN commits : x \in DOMAIN commits' /\ commits'[x] = commits[x]
      /\ \A x \in DOMAIN commits' : x < nextCommit => x \in DOMAIN commits /\ commits'[x] = commits[x]
  BY <1>3, NewCommitLinked DEF Exact
<1>5. Anchored' /\ Bound' /\ Later /\ Scanning'
  BY <1>4, QuietStep, ScanStays DEF Write
<1> QED
  BY <1>4, <1>5 DEF Exact

(* A schema commit has no layer: its properties are those of the head.     *)
LEMMA SchemaCommit ==
    ASSUME Exact, NEW c \in {nextCommit, nextCommit + 1}, NEW def \in Definitions \cup {"none"},
           commits' = With(commits, c, [parent |-> head, props |-> commits[head].props,
                                        touched |-> {}, def |-> def]),
           head' = c, nextCommit' = c + 1
    PROVE  OnHead(c, commits[head].props, {}, def)
BY DEF OnHead, Exact, Linked

LEMMA CreateIndexExact ==
    ASSUME Exact, NEW def \in Definitions, CreateIndex(def)
    PROVE  Exact' /\ Later
<1> DEFINE props == commits[head].props
<1>1. OnHead(nextCommit, props, {}, def)
  BY SchemaCommit DEF CreateIndex, NewCommit
<1>2. Publish(nextCommit, props, def) /\ Rebind(nextCommit) /\ scan' = scan
  BY DEF CreateIndex
<1> HIDE DEF props
<1>3. /\ Linked' /\ nextCommit' \in Nat /\ nextCommit <= nextCommit'
      /\ commits'[nextCommit].props = props /\ commits'[nextCommit].def = def
      /\ \A x \in DOMAIN commits : x \in DOMAIN commits' /\ commits'[x] = commits[x]
      /\ \A x \in DOMAIN commits' : x < nextCommit => x \in DOMAIN commits /\ commits'[x] = commits[x]
  BY <1>1, NewCommitLinked DEF Exact
<1>4. nextCommit \in 1..nextCommit' - 1
  BY <1>1 DEF OnHead, Exact, Linked
<1>5. Publishes(nextCommit, props, def)
  BY <1>2, <1>3, <1>4 DEF Publishes
<1> QED
  BY <1>2, <1>3, <1>5, PublishExact, ScanStays DEF Exact

(* The staged commit is gone when its generation is published, and its     *)
(* number is not used again, so the generation is never bound.             *)
LEMMA CreateIndexInTxExact ==
    ASSUME Exact, NEW def \in Definitions, CreateIndexInTx(def)
    PROVE  Exact' /\ Later
<1> DEFINE props == commits[head].props
<1>1. OnHead(nextCommit + 1, props, {}, def)
  <2>1. nextCommit' = (nextCommit + 1) + 1
    BY DEF CreateIndexInTx, Exact, Linked
  <2> QED
    BY <2>1, SchemaCommit DEF CreateIndexInTx
<1>2. Publish(nextCommit, props, def) /\ Rebind(nextCommit) /\ scan' = scan
  BY DEF CreateIndexInTx
<1> HIDE DEF props
<1>3. /\ Linked' /\ nextCommit' \in Nat /\ nextCommit <= nextCommit'
      /\ DOMAIN commits' = DOMAIN commits \cup {nextCommit + 1}
      /\ \A x \in DOMAIN commits : x \in DOMAIN commits' /\ commits'[x] = commits[x]
      /\ \A x \in DOMAIN commits' : x < nextCommit => x \in DOMAIN commits /\ commits'[x] = commits[x]
  BY <1>1, NewCommitLinked DEF Exact
<1>4. nextCommit \in 1..nextCommit' - 1 /\ nextCommit \notin DOMAIN commits'
  <2>1. nextCommit \in Nat \ {0} /\ nextCommit' = nextCommit + 2
    BY DEF Exact, Linked, CreateIndexInTx
  <2>2. nextCommit \notin DOMAIN commits
    BY <2>1 DEF Exact, Linked
  <2> QED
    BY <1>3, <2>1, <2>2
<1>5. Publishes(nextCommit, props, def)
  BY <1>2, <1>3, <1>4 DEF Publishes
<1> QED
  BY <1>2, <1>3, <1>5, PublishExact, ScanStays DEF Exact

LEMMA DropIndexExact ==
    ASSUME Exact, DropIndex
    PROVE  Exact' /\ Later
<1>1. OnHead(nextCommit, commits[head].props, {}, "none")
  BY SchemaCommit DEF DropIndex, NewCommit
<1>2. /\ Linked' /\ nextCommit' \in Nat /\ nextCommit <= nextCommit'
      /\ \A x \in DOMAIN commits : x \in DOMAIN commits' /\ commits'[x] = commits[x]
      /\ \A x \in DOMAIN commits' : x < nextCommit => x \in DOMAIN commits /\ commits'[x] = commits[x]
  BY <1>1, NewCommitLinked DEF Exact
<1>3. Anchored' /\ Bound' /\ Later /\ Scanning'
  BY <1>2, QuietStep, ScanStays DEF DropIndex
<1> QED
  BY <1>2, <1>3 DEF Exact

(* Rebuilding at a commit of the branch, here or on another connection.    *)
LEMMA RebuildExact ==
    ASSUME Exact, NEW c, Rebuild(c) \/ RebuildElsewhere(c)
    PROVE  Exact' /\ Later
<1> DEFINE props == commits[c].props
           def == commits[c].def
<1>1. /\ Publish(c, props, def) /\ c \in Chain(head) /\ def # "none"
      /\ Rebind(c) \/ bindings' = bindings
      /\ commits' = commits /\ head' = head /\ nextCommit' = nextCommit /\ scan' = scan
  BY DEF Rebuild, RebuildElsewhere
<1>2. /\ c \in DOMAIN commits /\ c \in 1..nextCommit' - 1 /\ nextCommit' \in Nat
      /\ nextCommit <= nextCommit' /\ def \in Definitions
  BY <1>1, ChainOf DEF Exact, Linked
<1>3. Linked' /\ Scanning'
  BY <1>1 DEF Exact, Linked, Scanning, DefOf
<1>4. Publishes(c, props, def)
  BY <1>1, <1>2 DEF Publishes
<1> HIDE DEF props, def
<1> QED
  BY <1>1, <1>3, <1>4, PublishExact DEF Exact

LEMMA ResetExact ==
    ASSUME Exact, NEW c, Reset(c)
    PROVE  Exact' /\ Later
<1>1. c \in DOMAIN commits
  BY ChainOf DEF Reset, Exact, Linked
<1>2. Linked'
  BY <1>1 DEF Reset, Exact, Linked
<1>3. Anchored' /\ Bound' /\ Later /\ Scanning'
  <2>1. /\ nextCommit' \in Nat /\ nextCommit <= nextCommit'
        /\ commits' = commits /\ scan' = scan /\ UNCHANGED <<generations, nextGen, bindings>>
    BY DEF Reset, Exact, Linked
  <2> QED
    BY <1>2, <2>1, QuietStep, ScanStays
<1> QED
  BY <1>2, <1>3 DEF Exact

LEMMA CollectGarbageExact ==
    ASSUME Exact, CollectGarbage
    PROVE  Exact' /\ Later
<1>1. /\ head' = head /\ nextCommit' = nextCommit /\ nextGen' = nextGen
      /\ bindings' = bindings /\ scan' = scan /\ scan.status = "idle"
  BY DEF CollectGarbage
<1>2. Linked /\ Anchored /\ Bound
  BY DEF Exact
<1>3. DOMAIN commits' = Chain(head) /\ \A x \in DOMAIN commits' : x \in DOMAIN commits /\ commits'[x] = commits[x]
  <2>1. commits' = Without(commits, DOMAIN commits \ Chain(head))
    BY DEF CollectGarbage
  <2> QED
    BY <2>1, <1>2, ChainOf DEF Without, Linked
<1>4. /\ DOMAIN generations' \subseteq DOMAIN generations
      /\ \A g \in DOMAIN generations' : generations'[g] = generations[g]
  <2>1. generations' = Without(generations, DeadGenerations(DOMAIN commits \ Chain(head)))
    BY DEF CollectGarbage
  <2> QED
    BY <2>1 DEF Without
<1>5. Linked'
  <2>1. head \in DOMAIN commits' /\ \A x \in DOMAIN commits' : commits[x].parent \in DOMAIN commits' \cup {None}
    BY <1>2, <1>3, ChainOf DEF Linked
  <2>2. ASSUME NEW x \in DOMAIN commits'
        PROVE  /\ commits'[x].parent \in DOMAIN commits' \cup {None} /\ commits'[x].parent < x
               /\ commits'[x].props \in [Slots -> Values \cup {None}]
               /\ commits'[x].def \in Definitions \cup {"none"}
               /\ commits'[x].parent # None =>
                      \A s \in Slots \ commits'[x].touched :
                          commits'[x].props[s] = commits'[commits'[x].parent].props[s]
    BY <1>2, <1>3, <2>1 DEF Linked
  <2>3. DOMAIN commits' \subseteq 1..nextCommit' - 1 /\ nextCommit' \in Nat \ {0}
    BY <1>1, <1>2, <1>3 DEF Linked
  <2> QED
    BY <1>1, <2>1, <2>2, <2>3 DEF Linked
<1>6. Anchored'
  <2>1. ASSUME NEW g \in DOMAIN generations'
        PROVE  /\ generations'[g].anchor \in 1..nextCommit' - 1
               /\ generations'[g].anchor \in DOMAIN commits' =>
                      generations'[g].entries = Entries(commits'[generations'[g].anchor].props, generations'[g].def)
    BY <1>1, <1>2, <1>3, <1>4 DEF Anchored
  <2>2. nextGen' \in Nat \ {0} /\ DOMAIN generations' \subseteq 1..nextGen' - 1
    BY <1>1, <1>2, <1>4 DEF Anchored
  <2> QED
    BY <2>1, <2>2 DEF Anchored, Entries
<1>7. Later
  <2>1. nextCommit' \in Nat /\ nextCommit <= nextCommit' /\ nextGen' \in Nat /\ nextGen <= nextGen'
    BY <1>1, <1>2 DEF Linked, Anchored
  <2> QED
    BY <2>1, <1>3, <1>4 DEF Later
<1>8. Bound' /\ Scanning'
  BY <1>1, <1>2, <1>7, BoundStays DEF Exact, Scanning
<1> QED
  BY <1>5, <1>6, <1>7, <1>8 DEF Exact

(* A cursor's next page.                                                   *)
LEMMA PageExact ==
    ASSUME Exact, NextPage, NEW k, k = scan.snapshot, NEW b, b = Ensured(k)
    PROVE  Exact' /\ Later
<1>1. /\ commits' = commits /\ head' = head /\ generations' = generations
      /\ nextCommit' = nextCommit /\ nextGen' = nextGen
  BY DEF NextPage
<1>2. Linked /\ Linked' /\ Anchored /\ Anchored' /\ Bound /\ Later
  BY <1>1 DEF Exact, Linked, Anchored, Later, Entries
<1>3. k.commit \in DOMAIN commits /\ DefOf(k) # "none"
  BY DEF NextPage, Exact, Scanning
<1>4. b.gen \in 0..nextGen - 1 /\ Effective(b) = Entries(Props(k), DefOf(k))
  BY <1>2, <1>3, EnsuredIsExact
<1>5. bindings' = With(bindings, k, b)
  BY DEF NextPage
<1>6. \A j \in DOMAIN bindings' : \/ j \in DOMAIN bindings /\ bindings'[j] = bindings[j]
                                  \/ j = k /\ bindings'[j] = b
  BY <1>5 DEF With
<1>7. k.commit \in 1..nextCommit' - 1 /\ b.gen \in 0..nextGen' - 1
  BY <1>1, <1>2, <1>3, <1>4 DEF Linked
<1>8. ASSUME NEW j \in DOMAIN bindings'
      PROVE  \/ j \in DOMAIN bindings /\ bindings'[j] = bindings[j]
             \/ /\ j.commit \in 1..nextCommit' - 1 /\ bindings'[j].gen \in 0..nextGen' - 1
                /\ j.commit \in DOMAIN commits' /\ DefOf(j)' # "none" /\ Valid(j)' =>
                       (Effective(bindings[j]) = Entries(Props(j), DefOf(j)))'
  <2>1. CASE j = k /\ bindings'[j] = b
    <3>1. Effective(bindings[j])' = Effective(b)
      BY <2>1, <1>1 DEF Effective
    <3>2. Entries(Props(j), DefOf(j))' = Entries(Props(k), DefOf(k))
      BY <2>1, <1>1 DEF Entries, Props, DefOf
    <3> QED
      BY <2>1, <3>1, <3>2, <1>4, <1>7
  <2> QED
    BY <2>1, <1>6
<1>9. Bound'
  BY <1>2, <1>8, BoundStays
<1>10. Scanning'
  <2>1. scan = [snapshot |-> scan.snapshot, order |-> scan.order, gen |-> scan.gen,
                after |-> scan.after, found |-> scan.found, status |-> scan.status]
    BY DEF Exact, Scanning
  <2>2. \/ scan' = [scan EXCEPT !.status = "failed"] \/ scan' = [scan EXCEPT !.status = "done"]
        \/ \E rest : scan' = Advance(b.gen # None, b.gen, Effective(b), rest)
    BY DEF NextPage, Deliver
  <2>3. /\ scan' = [snapshot |-> scan'.snapshot, order |-> scan'.order, gen |-> scan'.gen,
                    after |-> scan'.after, found |-> scan'.found, status |-> scan'.status]
        /\ scan'.snapshot = scan.snapshot
    <3>1. CASE scan' = [scan EXCEPT !.status = "failed"] \/ scan' = [scan EXCEPT !.status = "done"]
      BY <3>1, <2>1
    <3>2. CASE \E rest : scan' = Advance(b.gen # None, b.gen, Effective(b), rest)
      BY <3>2 DEF Advance
    <3> QED
      BY <2>2, <3>1, <3>2
  <2> QED
    BY <2>3, <1>1, <1>3 DEF Scanning, DefOf
<1> QED
  BY <1>2, <1>9, <1>10 DEF Exact

(* A cursor's page, its end, and a new cursor.                             *)
LEMMA ReaderExact ==
    ASSUME Exact,
           NextPage \/ CloseScan \/ Reconnect \/ \E snapshot \in Snapshots : StartScan(snapshot)
    PROVE  Exact' /\ Later
<1>1. /\ commits' = commits /\ head' = head /\ generations' = generations
      /\ nextCommit' = nextCommit /\ nextGen' = nextGen
  BY DEF NextPage, CloseScan, Reconnect, StartScan
<1>2. Linked /\ Linked' /\ Anchored /\ Anchored' /\ Bound /\ Later
  BY <1>1 DEF Exact, Linked, Anchored, Later, Entries
<1>3. CASE NextPage
  BY <1>3, PageExact
<1>4. CASE CloseScan
  <2>1. Bound'
    BY <1>2, <1>4, BoundStays DEF CloseScan
  <2> QED
    BY <1>2, <1>4, <2>1 DEF CloseScan, Exact, Scanning, NoScan
<1>5. CASE Reconnect
  <2>1. bindings' = [k \in {} |-> {}] /\ scan' = scan
    BY <1>5 DEF Reconnect
  <2>2. Bound'
    BY <2>1 DEF Bound, BindingsAreExact
  <2> QED
    BY <1>1, <1>2, <2>1, <2>2 DEF Exact, Scanning, DefOf
<1>6. ASSUME NEW snapshot \in Snapshots, StartScan(snapshot)
      PROVE  Exact'
  <2>1. bindings' = bindings /\ DefOf(snapshot) # "none" /\ scan' = [NoScan EXCEPT !.snapshot = snapshot, !.status = "open"]
    BY <1>6 DEF StartScan
  <2>2. Bound'
    BY <1>2, <2>1, BoundStays
  <2>3. snapshot.commit \in DOMAIN commits
    BY <1>2, ChainOf DEF Snapshots, Linked
  <2>4. scan' = [snapshot |-> snapshot, order |-> "any", gen |-> None, after |-> 0, found |-> <<>>, status |-> "open"]
    BY <2>1 DEF NoScan
  <2>5. Scanning'
    BY <1>1, <2>1, <2>3, <2>4 DEF Scanning, DefOf
  <2> QED
    BY <1>2, <2>2, <2>5 DEF Exact
<1> QED
  BY <1>2, <1>3, <1>4, <1>5, <1>6

LEMMA StepIsLater == Exact /\ [Next]_vars => Later
<1> SUFFICES ASSUME Exact, [Next]_vars PROVE Later
  OBVIOUS
<1>1. CASE UNCHANGED vars
  BY <1>1 DEF vars, Exact, Linked, Anchored, Later
<1>2. CASE Next
  BY <1>2, WriteExact, CreateIndexExact, CreateIndexInTxExact, DropIndexExact, RebuildExact,
     ResetExact, CollectGarbageExact, ReaderExact DEF Next
<1> QED
  BY <1>1, <1>2

LEMMA ExactStep == Exact /\ [Next]_vars => Exact'
<1> SUFFICES ASSUME Exact, [Next]_vars PROVE Exact'
  OBVIOUS
<1>1. CASE UNCHANGED vars
  <2>1. Linked' /\ Anchored' /\ Scanning'
    BY <1>1 DEF vars, Exact, Linked, Anchored, Scanning, Entries, DefOf
  <2>2. Later /\ Linked /\ Anchored /\ Bound
    BY <1>1 DEF vars, Exact, Linked, Anchored, Later
  <2>3. Bound'
    BY <1>1, <2>2, BoundStays DEF vars
  <2> QED
    BY <2>1, <2>3 DEF Exact
<1>2. CASE Next
  BY <1>2, WriteExact, CreateIndexExact, CreateIndexInTxExact, DropIndexExact, RebuildExact,
     ResetExact, CollectGarbageExact, ReaderExact DEF Next
<1> QED
  BY <1>1, <1>2

LEMMA ExactInductive == Spec => []Exact
BY InitExact, ExactStep, PTL DEF Spec

(* However a generation came about, was replaced, evicted or collected,    *)
(* and wherever it was anchored: a binding a connection would use gives    *)
(* the values of its snapshot.                                             *)
THEOREM BindingsAlwaysExact == Spec => []BindingsAreExact
BY ExactInductive, PTL DEF Exact, Bound

(* A published generation is the one that is new.                          *)
LEMMA PublishedAnchor ==
    ASSUME Anchored, NEW c, NEW props, NEW def, Publish(c, props, def), NEW g \in DOMAIN generations'
    PROVE  generations'[g].anchor = c \/ (g \in DOMAIN generations /\ generations'[g] = generations[g])
<1> DEFINE new == [anchor |-> c, def |-> def, entries |-> Entries(props, def)]
           left == Without(generations, Replaced(c, def))
           gens == With(left, nextGen, new)
<1>1. generations' = Without(gens, Evicted(gens, def, nextGen))
  BY DEF Publish
<1>2. new.anchor = c
  OBVIOUS
<1>3. \A h \in DOMAIN left : h \in DOMAIN generations /\ left[h] = generations[h]
  BY DEF Without
<1> HIDE DEF left, new
<1>4. \A h \in DOMAIN gens : gens[h] = new \/ (h \in DOMAIN left /\ gens[h] = left[h])
  BY DEF With
<1> HIDE DEF gens
<1>5. g \in DOMAIN gens /\ generations'[g] = gens[g]
  BY <1>1 DEF Without
<1> QED
  BY <1>2, <1>3, <1>4, <1>5

LEMMA AnchorsStep ==
    ASSUME Exact, AnchorsExist, ~ SchemaInTx, [Next]_vars
    PROVE  AnchorsExist'
<1>1. Exact' /\ Later /\ Anchored /\ Linked
  BY ExactStep, StepIsLater DEF Exact
<1>2. CASE UNCHANGED <<commits, generations>>
  BY <1>2 DEF AnchorsExist
<1>3. CASE generations' = generations /\ \A x \in DOMAIN commits : x \in DOMAIN commits'
  BY <1>3 DEF AnchorsExist
<1>4. CASE \E c \in DOMAIN commits' : \E props, def :
               Publish(c, props, def) /\ \A x \in DOMAIN commits : x \in DOMAIN commits'
  BY <1>1, <1>4, PublishedAnchor DEF AnchorsExist
<1>5. CASE CollectGarbage
  <2>1. /\ commits' = Without(commits, DOMAIN commits \ Chain(head))
        /\ generations' = Without(generations, DeadGenerations(DOMAIN commits \ Chain(head)))
    BY <1>5 DEF CollectGarbage
  <2>2. \A g \in DOMAIN generations' :
            /\ g \in DOMAIN generations /\ generations'[g] = generations[g]
            /\ generations[g].anchor \notin DOMAIN commits \ Chain(head)
    BY <2>1 DEF Without, DeadGenerations
  <2>3. DOMAIN commits' = DOMAIN commits \ (DOMAIN commits \ Chain(head))
    BY <2>1 DEF Without
  <2> QED
    BY <2>2, <2>3 DEF AnchorsExist
<1>6. \/ UNCHANGED <<commits, generations>> \/ CollectGarbage
      \/ generations' = generations /\ \A x \in DOMAIN commits : x \in DOMAIN commits'
      \/ \E c \in DOMAIN commits' : \E props, def :
             Publish(c, props, def) /\ \A x \in DOMAIN commits : x \in DOMAIN commits'
  <2>1. ASSUME NEW props, NEW touched, NEW def, NewCommit(head, props, touched, def)
        PROVE  nextCommit \in DOMAIN commits' /\ \A x \in DOMAIN commits : x \in DOMAIN commits'
    BY <2>1 DEF NewCommit, With
  <2>2. CASE UNCHANGED vars
    BY <2>2 DEF vars
  <2>3. ASSUME NEW slot \in Slots, NEW v, Write(slot, v)
        PROVE  generations' = generations /\ \A x \in DOMAIN commits : x \in DOMAIN commits'
    BY <2>1, <2>3 DEF Write
  <2>4. CASE DropIndex
    BY <2>1, <2>4 DEF DropIndex
  <2>5. ASSUME NEW def \in Definitions, CreateIndex(def)
        PROVE  \E c \in DOMAIN commits' : \E props, d :
                   Publish(c, props, d) /\ \A x \in DOMAIN commits : x \in DOMAIN commits'
    BY <2>1, <2>5 DEF CreateIndex
  <2>6. ASSUME NEW c \in DOMAIN commits, Rebuild(c) \/ RebuildElsewhere(c)
        PROVE  \E d \in DOMAIN commits' : \E props, def :
                   Publish(d, props, def) /\ \A x \in DOMAIN commits : x \in DOMAIN commits'
    <3>1. commits' = commits /\ Publish(c, commits[c].props, commits[c].def)
      BY <2>6 DEF Rebuild, RebuildElsewhere
    <3> QED
      BY <3>1
  <2>7. CASE NextPage \/ CloseScan \/ Reconnect \/ (\E c : Reset(c)) \/ \E snapshot : StartScan(snapshot)
    BY <2>7 DEF NextPage, CloseScan, Reconnect, Reset, StartScan
  <2>8. ASSUME NEW def, CreateIndexInTx(def)
        PROVE  FALSE
    BY <2>8 DEF CreateIndexInTx
  <2> QED
    BY <2>2, <2>3, <2>4, <2>5, <2>6, <2>7, <2>8 DEF Next
<1> QED
  BY <1>2, <1>3, <1>4, <1>5, <1>6

(* Outside of explicit transactions no generation outlives its anchor.     *)
THEOREM AnchorsAlwaysExist == ASSUME ~ SchemaInTx PROVE Spec => []AnchorsExist
<1>1. Init => AnchorsExist
  BY DEF Init, AnchorsExist
<1>2. AnchorsExist /\ Exact /\ [Next]_vars => AnchorsExist'
  BY AnchorsStep
<1> QED
  BY <1>1, <1>2, ExactInductive, PTL DEF Spec

(* The owners' identities are positive and bounded, the values numbers.    *)
Numbered ==
    /\ Owners \subseteq Nat \ {0} /\ \E m \in Owners : \A o \in Owners : m >= o
    /\ Values \cup LocalWrites \subseteq Nat

Delivered == {scan.found[i] : i \in DOMAIN scan.found}
Indexed == Entries(Props(scan.snapshot), DefOf(scan.snapshot))

(* What a cursor has given: the owners up to its key, in the order of the  *)
(* kind of scan it is bound to.                                            *)
Paging ==
    scan.status # "idle" =>
        /\ \A s \in DOMAIN scan.snapshot.local : scan.snapshot.local[s] \in Nat
        /\ scan.found \in Seq(Owners) /\ scan.after \in Nat
        /\ IsFiniteSet(Delivered) /\ Cardinality(Delivered) = Len(scan.found)
        /\ scan.order \in {"any", "numeric", "owner"}
        /\ scan.order = "numeric" => scan.gen # None
        /\ \A numeric \in BOOLEAN :
               scan.order = "any" \/ (scan.order = "numeric") = numeric =>
                   Delivered = {o \in DOMAIN Indexed : Key(numeric, Indexed, o) <= scan.after}
        /\ scan.status = "done" => Delivered = DOMAIN Indexed

LEMMA KeysOrder ==
    ASSUME Numbered, NEW entries, DOMAIN entries \subseteq Owners,
           \A o \in DOMAIN entries : entries[o] \in Nat, NEW numeric \in BOOLEAN
    PROVE  /\ \A o \in DOMAIN entries : Key(numeric, entries, o) \in Nat \ {0}
           /\ \A o, p \in DOMAIN entries : Key(numeric, entries, o) = Key(numeric, entries, p) => o = p
<1> DEFINE M == Max(Owners)
<1>1. M \in Owners /\ \A o \in Owners : M >= o
  BY DEF Numbered, Max
<1>2. Owners \subseteq Nat \ {0}
  BY DEF Numbered
<1> HIDE DEF M
<1>3. M \in Nat /\ \A o \in Owners : o \in 1..M
  BY <1>1, <1>2
<1>4. CASE ~ numeric
  BY <1>2, <1>4 DEF Key
<1>5. CASE numeric
  <2>1. \A o \in DOMAIN entries : Key(numeric, entries, o) = entries[o] * (M + 1) + o
    BY <1>5 DEF Key, M
  <2>2. ASSUME NEW e \in Nat
        PROVE  e * (M + 1) \in Nat
    BY <1>3
  <2>3. ASSUME NEW e \in Nat, NEW f \in Nat, NEW o \in 1..M, NEW p \in 1..M,
               e * (M + 1) + o = f * (M + 1) + p
        PROVE  o = p
    <3>1. ASSUME NEW x \in Nat, NEW y \in Nat, x < y
          PROVE  y * (M + 1) >= x * (M + 1) + (M + 1)
      <4>1. PICK d \in Nat : y = x + 1 + d
        <5>1. y - x - 1 \in Nat /\ y = x + 1 + (y - x - 1)
          BY <3>1
        <5> QED
          BY <5>1
      <4>2. y * (M + 1) = x * (M + 1) + (M + 1) + d * (M + 1)
        BY <4>1, <1>3
      <4>3. d * (M + 1) \in Nat /\ x * (M + 1) \in Nat
        BY <2>2
      <4> QED
        BY <4>2, <4>3, <1>3
    <3>2. e * (M + 1) \in Nat /\ f * (M + 1) \in Nat
      BY <2>2
    <3>3. ~ (e < f) /\ ~ (f < e)
      BY <3>1, <3>2, <2>3, <1>3
    <3>4. e = f
      BY <3>3
    <3> QED
      BY <3>2, <3>4, <2>3
  <2>4. ASSUME NEW o \in DOMAIN entries
        PROVE  Key(numeric, entries, o) \in Nat \ {0}
    <3>1. entries[o] * (M + 1) \in Nat /\ o \in 1..M
      BY <2>2, <1>3
    <3> QED
      BY <2>1, <3>1
  <2> QED
    BY <2>1, <2>3, <2>4, <1>3
<1> QED
  BY <1>4, <1>5

(* The owner a page gives next.                                            *)
LEMMA LeastKey ==
    ASSUME NEW entries, NEW numeric, NEW rest, rest # {},
           \A o \in rest : Key(numeric, entries, o) \in Nat
    PROVE  \E o \in rest : \A p \in rest : Key(numeric, entries, o) <= Key(numeric, entries, p)
<1> DEFINE keys == {Key(numeric, entries, o) : o \in rest}
<1>1. keys \in SUBSET Nat /\ keys # {}
  OBVIOUS
<1> HIDE DEF keys
<1>2. PICK n \in keys : \A m \in keys : n <= m
  <2> DEFINE R == {pair \in Nat \X Nat : pair[1] < pair[2]}
  <2>1. IsWellFoundedOn(R, Nat)
    BY NatLessThanWellFounded, Zenon DEF OpToRel
  <2> HIDE DEF R
  <2>2. \E n \in keys : \A m \in keys : ~ <<m, n>> \in R
    BY <1>1, <2>1, WFMin
  <2>3. \A m, n \in keys : <<m, n>> \in R <=> m < n
    BY <1>1 DEF R
  <2>4. \A m, n \in keys : ~ (m < n) => n <= m
    BY <1>1
  <2> QED
    BY <2>2, <2>3, <2>4
<1> QED
  BY <1>2 DEF keys

(* What a scan reads does not change while its commit is kept.             *)
LEMMA PagingKept ==
    ASSUME Exact, Exact', Later, Paging, scan' = scan
    PROVE  Paging'
<1>1. CASE scan.status = "idle"
  BY <1>1 DEF Paging
<1>2. CASE scan.status # "idle"
  <2>1. commits'[scan.snapshot.commit] = commits[scan.snapshot.commit]
    <3>1. scan.snapshot.commit \in DOMAIN commits /\ scan.snapshot.commit \in DOMAIN commits'
      BY <1>2 DEF Exact, Scanning
    <3>2. scan.snapshot.commit < nextCommit
      BY <3>1 DEF Exact, Linked
    <3> QED
      BY <3>1, <3>2 DEF Later
  <2>2. Indexed' = Indexed /\ Delivered' = Delivered
    BY <2>1 DEF Indexed, Delivered, Entries, Props, DefOf
  <2> QED
    BY <2>2 DEF Paging
<1> QED
  BY <1>1, <1>2

LEMMA IndexedOwners ==
    ASSUME Numbered, Exact, Paging, scan.status # "idle"
    PROVE  DOMAIN Indexed \subseteq Owners /\ \A o \in DOMAIN Indexed : Indexed[o] \in Nat
<1> DEFINE c == scan.snapshot.commit
           d == DefOf(scan.snapshot)
<1>1. c \in DOMAIN commits /\ d \in Definitions /\ commits[c].props \in [Slots -> Values \cup {None}]
  BY DEF Exact, Scanning, Linked, DefOf
<1>2. \A s \in Slots : Props(scan.snapshot)[s] \in Nat
  BY <1>1 DEF Props, Paging, Numbered, None
<1>3. \A o \in Owners : <<o, d>> \in Slots
  BY <1>1 DEF Slots
<1> QED
  BY <1>2, <1>3 DEF Indexed, Entries

LEMMA Appended ==
    ASSUME NEW S, NEW f \in Seq(S), NEW x \in S, NEW g, g = Append(f, x)
    PROVE  /\ g \in Seq(S) /\ Len(g) = Len(f) + 1
           /\ {g[i] : i \in DOMAIN g} = {f[i] : i \in DOMAIN f} \cup {x}
<1>1. /\ g \in Seq(S) /\ Len(g) = Len(f) + 1 /\ DOMAIN g = 1..Len(f) + 1 /\ DOMAIN f = 1..Len(f)
      /\ \A i \in 1..Len(f) : g[i] = f[i]
      /\ g[Len(f) + 1] = x /\ Len(f) \in Nat
  OBVIOUS
<1>2. 1..Len(f) + 1 = 1..Len(f) \cup {Len(f) + 1}
  BY <1>1
<1> QED
  BY <1>1, <1>2

(* One page: the least key after those given.                              *)
LEMMA AdvancePaging ==
    ASSUME Numbered, Exact, Paging, scan.status = "open", Indexed' = Indexed,
           NEW numeric \in BOOLEAN, NEW gen, numeric = (gen # None),
           scan.order = "any" \/ (scan.order = "numeric") = numeric,
           NEW rest, rest = {o \in DOMAIN Indexed : Key(numeric, Indexed, o) > scan.after}, rest # {},
           scan' = Advance(numeric, gen, Indexed, rest)
    PROVE  Paging'
<1> DEFINE key(o) == Key(numeric, Indexed, o)
<1>1. DOMAIN Indexed \subseteq Owners /\ \A o \in DOMAIN Indexed : Indexed[o] \in Nat
  BY IndexedOwners
<1>2. /\ \A o \in DOMAIN Indexed : key(o) \in Nat
      /\ \A o, p \in DOMAIN Indexed : key(o) = key(p) => o = p
  BY <1>1, KeysOrder
<1>3. PICK first \in rest : /\ first = CHOOSE o \in rest : \A p \in rest : key(o) <= key(p)
                            /\ \A p \in rest : key(first) <= key(p)
  <2>1. \E o \in rest : \A p \in rest : key(o) <= key(p)
    BY <1>2, LeastKey
  <2> QED
    BY <2>1
<1>4. scan' = [snapshot |-> scan.snapshot, order |-> IF numeric THEN "numeric" ELSE "owner", gen |-> gen,
               after |-> key(first), found |-> Append(scan.found, first), status |-> "open"]
  BY <1>3 DEF Advance
<1>5. /\ \A s \in DOMAIN scan.snapshot.local : scan.snapshot.local[s] \in Nat
      /\ scan.found \in Seq(Owners) /\ scan.after \in Nat
      /\ IsFiniteSet(Delivered) /\ Cardinality(Delivered) = Len(scan.found)
      /\ Delivered = {o \in DOMAIN Indexed : key(o) <= scan.after}
  BY DEF Paging
<1>6. first \in DOMAIN Indexed /\ key(first) > scan.after /\ key(first) \in Nat /\ first \in Owners
  BY <1>1, <1>2, <1>3
<1> HIDE DEF key
<1>7. scan'.found = Append(scan.found, first)
  BY <1>4
<1>8. scan'.found \in Seq(Owners) /\ Len(scan'.found) = Len(scan.found) + 1 /\ Delivered' = Delivered \cup {first}
  <2>1. PICK f, g : f = scan.found /\ g = scan'.found
    OBVIOUS
  <2>2. f \in Seq(Owners) /\ g = Append(f, first)
    BY <1>5, <1>7, <2>1
  <2>3. /\ g \in Seq(Owners) /\ Len(g) = Len(f) + 1
        /\ {g[i] : i \in DOMAIN g} = {f[i] : i \in DOMAIN f} \cup {first}
    BY <2>2, <1>6, Appended
  <2>4. Delivered = {f[i] : i \in DOMAIN f} /\ Delivered' = {g[i] : i \in DOMAIN g}
    BY <2>1 DEF Delivered
  <2> QED
    BY <2>1, <2>3, <2>4
<1>9. Delivered \cup {first} = {o \in DOMAIN Indexed : key(o) <= key(first)}
  <2>1. ASSUME NEW o \in DOMAIN Indexed, key(o) <= key(first)
        PROVE  key(o) <= scan.after \/ o = first
    <3>1. CASE key(o) > scan.after
      <4>1. o \in rest
        BY <3>1 DEF key
      <4>2. key(first) <= key(o)
        BY <4>1, <1>3 DEF key
      <4> QED
        BY <4>2, <2>1, <1>2, <1>6 DEF key
    <3> QED
      BY <3>1, <1>2, <1>5 DEF key
  <2>2. ASSUME NEW o \in DOMAIN Indexed, key(o) <= scan.after
        PROVE  key(o) <= key(first)
    <3>1. key(o) \in Nat
      BY <1>2 DEF key
    <3> QED
      BY <3>1, <2>2, <1>5, <1>6
  <2>3. key(first) <= key(first)
    BY <1>6
  <2> QED
    BY <2>1, <2>2, <2>3, <1>5, <1>6
<1>10. IsFiniteSet(Delivered') /\ Cardinality(Delivered') = Len(scan'.found)
  <2>1. first \notin Delivered
    BY <1>5, <1>6
  <2> QED
    <3>1. PICK d, e : d = Delivered /\ e = Delivered'
      OBVIOUS
    <3>2. IsFiniteSet(d) /\ e = d \cup {first} /\ first \notin d
      BY <2>1, <3>1, <1>5, <1>8
    <3>3. IsFiniteSet(e) /\ Cardinality(e) = Cardinality(d) + 1
      BY <3>2, FS_AddElement
    <3> QED
      BY <3>1, <3>3, <1>5, <1>8
<1>11. /\ scan'.snapshot = scan.snapshot /\ scan'.after = key(first) /\ scan'.status = "open"
       /\ scan'.order = (IF numeric THEN "numeric" ELSE "owner") /\ scan'.gen = gen
  BY <1>4
<1>12. ASSUME NEW n \in BOOLEAN, scan'.order = "any" \/ (scan'.order = "numeric") = n
       PROVE  Delivered' = {o \in DOMAIN Indexed' : Key(n, Indexed', o) <= scan'.after}
  <2>1. n = numeric
    BY <1>11, <1>12
  <2>2. {o \in DOMAIN Indexed' : Key(n, Indexed', o) <= scan'.after} = {o \in DOMAIN Indexed : key(o) <= key(first)}
    BY <2>1, <1>11 DEF key
  <2> QED
    BY <2>2, <1>8, <1>9
<1> QED
  BY <1>5, <1>6, <1>8, <1>10, <1>11, <1>12 DEF Paging, Key

LEMMA PagePaging ==
    ASSUME Numbered, Exact, Paging, NextPage
    PROVE  Paging'
<1> DEFINE E == Indexed
<1>1. PICK b : /\ b = Ensured(scan.snapshot)
               /\ scan' = IF ~ Continues(b) THEN [scan EXCEPT !.status = "failed"]
                          ELSE Deliver(b.gen # None, b.gen, Effective(b))
  BY DEF NextPage
<1>2. scan.status = "open" /\ commits' = commits
  BY DEF NextPage
<1>3. Effective(b) = Indexed
  <2>1. scan.snapshot.commit \in DOMAIN commits /\ DefOf(scan.snapshot) # "none"
    BY <1>2 DEF Exact, Scanning
  <2> QED
    BY <2>1, <1>1, EnsuredIsExact DEF Exact, Indexed
<1>4. scan = [snapshot |-> scan.snapshot, order |-> scan.order, gen |-> scan.gen,
              after |-> scan.after, found |-> scan.found, status |-> scan.status]
  BY DEF Exact, Scanning
<1>5. ASSUME NEW st \in {"failed", "done"}, scan' = [scan EXCEPT !.status = st],
             st = "done" => Delivered = DOMAIN Indexed
      PROVE  Paging'
  <2>1. /\ scan'.snapshot = scan.snapshot /\ scan'.order = scan.order /\ scan'.gen = scan.gen
        /\ scan'.after = scan.after /\ scan'.found = scan.found /\ scan'.status = st
    BY <1>4, <1>5
  <2>2. Indexed' = Indexed /\ Delivered' = Delivered
    BY <2>1, <1>2 DEF Indexed, Delivered, Entries, Props, DefOf
  <2> QED
    BY <1>2, <1>5, <2>1, <2>2 DEF Paging, Key
<1>6. CASE ~ Continues(b)
  BY <1>1, <1>5, <1>6
<1>7. CASE Continues(b)
  <2> DEFINE numeric == b.gen # None
             rest == {o \in DOMAIN Indexed : Key(numeric, Indexed, o) > scan.after}
  <2>1. scan.order = "any" \/ (scan.order = "numeric") = numeric
    BY <1>2, <1>7 DEF Continues, Paging
  <2>2. scan' = IF rest = {} THEN [scan EXCEPT !.status = "done"] ELSE Advance(numeric, b.gen, Indexed, rest)
    BY <1>1, <1>3, <1>7 DEF Deliver
  <2>3. CASE rest = {}
    <3>1. Delivered = {o \in DOMAIN Indexed : Key(numeric, Indexed, o) <= scan.after} /\ scan.after \in Nat
      BY <2>1, <1>2 DEF Paging
    <3>2. \A o \in DOMAIN Indexed : Key(numeric, Indexed, o) \in Nat
      BY <1>2, IndexedOwners, KeysOrder
    <3>3. Delivered = DOMAIN Indexed
      BY <2>3, <3>1, <3>2
    <3> QED
      BY <2>2, <2>3, <3>3, <1>5
  <2>4. CASE rest # {}
    <3>1. Indexed' = Indexed
      <4>1. scan'.snapshot = scan.snapshot
        BY <2>2, <2>4 DEF Advance
      <4> QED
        BY <4>1, <1>2 DEF Indexed, Entries, Props, DefOf
    <3>2. scan' = Advance(numeric, b.gen, Indexed, rest)
      BY <2>2, <2>4
    <3> HIDE DEF rest
    <3>3. rest = {o \in DOMAIN Indexed : Key(numeric, Indexed, o) > scan.after}
      BY DEF rest
    <3>4. numeric \in BOOLEAN /\ numeric = (b.gen # None)
      OBVIOUS
    <3> HIDE DEF numeric
    <3> QED
      BY <1>2, <2>1, <2>4, <3>1, <3>2, <3>3, <3>4, AdvancePaging
  <2> QED
    BY <2>3, <2>4
<1> QED
  BY <1>6, <1>7

LEMMA StartPaging ==
    ASSUME Numbered, Exact, NEW snapshot \in Snapshots, StartScan(snapshot)
    PROVE  Paging'
<1>1. scan' = [snapshot |-> snapshot, order |-> "any", gen |-> None, after |-> 0, found |-> <<>>, status |-> "open"]
  BY DEF StartScan, NoScan
<1>2. \A s \in DOMAIN snapshot.local : snapshot.local[s] \in Nat
  <2>1. snapshot.local = NoWrite \/ \E t \in Slots : snapshot.local \in [{t} -> LocalWrites]
    BY DEF Snapshots
  <2> QED
    BY <2>1 DEF NoWrite, Numbered
<1>3. Delivered' = {} /\ IsFiniteSet(Delivered') /\ Cardinality(Delivered') = 0
  <2>1. Delivered' = {}
    BY <1>1 DEF Delivered
  <2> QED
    BY <2>1, FS_EmptySet
<1>4. /\ scan'.snapshot = snapshot /\ scan'.order = "any" /\ scan'.gen = None
      /\ scan'.after = 0 /\ scan'.found = <<>> /\ scan'.status = "open"
  BY <1>1
<1>5. DOMAIN Indexed' \subseteq Owners /\ \A o \in DOMAIN Indexed' : Indexed'[o] \in Nat
  <2> DEFINE c == snapshot.commit
             d == DefOf(snapshot)
  <2>1. c \in DOMAIN commits /\ d \in Definitions /\ commits[c].props \in [Slots -> Values \cup {None}]
    BY ChainOf DEF StartScan, Snapshots, Exact, Linked, DefOf
  <2>2. \A s \in Slots : Props(snapshot)[s] \in Nat
    BY <2>1, <1>2 DEF Props, Numbered, None
  <2>3. \A o \in Owners : <<o, d>> \in Slots
    BY <2>1 DEF Slots
  <2>4. Indexed' = Entries(Props(snapshot), d)
    BY <1>4 DEF StartScan, Indexed, Entries, Props, DefOf
  <2> QED
    BY <2>2, <2>3, <2>4 DEF Entries
<1>6. ASSUME NEW n \in BOOLEAN
      PROVE  {o \in DOMAIN Indexed' : Key(n, Indexed', o) <= 0} = {}
  <2>1. \A o \in DOMAIN Indexed' : Key(n, Indexed', o) \in Nat \ {0}
    <3>1. PICK E : E = Indexed'
      OBVIOUS
    <3> QED
      BY <3>1, <1>5, KeysOrder
  <2> QED
    BY <2>1
<1>7. <<>> \in Seq(Owners) /\ Len(<<>>) = 0
  OBVIOUS
<1> QED
  BY <1>2, <1>3, <1>4, <1>6, <1>7 DEF Paging, Key

LEMMA PagingAtFirst == Init => Paging
  BY DEF Init, Paging, NoScan

LEMMA PagingStep == ASSUME Numbered, Exact, Paging, [Next]_vars PROVE Paging'
<1>1. Exact' /\ Later
  BY ExactStep, StepIsLater
<1>2. CASE scan' = scan
  BY <1>1, <1>2, PagingKept
<1>3. CASE CloseScan
  BY <1>3 DEF CloseScan, Paging, NoScan
<1>4. scan' = scan \/ NextPage \/ CloseScan \/ \E snapshot \in Snapshots : StartScan(snapshot)
  BY DEF Next, vars, Write, CreateIndex, CreateIndexInTx, DropIndex, CollectGarbage, Reconnect,
         Rebuild, RebuildElsewhere, Reset
<1> QED
  BY <1>2, <1>3, <1>4, PagePaging, StartPaging

(* A scan at its end has given what it should.                             *)
LEMMA PagingIsExact == Paging => ScanIsExact
  BY DEF Paging, ScanIsExact, Delivered, Indexed

(* A paged scan gives every indexed owner of its snapshot once, whatever   *)
(* is published, replaced, evicted, reset or rebuilt between its pages.    *)
THEOREM ScansAreExact == ASSUME Numbered PROVE Spec => []ScanIsExact
<1>1. Numbered /\ Exact /\ Paging /\ [Next]_vars => Paging'
  BY PagingStep
<1> QED
  BY <1>1, PagingAtFirst, PagingIsExact, ExactInductive, PTL DEF Spec

=============================================================================
