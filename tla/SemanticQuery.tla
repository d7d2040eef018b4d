--------------------------- MODULE SemanticQuery ---------------------------
(***************************************************************************)
(* Managed Semantic search on one connection (query/managed_semantic.rs):  *)
(* a query embeds its text, tries the connection's derived HNSW cache,     *)
(* and otherwise scans the visible owners in batches, embeds their texts   *)
(* through the provider, keeps the best hits and builds the cache.  A      *)
(* rebuild embeds every owner's text into a stage and builds the same      *)
(* cache.  Both may be interrupted, run out of memory or be refused by the *)
(* provider between any two of their steps.                                *)
(*                                                                         *)
(* A text stands for its embedding: the texts are numbers and the score of *)
(* an owner is its text.  A snapshot is the texts of its owners.           *)
(***************************************************************************)
EXTENDS Naturals, FiniteSets, Sequences, SequencesExt

CONSTANTS
  Owners,          \* the owner ids of the index, numbers: scans go by id
  Texts,           \* source texts, numbers: the score of the text
  QueryText,       \* the text of a query, one of Texts
  Snapshots,       \* snapshots a query may name: functions Owners -> Texts \cup {NoText}
  Runtimes,        \* semantic identities the provider may report
  Views,           \* sets of visible owners; Owners itself is the full graph
  Windows,         \* <<skip, limit>> pairs
  BatchOwners,     \* QUERY_SOURCE_BATCH_ENTITIES
  BatchTexts,      \* QUERY_SOURCE_BATCH_TEXTS and REBUILD_TEXT_BATCH
  HitCapacity,     \* 4096: hits kept before they are cut to what is needed
  MaxCalls         \* bound on the calls of a behaviour

NoText == 0
NoRows == {}

VARIABLES
  caches,    \* TEMP vector cache: key -> its rows and whether its meta row is there
  work,      \* TEMP work and stage rows: <<execution, text, embedded>>
  runtime,   \* the semantic identity of the registered provider
  calls,     \* calls started so far; the number is the execution's id
  job,       \* the execution that runs, or Idle
  asked,     \* texts sent to the provider by the last execution, in order
  outcome    \* what the last execution returned
vars == <<caches, work, runtime, calls, job, asked, outcome>>

Keys == Snapshots \X Runtimes
Idle == [step |-> "idle"]
Empty == [complete |-> FALSE, rows |-> NoRows]

--------------------------------------------------------------------------
(* The data of a snapshot and the order of hits. *)

\* visit_indexed_entities: the owners that have a text.
Indexed(s) == {o \in Owners : s[o] # NoText}

\* Higher scores first, then lower ids.
Above(s, a, b) == s[a] > s[b] \/ (s[a] = s[b] /\ a < b)

\* trim_hits: sorted, cut to skip + limit, the skipped ones dropped.
Sorted(s, hits) ==
  [i \in 1..Cardinality(hits) |->
     CHOOSE o \in hits : Cardinality({p \in hits : Above(s, p, o)}) = i - 1]
Trim(s, hits, skip, limit) ==
  LET sorted == Sorted(s, hits)
      upto == IF skip + limit < Len(sorted) THEN skip + limit ELSE Len(sorted)
  IN SubSeq(sorted, skip + 1, upto)

\* The best n of a set of hits.
Cut(s, hits, n) == {o \in hits : Cardinality({p \in hits : Above(s, p, o)}) < n}

--------------------------------------------------------------------------
Init ==
  /\ caches = [k \in Keys |-> Empty]
  /\ work = {}
  /\ runtime \in Runtimes
  /\ calls = 0 /\ job = Idle /\ asked = <<>>
  /\ outcome = [kind |-> "none"]

\* The connection re-registers the provider, with another identity perhaps.
Register(r) ==
  /\ job = Idle
  /\ runtime' = r
  /\ UNCHANGED <<caches, work, calls, job, asked, outcome>>

\* query_controlled up to resolve_runtime: the work table exists, the runtime is
\* resolved, and a limit of zero is answered at once, without any embedding.
BeginQuery(s, view, w) ==
  /\ job = Idle /\ calls < MaxCalls
  /\ calls' = calls + 1 /\ asked' = <<>>
  /\ IF w[2] = 0
       THEN /\ outcome' = [kind |-> "hits", hits |-> <<>>, snapshot |-> s, view |-> view, window |-> w, exact |-> TRUE]
            /\ UNCHANGED job
       ELSE /\ job' = [step |-> "embed_query", id |-> calls + 1, rebuild |-> FALSE, snapshot |-> s,
                       view |-> view, window |-> w, key |-> <<s, runtime>>, pos |-> Owners,
                       pending |-> {}, hits |-> {}, entries |-> {}, left |-> {}, built |-> FALSE]
            /\ outcome' = [kind |-> "running"]
  /\ UNCHANGED <<caches, work, runtime>>

Needed(j) == j.window[1] + j.window[2]

\* resolve_embeddings: the texts without a work row go to the provider in one
\* batch, and each answer becomes a work row.
Embed(j, texts) ==
  LET misses == {t \in texts : <<j.id, t, TRUE>> \notin work}
  IN /\ work' = work \cup {<<j.id, t, TRUE>> : t \in misses}
     /\ asked' = asked \o SetToSeq(misses)

EmbedQuery ==
  /\ job.step = "embed_query"
  /\ Embed(job, {QueryText})
  /\ job' = [job EXCEPT !.step = "cache"]
  /\ UNCHANGED <<caches, runtime, calls, outcome>>

\* The end of a call: its work rows go, and the caller gets the outcome.
Finish(result) ==
  /\ job' = Idle
  /\ work' = {r \in work : r[1] # job.id}
  /\ outcome' = result
  /\ UNCHANGED <<runtime, calls, asked>>
Failure(fault) == [kind |-> "error", fault |-> fault]
Answer(hits, exact) ==
  [kind |-> "hits", hits |-> hits, snapshot |-> job.snapshot, view |-> job.view,
   window |-> job.window, exact |-> exact]

\* resolve_cached_entity: a row counts when its owner exists, belongs to the
\* index, is visible and still has a text.
Resolved(j, rows) == {r[1] : r \in rows} \cap Indexed(j.snapshot) \cap j.view

\* query_cached_hits on an empty cache.  The empty result carries no memory
\* reservation, and query_cached_hits reports that as an internal error.
AnswerEmptyCache ==
  /\ job.step = "cache" /\ caches[job.key].complete /\ caches[job.key].rows = NoRows
  /\ Finish(Failure("none"))
  /\ UNCHANGED caches

\* query_cached_hits: the search widens until enough of what it found is
\* visible, or it has seen everything.
AnswerFromCache(found) ==
  /\ job.step = "cache" /\ caches[job.key].complete /\ caches[job.key].rows # NoRows
  /\ found \subseteq caches[job.key].rows
  /\ LET count == Cardinality(caches[job.key].rows)
         desired == IF Needed(job) < count THEN Needed(job) ELSE count
     IN \/ Cardinality(Resolved(job, found)) >= desired
        \/ found = caches[job.key].rows
  /\ Finish(Answer(Trim(job.snapshot, Resolved(job, found), job.window[1], job.window[2]),
                   found = caches[job.key].rows))
  /\ UNCHANGED caches

\* The search cannot reach every row: the cache is dropped and the scan begins.
DropUnreachable ==
  /\ job.step = "cache" /\ caches[job.key].complete /\ caches[job.key].rows # NoRows
  /\ caches' = [caches EXCEPT ![job.key] = Empty]
  /\ job' = [job EXCEPT !.step = "scan"]
  /\ UNCHANGED <<work, runtime, calls, asked, outcome>>

CacheMiss ==
  /\ job.step = "cache" /\ ~caches[job.key].complete
  /\ job' = [job EXCEPT !.step = "scan"]
  /\ UNCHANGED <<caches, work, runtime, calls, asked, outcome>>

First(S) == CHOOSE o \in S : \A p \in S : o <= p
PendingTexts(j) == {j.snapshot[o] : o \in j.pending}
Full(j) == Cardinality(j.pending) >= BatchOwners \/ Cardinality(PendingTexts(j)) >= BatchTexts

\* collect_query_hits: the next owner; an invisible one, or one without a text,
\* is passed over.
ScanOwner ==
  /\ job.step = "scan" /\ ~Full(job) /\ job.pos # {}
  /\ LET o == First(job.pos)
         taken == o \in job.view /\ o \in Indexed(job.snapshot)
     IN job' = [job EXCEPT !.pos = @ \ {o}, !.pending = IF taken THEN @ \cup {o} ELSE @]
  /\ UNCHANGED <<caches, work, runtime, calls, asked, outcome>>

\* QueryHitAccumulator::flush and append_hits.
Flush ==
  /\ job.step = "scan" /\ job.pending # {} /\ (Full(job) \/ job.pos = {})
  /\ Embed(job, PendingTexts(job))
  /\ LET hits == job.hits \cup job.pending
         capacity == IF 2 * Needed(job) > HitCapacity THEN 2 * Needed(job) ELSE HitCapacity
     IN job' = [job EXCEPT !.pending = {},
                  !.hits = IF Cardinality(hits) > capacity THEN Cut(job.snapshot, hits, Needed(job)) ELSE hits,
                  !.entries = IF job.view = Owners
                                THEN @ \cup {<<o, job.snapshot[o]>> : o \in job.pending} ELSE @]
  /\ UNCHANGED <<caches, runtime, calls, outcome>>

Scanned == job.step = "scan" /\ job.pos = {} /\ job.pending = {}

\* Only a query of the full graph has seen every owner, and builds the cache.
BuildsCache(j) == j.view = Owners

AnswerFromScan ==
  /\ Scanned /\ ~BuildsCache(job)
  /\ Finish(Answer(Trim(job.snapshot, job.hits, job.window[1], job.window[2]), TRUE))
  /\ UNCHANGED caches

BeginBuild ==
  /\ Scanned /\ BuildsCache(job)
  /\ job' = [job EXCEPT !.step = "build"]
  /\ UNCHANGED <<caches, work, runtime, calls, asked, outcome>>

\* Once the cache is there a query returns its hits; a rebuild first looks again
\* whether its index is still defined as it was when it began.
CacheIsThere(built) ==
  IF job.rebuild
    THEN /\ job' = [job EXCEPT !.step = "verify", !.built = built]
         /\ UNCHANGED <<work, runtime, calls, asked, outcome>>
    ELSE Finish(Answer(Trim(job.snapshot, job.hits, job.window[1], job.window[2]), TRUE))

\* build_managed_vector_cache: a complete cache of the same rows stays.
KeepCache ==
  /\ job.step = "build" /\ caches[job.key].complete /\ caches[job.key].rows = job.entries
  /\ CacheIsThere(FALSE)
  /\ UNCHANGED caches

\* Otherwise the old rows go and the new ones are inserted one by one ...
ReplaceCache ==
  /\ job.step = "build" /\ ~(caches[job.key].complete /\ caches[job.key].rows = job.entries)
  /\ caches' = [caches EXCEPT ![job.key] = Empty]
  /\ job' = [job EXCEPT !.step = "persist", !.left = job.entries]
  /\ UNCHANGED <<work, runtime, calls, asked, outcome>>

PersistRow ==
  /\ job.step = "persist" /\ job.left # {}
  /\ LET row == CHOOSE r \in job.left : \A q \in job.left : r[1] <= q[1]
     IN /\ caches' = [caches EXCEPT ![job.key].rows = @ \cup {row}]
        /\ job' = [job EXCEPT !.left = @ \ {row}]
  /\ UNCHANGED <<work, runtime, calls, asked, outcome>>

\* A change of Publish that RebuildBuilds notices.
PublishLater ==
  /\ job.step = "persist" /\ job.left = {}
  /\ CacheIsThere(TRUE) /\ UNCHANGED caches

\* ... and the meta row that makes them readable comes last.
Publish ==
  /\ job.step = "persist" /\ job.left = {}
  /\ caches' = [caches EXCEPT ![job.key].complete = TRUE]
  /\ CacheIsThere(TRUE)

--------------------------------------------------------------------------
(* db.index.semantic.rebuild *)

\* resolve_rebuild_target, then stage_rebuild_sources: every text of the
\* snapshot, once, whoever sees its owner.
BeginRebuild(s) ==
  /\ job = Idle /\ calls < MaxCalls
  /\ calls' = calls + 1 /\ asked' = <<>>
  /\ work' = work \cup {<<calls + 1, s[o], FALSE>> : o \in Indexed(s)}
  /\ job' = [step |-> "fill", id |-> calls + 1, rebuild |-> TRUE, snapshot |-> s, view |-> Owners,
             window |-> <<0, 0>>, key |-> <<s, runtime>>, pos |-> {}, pending |-> {}, hits |-> {},
             entries |-> {}, left |-> {}, built |-> FALSE]
  /\ outcome' = [kind |-> "running"]
  /\ UNCHANGED <<caches, runtime>>

\* fill_rebuild_stage: the next texts without a vector, at most a batch of them.
FillStage ==
  /\ job.step = "fill"
  /\ LET open == {r \in work : r[1] = job.id /\ ~r[3]}
         batch == {r \in open : Cardinality({q \in open : q[2] < r[2]}) < BatchTexts}
     IN /\ open # {}
        /\ work' = (work \ batch) \cup {<<job.id, r[2], TRUE>> : r \in batch}
        /\ asked' = asked \o SetToSeq({r[2] : r \in batch})
  /\ UNCHANGED <<caches, runtime, calls, job, outcome>>

\* collect_rebuild_hnsw_entries: every owner with the vector of its text.
CollectStage ==
  /\ job.step = "fill" /\ \A r \in work : r[1] = job.id => r[3]
  /\ job' = [job EXCEPT !.step = "build",
               !.entries = {<<o, job.snapshot[o]>> : o \in Indexed(job.snapshot)}]
  /\ UNCHANGED <<caches, work, runtime, calls, asked, outcome>>

\* validate_rebuild_definition after the build: a commit's schema does not change,
\* so only reading it can fail (see Fault).
Verify ==
  /\ job.step = "verify"
  /\ Finish([kind |-> "rebuilt", texts |-> Len(asked), snapshot |-> job.snapshot])
  /\ UNCHANGED caches

--------------------------------------------------------------------------
\* An interrupt, an exhausted budget, a provider error or a failing statement.
\* A persist that fails deletes what it wrote, if it can, and a rebuild that fails
\* deletes the cache it built; the work rows are deleted either way.
Fault ==
  /\ job # Idle
  /\ \/ /\ job.step = "persist" \/ (job.step = "verify" /\ job.built)
        /\ caches' = [caches EXCEPT ![job.key] = Empty]
     \/ /\ job.step # "verify" \/ ~job.built
        /\ UNCHANGED caches
  /\ Finish(Failure("fault"))

Query ==
  \/ \E s \in Snapshots, v \in Views, w \in Windows : BeginQuery(s, v, w)
  \/ EmbedQuery \/ AnswerEmptyCache \/ DropUnreachable \/ CacheMiss
  \/ /\ job.step = "cache"
     /\ \E found \in SUBSET caches[job.key].rows : AnswerFromCache(found)
  \/ ScanOwner \/ Flush \/ AnswerFromScan \/ BeginBuild
Build == KeepCache \/ ReplaceCache \/ PersistRow \/ Publish
Rebuild == (\E s \in Snapshots : BeginRebuild(s)) \/ FillStage \/ CollectStage \/ Verify
Next == Query \/ Build \/ Rebuild \/ Fault \/ (\E r \in Runtimes : Register(r))

\* A call runs to its end: every step of it is taken by the calling thread.
Progress == Build \/ Flush \/ ScanOwner \/ EmbedQuery \/ CacheMiss \/ AnswerFromScan \/ BeginBuild
              \/ AnswerEmptyCache \/ FillStage \/ CollectStage \/ Verify
              \/ (job.step = "cache" /\ AnswerFromCache(caches[job.key].rows))
Spec == Init /\ [][Next]_vars /\ WF_vars(Progress)

--------------------------------------------------------------------------
(* Correctness. *)

\* A cache with its meta row holds every owner of its snapshot, whichever query,
\* view, rebuild or failure came before (build_managed_vector_cache_controlled).
CompleteMeansWhole ==
  \A k \in Keys : caches[k].complete =>
    caches[k].rows = {<<o, k[1][o]>> : o \in Indexed(k[1])}

\* The visible owners that a query may return.
Candidates == Indexed(outcome.snapshot) \cap outcome.view

\* The answer of a query has the visible owners it should: as many as the window
\* has room for, in order and without repeats, and exactly the best ones unless an
\* approximate search of the cache chose them (collect_query_hits, trim_hits).
AnswerIsRight ==
  outcome.kind = "hits" =>
    LET h == outcome.hits
        n == Cardinality(Candidates)
        skip == outcome.window[1]
        room == IF n > skip THEN n - skip ELSE 0
    IN /\ Len(h) = IF outcome.window[2] < room THEN outcome.window[2] ELSE room
       /\ \A i \in DOMAIN h : h[i] \in Candidates
       /\ \A i, j \in DOMAIN h : i < j => Above(outcome.snapshot, h[i], h[j])
       /\ outcome.exact => h = Trim(outcome.snapshot, Candidates, skip, outcome.window[2])

\* A query sends the provider its own text and the texts of visible owners only
\* (visit_indexed_entities with the graph view); a rebuild sends the snapshot's.
HiddenTextsStay ==
  job # Idle =>
    \A i \in DOMAIN asked : \/ asked[i] = QueryText /\ ~job.rebuild
                            \/ \E o \in job.view : asked[i] = job.snapshot[o]

\* One execution asks the provider for a text once, over all its batches
\* (the execution work table).
AskedOnce == \A i, j \in DOMAIN asked : asked[i] = asked[j] => i = j

\* No call leaves work or stage rows behind, however it ends (drop_table, cleanup).
NoRowsLeft == \A r \in work : job # Idle /\ r[1] = job.id

\* A rebuild that reports success has left a readable cache that holds every text
\* it counted as embedded (rebuild_staged).
RebuildLeavesCache ==
  outcome'.kind = "rebuilt" /\ outcome.kind # "rebuilt" =>
    caches'[job.key].complete /\ \A i \in DOMAIN asked : \E r \in caches'[job.key].rows : r[2] = asked[i]
RebuildBuilds == [][RebuildLeavesCache]_vars

\* The calling thread gets every call to an end (the batches and the widening
\* search make progress).
Running == job # Idle
CallsEnd == Running ~> ~Running

=============================================================================
