--------------------------- MODULE FullTextCache ---------------------------
(***************************************************************************)
(* Full-text search on one connection (query/semantic_index.rs and the     *)
(* lithograph-fts5 crate): TEMP FTS5 tables, one per snapshot and index    *)
(* definition, built on first use and readable once a ready mark is there; *)
(* and a second table per snapshot whose tokenizer lets one query replace  *)
(* the analyzer of its own search terms.                                   *)
(*                                                                         *)
(* Calls nest: an analyzer is host code, and while it splits the terms of  *)
(* a search it may run another search on the same connection.              *)
(***************************************************************************)
EXTENDS Naturals, FiniteSets, Sequences, SequencesExt

CONSTANTS
  Owners,      \* the indexed owners, numbers in the order of their score, best first
  Contents,    \* snapshots: sets of owners that have text in them
  Matching,    \* analyzer -> the owners whose text its terms match
  Configured,  \* the analyzer of the index definition
  Views,       \* sets of visible owners
  Windows,     \* <<skip, limit>> pairs
  MaxDepth,    \* bound on the nesting
  MaxCalls     \* bound on the calls of a behaviour

Analyzers == DOMAIN Matching

\* fulltext_cache_table and ensure_fulltext_override_cache: the name of a table is
\* the digest of the snapshot, the definition and what the table is for.
Tables == Contents \X {"plain", "override"}

VARIABLES
  tables,   \* table -> exists, its rows, its ready mark
  child,    \* table -> the analyzer in force for the terms of a search
  calls,    \* the nest of running calls, innermost last
  count,    \* calls begun
  answer    \* the last answer, or None
vars == <<tables, child, calls, count, answer>>

None == [window |-> <<0, 0>>, call |-> 0]
Absent == [exists |-> FALSE, rows |-> {}, ready |-> FALSE]

Init ==
  /\ tables = [t \in Tables |-> Absent]
  /\ child = [t \in Tables |-> Configured]
  /\ calls = <<>> /\ count = 0 /\ answer = None

Top == Last(calls)
At(step) == calls # <<>> /\ Top.step = step
Goto(step) == calls' = [calls EXCEPT ![Len(calls)].step = step]
Here == Top.table

\* fulltext_query_inner: an analyzer other than the configured one needs the
\* override table.  The outermost call comes from the host; an inner one from the
\* analyzer of the call around it.
Begin(c, a, v, w) ==
  /\ count < MaxCalls /\ Len(calls) < MaxDepth
  /\ calls = <<>> \/ At("read")
  /\ count' = count + 1
  /\ calls' = Append(calls,
       [step |-> "prepare", table |-> <<c, IF a = Configured THEN "plain" ELSE "override">>,
        analyzer |-> a, view |-> v, window |-> w, left |-> {}, previous |-> Configured, guarded |-> FALSE])
  /\ UNCHANGED <<tables, child, answer>>

\* A change of Leave that AnswerIsRight notices.
LeaveConfigured ==
  /\ calls' = Front(calls)
  /\ child' = IF Top.guarded THEN [child EXCEPT ![Here] = Configured] ELSE child

\* An error leaves the call; its guard, when it has one, puts the analyzer back.
Leave ==
  /\ calls' = Front(calls)
  /\ child' = IF Top.guarded THEN [child EXCEPT ![Here] = Top.previous] ELSE child

\* prepare_fulltext_cache_slot: a table with its mark is used as it is.
UseReady ==
  /\ At("prepare") /\ tables[Here].exists /\ tables[Here].ready
  /\ Goto("guard")
  /\ UNCHANGED <<tables, child, count, answer>>

\* A table without its mark is emptied first ...
ResetIncomplete ==
  /\ At("prepare") /\ tables[Here].exists /\ ~tables[Here].ready
  /\ tables' = [tables EXCEPT ![Here].rows = {}]
  /\ calls' = [calls EXCEPT ![Len(calls)] = [@ EXCEPT !.step = "populate", !.left = Here[1]]]
  /\ UNCHANGED <<child, count, answer>>

\* ... which another statement on it may forbid.
ResetBusy ==
  /\ At("prepare") /\ tables[Here].exists /\ ~tables[Here].ready
  /\ Leave
  /\ UNCHANGED <<tables, count, answer>>

\* build_fulltext_table: no table yet.  The analyzer may refuse to be made.
CreateTable ==
  /\ At("prepare") /\ ~tables[Here].exists
  /\ \/ /\ tables' = [tables EXCEPT ![Here] = [exists |-> TRUE, rows |-> {}, ready |-> FALSE]]
        /\ calls' = [calls EXCEPT ![Len(calls)] = [@ EXCEPT !.step = "populate", !.left = Here[1]]]
        /\ UNCHANGED child
     \/ Leave /\ UNCHANGED tables
  /\ UNCHANGED <<count, answer>>

\* populate_fulltext_cache: the next owner, whatever the view of the call.
InsertRow ==
  /\ At("populate") /\ Top.left # {}
  /\ LET o == CHOOSE o \in Top.left : \A p \in Top.left : o <= p
     IN /\ tables' = [tables EXCEPT ![Here].rows = @ \cup {o}]
        /\ calls' = [calls EXCEPT ![Len(calls)].left = @ \ {o}]
  /\ UNCHANGED <<child, count, answer>>

MarkReady ==
  /\ At("populate") /\ Top.left = {}
  /\ tables' = [tables EXCEPT ![Here].ready = TRUE]
  /\ Goto("guard")
  /\ UNCHANGED <<child, count, answer>>

\* cleanup_failed_fulltext_build: the mark goes, and the rows when they can be
\* deleted; when they cannot, the missing mark keeps everybody out.
FailBuild ==
  /\ At("populate")
  /\ tables' \in {[tables EXCEPT ![Here].ready = FALSE, ![Here].rows = r] : r \in {{}, tables[Here].rows}}
  /\ Leave
  /\ UNCHANGED <<count, answer>>

\* override_query_tokenizer: the call's analyzer takes the place of the current
\* one, which the guard remembers.
Install ==
  /\ At("guard")
  /\ IF Here[2] = "override"
       THEN /\ child' = [child EXCEPT ![Here] = Top.analyzer]
            /\ calls' = [calls EXCEPT ![Len(calls)] =
                           [@ EXCEPT !.step = "read", !.previous = child[Here], !.guarded = TRUE]]
       ELSE Goto("read") /\ UNCHANGED child
  /\ UNCHANGED <<tables, count, answer>>

\* The analyzer of the call cannot be made.
InstallFails ==
  /\ At("guard") /\ Here[2] = "override"
  /\ Leave
  /\ UNCHANGED <<tables, count, answer>>

\* visible_fulltext_hits: the window counts visible candidates only.
Window(candidates, w) ==
  {o \in candidates : LET n == Cardinality({p \in candidates : p < o})
                      IN n >= w[1] /\ n < w[1] + w[2]}

\* default_fulltext_candidates: what the terms match in the table, split by the
\* analyzer in force, in the order of their scores.
Read ==
  /\ At("read")
  /\ answer' = [call |-> count, table |-> Here, analyzer |-> Top.analyzer, view |-> Top.view, window |-> Top.window,
                hits |-> Window(tables[Here].rows \cap Matching[child[Here]] \cap Top.view, Top.window)]
  /\ Leave
  /\ UNCHANGED <<tables, count>>

\* An interrupt, or an error of the search.
FailRead == At("read") /\ Leave /\ UNCHANGED <<tables, count, answer>>

Next ==
  \/ \E c \in Contents, a \in Analyzers, v \in Views, w \in Windows : Begin(c, a, v, w)
  \/ UseReady \/ ResetIncomplete \/ ResetBusy \/ CreateTable \/ InsertRow \/ MarkReady \/ FailBuild
  \/ Install \/ InstallFails \/ Read \/ FailRead
Spec == Init /\ [][Next]_vars

--------------------------------------------------------------------------

\* A table with its ready mark holds the whole snapshot, whatever failed, was
\* interrupted or could not be reset before (prepare_fulltext_cache_slot).
ReadyMeansWhole == \A t \in Tables : tables[t].ready => tables[t].exists /\ tables[t].rows = t[1]

\* An answer is the window of the visible matches under the analyzer its own call
\* named, however many calls ran inside it (override_query_tokenizer).
AnswerIsRight ==
  answer.call > 0 =>
    answer.hits = Window(answer.table[1] \cap Matching[answer.analyzer] \cap answer.view, answer.window)

\* When no call runs, every table splits terms as its definition says: no guard
\* was lost on an error path (QueryTokenizerOverride::drop).
AnalyzersRestored == calls = <<>> => \A t \in Tables : child[t] = Configured

--------------------------------------------------------------------------

\* What the theorem of MCVersions rests on: only the innermost call can be anywhere but at its
\* search, a table that is searched is ready, one that is filled is not, and the
\* analyzers in force and remembered are those of the nest of calls.
Call == [step : {"prepare", "populate", "guard", "read"}, table : Tables, analyzer : Analyzers,
         view : Views, window : Windows, left : SUBSET UNION Contents,
         previous : Analyzers \cup {Configured}, guarded : BOOLEAN]

Typed ==
  /\ tables \in [Tables -> [exists : BOOLEAN, rows : SUBSET UNION Contents, ready : BOOLEAN]]
  /\ child \in [Tables -> Analyzers \cup {Configured}]
  /\ calls \in Seq(Call) /\ count \in Nat
  /\ \A i \in 1..Len(calls) : i < Len(calls) => calls[i].step = "read"

Filled ==
  /\ ReadyMeansWhole
  /\ \A i \in 1..Len(calls) :
       /\ calls[i].step \in {"guard", "read"} => tables[calls[i].table].ready
       /\ calls[i].step = "populate" =>
            /\ tables[calls[i].table].exists /\ ~tables[calls[i].table].ready
            /\ tables[calls[i].table].rows \cup calls[i].left = calls[i].table[1]

On(nest, i, t) == nest[i].guarded /\ nest[i].table = t

\* a is the analyzer of the last of the first n calls that put theirs on t.
InForce(nest, n, t, a) ==
  \/ \E i \in 1..n : On(nest, i, t) /\ a = nest[i].analyzer /\ \A j \in i + 1..n : ~On(nest, j, t)
  \/ a = Configured /\ \A i \in 1..n : ~On(nest, i, t)

Nested ==
  /\ \A i \in 1..Len(calls) :
       /\ calls[i].guarded <=> calls[i].step = "read" /\ calls[i].table[2] = "override"
       /\ calls[i].table[2] = "plain" => calls[i].analyzer = Configured
       /\ calls[i].guarded => InForce(calls, i - 1, calls[i].table, calls[i].previous)
  /\ \A t \in Tables : InForce(calls, Len(calls), t, child[t])

Stacked == Typed /\ Filled /\ Nested /\ AnswerIsRight

=============================================================================
