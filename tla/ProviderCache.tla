---------------------------- MODULE ProviderCache ----------------------------
(***************************************************************************)
(* The embedding cache of the openai-compatible provider: one SQLite file  *)
(* that several processes open, fill, repair and trim at the same time,    *)
(* each with its own configuration. Every SQL statement outside a          *)
(* transaction and every immediate transaction is one step.                *)
(***************************************************************************)
EXTENDS Integers, Sequences, FiniteSets, FiniteSetsExt, SequencesExt

CONSTANTS
    Procs,      \* connections that embed
    Texts,
    Space,      \* Procs -> the cache space of the configuration
    MaxBytes,   \* Procs -> cache.max_bytes
    Payload,    \* Procs -> the bytes of a vector
    MaxTexts,   \* bound on the texts of a call
    MaxCalls,   \* bound on the calls
    MaxDamage   \* bound on the entries the environment damages

VARIABLES
    schema,     \* empty, cache or foreign: what the file holds
    entries,    \* entry_id -> [space, text, vector, payload, ok]
    used,       \* used_payload_bytes
    nextEntry,  \* AUTOINCREMENT
    calls,      \* Procs -> the call in progress
    started,    \* calls so far
    damages     \* entries damaged so far

file == <<schema, entries, used, nextEntry>>
vars == <<schema, entries, used, nextEntry, calls, started, damages>>

NoCall == [phase |-> "idle", texts |-> <<>>, at |-> 1, resolved |-> [t \in {} |-> 0],
           misses |-> <<>>, repair |-> 0, output |-> <<>>, fault |-> FALSE]

Init ==
    /\ schema \in {"empty", "foreign"}
    /\ entries = [e \in {} |-> 0] /\ used = 0 /\ nextEntry = 1
    /\ calls = [p \in Procs |-> NoCall]
    /\ started = 0 /\ damages = 0

Without(f, S) == [x \in DOMAIN f \ S |-> f[x]]
With(f, k, v) == [x \in DOMAIN f \cup {k} |-> IF x = k THEN v ELSE f[x]]
Bytes(E) == MapThenSumSet(LAMBDA e : entries[e].payload, E)

(* The vector that the endpoint of a space gives for a text.               *)
Vector(p, text) == <<Space[p], text>>

Become(p, call) == calls' = [calls EXCEPT ![p] = call]
Phase(p, phase) == Become(p, [calls[p] EXCEPT !.phase = phase])

-----------------------------------------------------------------------------
(* embed_batch_callback with cache.enabled                                 *)
Begin(p, texts) ==
    /\ calls[p].phase \in {"idle", "done", "failed"} /\ started < MaxCalls
    /\ started' = started + 1
    /\ Become(p, [NoCall EXCEPT !.phase = "open", !.texts = texts])
    /\ UNCHANGED <<file, damages>>

(* initialize_or_validate reads the schema.                                *)
Open(p) ==
    /\ calls[p].phase = "open"
    /\ Become(p, CASE schema = "empty"   -> [calls[p] EXCEPT !.phase = "initialize"]
                   [] schema = "cache"   -> [calls[p] EXCEPT !.phase = "budget"]
                   [] schema = "foreign" -> [calls[p] EXCEPT !.phase = "failed", !.fault = TRUE])
    /\ UNCHANGED <<file, started, damages>>

(* initialize, in an immediate transaction that reads the schema again.    *)
Initialize(p) ==
    /\ calls[p].phase = "initialize"
    /\ schema' = "cache"
    /\ Phase(p, "budget")
    /\ UNCHANGED <<entries, used, nextEntry, started, damages>>

-----------------------------------------------------------------------------
(* evict_to_budget deletes the oldest entries until the counter fits.      *)
Oldest(E, n) == {e \in E : Cardinality({f \in E : f < e}) < n}

Evicted(E, bytes(_), total, max) ==
    LET enough == {n \in 0..Cardinality(E) : total - bytes(Oldest(E, n)) <= max}
    IN  IF enough = {} THEN E ELSE Oldest(E, Min(enough))

(* enforce_budget looks first, and again in its transaction.               *)
CheckBudget(p) ==
    /\ calls[p].phase = "budget"
    /\ Phase(p, IF used <= MaxBytes[p] THEN "lookup" ELSE "trim")
    /\ UNCHANGED <<file, started, damages>>

Trim(p) ==
    /\ calls[p].phase = "trim"
    /\ LET gone == Evicted(DOMAIN entries, Bytes, used, MaxBytes[p]) IN
       IF used - Bytes(gone) > MaxBytes[p]
       THEN Phase(p, "failed") /\ UNCHANGED <<entries, used>>
       ELSE /\ entries' = Without(entries, gone) /\ used' = used - Bytes(gone)
            /\ Phase(p, "lookup")
    /\ UNCHANGED <<schema, nextEntry, started, damages>>

-----------------------------------------------------------------------------
(* The entry with the space_hash and text_hash of the request.             *)
Found(p, text) == {e \in DOMAIN entries : entries[e].space = Space[p] /\ entries[e].text = text}

Advance(call) == [call EXCEPT !.at = @ + 1]
Miss(call, text) == Advance([call EXCEPT !.misses = Append(@, text)])

(* lookup_cached_texts, Cache::lookup and validate_entry, for one text.    *)
Lookup(p) ==
    LET call == calls[p]
        text == call.texts[call.at]
        hit  == CHOOSE e \in Found(p, text) : TRUE
    IN  /\ call.phase = "lookup" /\ call.at <= Len(call.texts)
        /\ Become(p,
              IF text \in DOMAIN call.resolved \cup ToSet(call.misses) THEN Advance(call)
              ELSE IF Found(p, text) = {} THEN Miss(call, text)
              ELSE IF entries[hit].ok
                   THEN Advance([call EXCEPT !.resolved = With(@, text, entries[hit].vector)])
              ELSE [call EXCEPT !.phase = "repair", !.repair = hit])
        /\ UNCHANGED <<file, started, damages>>

(* delete_corrupt_entry; another process may have deleted it before.       *)
Repair(p) ==
    LET call == calls[p] IN
    /\ call.phase = "repair"
    /\ entries' = Without(entries, {call.repair})
    /\ used' = used - Bytes({call.repair} \cap DOMAIN entries)
    /\ Become(p, Miss([call EXCEPT !.phase = "lookup", !.repair = 0], call.texts[call.at]))
    /\ UNCHANGED <<schema, nextEntry, started, damages>>

(* resolve_remote_misses: the endpoint answers (see ProviderClient).       *)
Remote(p) ==
    LET call == calls[p] IN
    /\ call.phase = "lookup" /\ call.at > Len(call.texts)
    /\ Phase(p, IF call.misses = <<>> THEN "assemble" ELSE "publish")
    /\ UNCHANGED <<file, started, damages>>

(* publish_entries: a vector that fits and is not there is inserted.       *)
Inserted(p) ==
    IF Payload[p] > MaxBytes[p] THEN <<>>
    ELSE SelectSeq(calls[p].misses, LAMBDA text : Found(p, text) = {})

(* publish, in one immediate transaction: insert, evict, write the counter.*)
Publish(p) ==
    LET call  == calls[p]
        new   == Inserted(p)
        all   == [e \in DOMAIN entries \cup nextEntry..(nextEntry + Len(new) - 1) |->
                     IF e \in DOMAIN entries THEN entries[e]
                     ELSE [space |-> Space[p], text |-> new[e - nextEntry + 1],
                           vector |-> Vector(p, new[e - nextEntry + 1]),
                           payload |-> Payload[p], ok |-> TRUE]]
        size(E) == MapThenSumSet(LAMBDA e : all[e].payload, E)
        total == used + Len(new) * Payload[p]
        gone  == Evicted(DOMAIN all, size, total, MaxBytes[p])
    IN  /\ call.phase = "publish"
        /\ IF total - size(gone) > MaxBytes[p]
           THEN Phase(p, "failed") /\ UNCHANGED <<entries, used, nextEntry>>
           ELSE /\ entries' = Without(all, gone) /\ used' = total - size(gone)
                /\ nextEntry' = nextEntry + Len(new)
                /\ Become(p, [call EXCEPT !.phase = "assemble",
                                  !.resolved = [t \in DOMAIN @ \cup ToSet(call.misses) |->
                                                    IF t \in DOMAIN @ THEN @[t] ELSE Vector(p, t)]])
        /\ UNCHANGED <<schema, started, damages>>

(* assemble_output                                                         *)
Assemble(p) ==
    LET call == calls[p] IN
    /\ call.phase = "assemble"
    /\ Become(p, [call EXCEPT !.phase = "done", !.at = 1, !.misses = <<>>,
                      !.output = [i \in DOMAIN call.texts |-> call.resolved[call.texts[i]]]])
    /\ UNCHANGED <<file, started, damages>>

(* retry_sqlite runs out of time, the caller cancels or the endpoint       *)
(* fails: an open transaction is rolled back.                              *)
Abort(p) ==
    /\ calls[p].phase \notin {"idle", "done", "failed"}
    /\ Become(p, [calls[p] EXCEPT !.phase = "failed", !.fault = TRUE])
    /\ UNCHANGED <<file, started, damages>>

(* The environment damages the vector of an entry.                         *)
Damage(e) ==
    /\ damages < MaxDamage /\ entries[e].ok
    /\ entries' = [entries EXCEPT ![e].ok = FALSE] /\ damages' = damages + 1
    /\ UNCHANGED <<schema, used, nextEntry, calls, started>>

Next ==
    \/ \E p \in Procs, texts \in UNION {[1..n -> Texts] : n \in 1..MaxTexts} : Begin(p, texts)
    \/ \E p \in Procs : Open(p) \/ Initialize(p) \/ CheckBudget(p) \/ Trim(p) \/ Lookup(p)
                        \/ Repair(p) \/ Remote(p) \/ Publish(p) \/ Assemble(p) \/ Abort(p)
    \/ \E e \in DOMAIN entries : Damage(e)

Spec == Init /\ [][Next]_vars

-----------------------------------------------------------------------------
(* Properties                                                              *)

(* The counter in the metadata is the size of what is stored, whichever    *)
(* processes insert, evict and repair at the same time.                    *)
UsedIsStored == used = Bytes(DOMAIN entries)

(* A call that succeeds returns for every text the vector of its own       *)
(* space, from the cache, from the endpoint or from both.                  *)
OutputIsRight ==
    \A p \in Procs : calls[p].phase = "done" =>
        calls[p].output = [i \in DOMAIN calls[p].texts |-> Vector(p, calls[p].texts[i])]

(* The cache never makes a call fail that the endpoint would have served:  *)
(* not by a race of two first openings, not by its accounting.             *)
FailsOnlyOnFault == \A p \in Procs : calls[p].phase = "failed" => calls[p].fault

(* Whoever fills the cache leaves it within its own budget.                *)
FillsOwnBudget == used' > used => \E p \in Procs : calls'[p] # calls[p] /\ used' <= MaxBytes[p]
FillsWithinBudget == [][FillsOwnBudget]_vars
=============================================================================
