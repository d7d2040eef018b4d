----------------------------- MODULE SortSpill -----------------------------
(***************************************************************************)
(* The ordering barrier of a query: rows are projected one at a time,      *)
(* collected into bounded sort runs (query/spill.rs, SortSpill) or into a  *)
(* distinct table (DistinctSpill), the runs are merged pairwise through    *)
(* two tables, SKIP and LIMIT are applied and the result is handed out in  *)
(* batches (query/mutation/execute/value.rs).  Every buffer is charged     *)
(* against the memory limit of the execution (query/resources.rs).         *)
(*                                                                         *)
(* A row is the position at which the projection produced it; what the     *)
(* sort can tell apart of it (the sort keys, the distinct key and the      *)
(* bytes it owns) is the Kind of that position.                            *)
(***************************************************************************)
EXTENDS Integers, Sequences, FiniteSets, SequencesExt, FiniteSetsExt

CONSTANTS
    Kinds,         \* records [keys: Seq(Int), value, bytes: Nat]
    Shapes,        \* records [distinct, ordered: BOOLEAN, directions, skip, limit]
    MaxRows,       \* bound: rows the projection produces
    Limits,        \* memory limits an execution may be given
    RunRows,       \* SORT_RUN_ROWS
    BatchRows,     \* rows a consumer asks for at a time
    SlotBytes,     \* size of a SortRecord or a row slot
    Factor, Base   \* the serialization allowance: Factor * bytes + Base

VARIABLES
    input,    \* the kind of every row the projection will produce
    shape,    \* the projection: DISTINCT, ORDER BY, SKIP and LIMIT
    limit,    \* the memory limit of the execution
    phase,    \* push, merge, select, deliver, done, failed
    next,     \* the next row to project
    working,  \* bytes the projected row holds while it is pushed
    sort,     \* the SortSpill: chunk, capacity, scratch, ordinal and runs
    seen,     \* the distinct keys already accepted
    merge,    \* the merge: source and target runs, the pair being merged
    output,   \* the sorted or distinct output table
    chosen,   \* the rows selected by SKIP and LIMIT
    batches,  \* the batches handed to the consumer
    cause     \* why the query failed

vars == <<input, shape, limit, phase, next, working, sort, seen, merge, output,
          chosen, batches, cause>>

-----------------------------------------------------------------------------
Bytes(row) == input[row].bytes

Serialization(bytes) == Factor * bytes + Base

\* What a loaded run head, or a decoded row, holds and needs while it is decoded.
HeadHeld(row) == 2 * Bytes(row)
HeadPeak(row) == 2 * Bytes(row) + Serialization(Bytes(row))

NoRow == 0

EmptySort == [chunk |-> <<>>, capacity |-> 0, scratch |-> 0, ordinal |-> 0, runs |-> <<>>]

NoMerge == [source |-> <<>>, target |-> <<>>, first |-> 1,
            pair |-> <<<<>>, <<>>>>, merged |-> <<>>, open |-> FALSE]

SumBytes(records) == FoldLeft(LAMBDA total, r : total + Bytes(r.row), 0, records)

\* The bytes the sort itself holds.
SortHeld(s) == s.scratch + SlotBytes * s.capacity + SumBytes(s.chunk)

HeadOf(run) == IF run = <<>> THEN 0 ELSE HeadHeld(run[1].row)

MergeHeld(m) == IF m.open THEN HeadOf(m.pair[1]) + HeadOf(m.pair[2]) ELSE 0

Used(s) == working + SortHeld(s)

Fits(held, bytes) == held + bytes <= limit

-----------------------------------------------------------------------------
\* Sort keys compare one after the other, each in its own direction.
CompareKeys(left, right) ==
    LET differing == {i \in 1 .. Len(left) : left[i] # right[i]}
        i == Min(differing)
        less == left[i] < right[i]
    IN  IF differing = {} THEN 0
        ELSE IF less # shape.directions[i] THEN -1 ELSE 1

Before(left, right) ==
    LET order == CompareKeys(input[left.row].keys, input[right.row].keys)
    IN  order = -1 \/ (order = 0 /\ left.ordinal < right.ordinal)

\* A run: the chunk in key order, equal keys in the order of their ordinals.
SortedRun(chunk) == SetToSortSeq({chunk[i] : i \in 1 .. Len(chunk)}, Before)

\* flush: the chunk becomes the next run and its buffers are released.
Flushed(s) == [s EXCEPT !.chunk = <<>>, !.capacity = 0, !.scratch = 0,
                        !.runs = Append(@, SortedRun(s.chunk))]

\* reserve: the sort from which a push of the bytes goes on, none when it fails.
Reserved(s, bytes) ==
    IF Fits(Used(s), bytes) THEN {s}
    ELSE IF s.chunk # <<>> /\ Fits(Used(Flushed(s)), bytes) THEN {Flushed(s)}
    ELSE {}

\* reserve_record_storage: the scratch to encode one record, and a free slot.
WithStorage(s, bytes) ==
    LET scratch == Max({s.scratch, 2 * Serialization(bytes)})
        full == Len(s.chunk) = s.capacity
        more == IF full THEN Min({Max({s.capacity, 1}), RunRows - Len(s.chunk)}) ELSE 0
    IN  [s EXCEPT !.scratch = scratch, !.capacity = @ + more]

Stored(s, bytes) ==
    LET direct == WithStorage(s, bytes)
        flushed == WithStorage(Flushed(s), bytes)
    IN  IF Fits(Used(direct), bytes) THEN {direct}
        ELSE IF s.chunk # <<>> /\ Fits(Used(flushed), bytes) THEN {flushed}
        ELSE {}

\* accept_sort_row: a row whose distinct key was seen is dropped.
Accepted(row) == shape.distinct => input[row].value \notin seen

NeedsProducerHeadroom(s, bytes) == ~Fits(Used(s), Serialization(bytes))

Appended(s, row) ==
    [s EXCEPT !.chunk = Append(@, [row |-> row, ordinal |-> s.ordinal]), !.ordinal = @ + 1]

\* push_reserved after its storage is reserved.
AfterPush(s, row) ==
    LET pushed == Appended(s, row)
    IN  IF Len(pushed.chunk) = RunRows \/ NeedsProducerHeadroom(pushed, Bytes(row))
        THEN Flushed(pushed) ELSE pushed

-----------------------------------------------------------------------------
Init ==
    /\ \E n \in 0 .. MaxRows : input \in [1 .. n -> Kinds]
    /\ shape \in Shapes
    /\ limit \in Limits
    /\ phase = "push" /\ next = 1 /\ working = 0
    /\ sort = EmptySort /\ seen = {} /\ merge = NoMerge
    /\ output = <<>> /\ chosen = <<>> /\ batches = <<>> /\ cause = "none"

Fail(why) ==
    /\ phase' = "failed" /\ cause' = why
    /\ working' = 0 /\ sort' = EmptySort /\ merge' = NoMerge
    /\ UNCHANGED <<input, shape, limit, next, seen, output, chosen, batches>>

\* The row, its copy under the alias names, and their entries coexist.
ProjectPeak(row) == 2 * Bytes(row) + Base

\* project_binding: the row and its keys are evaluated and charged.
Project ==
    /\ phase = "push" /\ next <= Len(input) /\ working = 0
    /\ IF Fits(Used(sort), ProjectPeak(next))
       THEN /\ working' = Bytes(next)
            /\ UNCHANGED <<input, shape, limit, phase, next, sort, seen, merge, output,
                           chosen, batches, cause>>
       ELSE Fail("project")

\* SortSpill::push.
Push ==
    /\ phase = "push" /\ working > 0 /\ shape.ordered
    /\ LET bytes == Bytes(next)
           ready == UNION {Stored(s, bytes) : s \in Reserved(sort, bytes)}
       IN  \/ /\ ready = {}
              /\ Fail("push")
           \/ \E s \in ready :
                /\ sort' = IF Accepted(next) THEN AfterPush(s, next) ELSE s
                /\ seen' = IF shape.distinct THEN seen \cup {input[next].value} ELSE seen
                /\ next' = next + 1 /\ working' = 0
                /\ UNCHANGED <<input, shape, limit, phase, merge, output, chosen, batches, cause>>

\* DistinctSpill::push: the first row of every distinct key, in input order.
PushDistinct ==
    /\ phase = "push" /\ working > 0 /\ ~shape.ordered
    /\ IF Fits(working, 2 * Serialization(Bytes(next)))
       THEN /\ output' = IF Accepted(next) THEN Append(output, next) ELSE output
            /\ seen' = seen \cup {input[next].value}
            /\ next' = next + 1 /\ working' = 0
            /\ UNCHANGED <<input, shape, limit, phase, sort, merge, chosen, batches, cause>>
       ELSE Fail("push")

\* finish: the last chunk is flushed, its buffers are released, the merge starts.
Finish ==
    /\ phase = "push" /\ next > Len(input) /\ working = 0
    /\ phase' = IF shape.ordered THEN "merge" ELSE "select"
    /\ LET last == IF sort.chunk = <<>> THEN sort ELSE Flushed(sort)
       IN  merge' = [NoMerge EXCEPT !.source = last.runs]
    /\ sort' = EmptySort
    /\ UNCHANGED <<input, shape, limit, next, working, seen, output, chosen, batches, cause>>

\* merge_run_pair loads the head of each run of the pair.
RunAt(m, i) == IF i <= Len(m.source) THEN m.source[i] ELSE <<>>

LoadFits(held, run) == run = <<>> \/ Fits(held, HeadPeak(run[1].row))

OpenPair ==
    /\ phase = "merge" /\ ~merge.open
    /\ Len(merge.source) <= 2 \/ merge.first <= Len(merge.source)
    /\ LET one == RunAt(merge, merge.first)
           two == RunAt(merge, merge.first + 1)
       IN  IF LoadFits(0, one) /\ LoadFits(HeadOf(one), two)
           THEN /\ merge' = [merge EXCEPT !.pair = <<one, two>>, !.merged = <<>>, !.open = TRUE]
                /\ UNCHANGED <<input, shape, limit, phase, next, working, sort, seen, output,
                               chosen, batches, cause>>
           ELSE Fail("merge")

\* least_head_index: the smaller of the two heads, the first on a tie.
LeastHead(pair) ==
    IF pair[1] = <<>> THEN 2
    ELSE IF pair[2] = <<>> THEN 1
    ELSE IF Before(pair[2][1], pair[1][1]) THEN 2 ELSE 1

\* One head is written and the next record of its run is loaded.
EmitHead ==
    /\ phase = "merge" /\ merge.open /\ merge.pair # <<<<>>, <<>>>>
    /\ LET i == LeastHead(merge.pair)
           rest == Tail(merge.pair[i])
       IN  IF LoadFits(HeadOf(merge.pair[3 - i]), rest)
           THEN /\ merge' = [merge EXCEPT !.pair[i] = rest,
                                          !.merged = Append(@, merge.pair[i][1])]
                /\ UNCHANGED <<input, shape, limit, phase, next, working, sort, seen, output,
                               chosen, batches, cause>>
           ELSE Fail("merge")

\* A pair is merged: the result is the output, or the next run of the target.
ClosePair ==
    /\ phase = "merge" /\ merge.open /\ merge.pair = <<<<>>, <<>>>>
    /\ IF Len(merge.source) <= 2
       THEN /\ output' = [i \in 1 .. Len(merge.merged) |-> merge.merged[i].row]
            /\ merge' = NoMerge /\ phase' = "select"
       ELSE /\ merge' = [merge EXCEPT !.target = Append(@, merge.merged), !.open = FALSE,
                                      !.first = @ + 2, !.merged = <<>>]
            /\ UNCHANGED <<output, phase>>
    /\ UNCHANGED <<input, shape, limit, next, working, sort, seen, chosen, batches, cause>>

\* A pass is over: source and target swap, and the new target is emptied.
SwapTables ==
    /\ phase = "merge" /\ ~merge.open
    /\ Len(merge.source) > 2 /\ merge.first > Len(merge.source)
    /\ merge' = [NoMerge EXCEPT !.source = merge.target]
    /\ UNCHANGED <<input, shape, limit, phase, next, working, sort, seen, output, chosen,
                   batches, cause>>

\* select_spill_output: SKIP and LIMIT over the output, row by row.
Select ==
    /\ phase = "select"
    /\ LET needed == {i \in 1 .. Len(output) : i <= shape.skip + shape.limit}
           kept == {i \in needed : i > shape.skip}
           fits == /\ \A i \in needed : Fits(0, HeadPeak(output[i]))
                   /\ \A i \in kept : Fits(HeadHeld(output[i]), Serialization(Bytes(output[i])))
       IN  IF shape.limit = 0 \/ fits
           THEN /\ chosen' = IF shape.limit = 0 THEN <<>>
                             ELSE SubSeq(output, shape.skip + 1, shape.skip + Cardinality(kept))
                /\ phase' = "deliver"
                /\ UNCHANGED <<input, shape, limit, next, working, sort, seen, merge, output,
                               batches, cause>>
           ELSE Fail("select")

Delivered == FlattenSeq(batches)

\* next_batch: up to BatchRows rows, all of them held at once.
NextBatch ==
    /\ phase = "deliver" /\ Len(Delivered) < Len(chosen)
    /\ LET done == Len(Delivered)
           count == Min({BatchRows, Len(chosen) - done})
           rows == SubSeq(chosen, done + 1, done + count)
           held(k) == SlotBytes * BatchRows
                      + FoldLeft(LAMBDA n, r : n + HeadHeld(r), 0, SubSeq(rows, 1, k))
       IN  IF \A k \in 1 .. count : Fits(held(k - 1), HeadPeak(rows[k]))
           THEN /\ batches' = Append(batches, rows)
                /\ UNCHANGED <<input, shape, limit, phase, next, working, sort, seen, merge,
                               output, chosen, cause>>
           ELSE Fail("batch")

Complete ==
    /\ phase = "deliver" /\ Len(Delivered) = Len(chosen)
    /\ phase' = "done"
    /\ UNCHANGED <<input, shape, limit, next, working, sort, seen, merge, output, chosen,
                   batches, cause>>

\* control.check: the execution is interrupted at any of its checks.
Interrupt == phase \notin {"done", "failed"} /\ Fail("interrupted")

Step == \/ Project \/ Push \/ PushDistinct \/ Finish \/ OpenPair \/ EmitHead \/ ClosePair
        \/ SwapTables \/ Select \/ NextBatch \/ Complete

Next == Step \/ Interrupt

\* One thread drives the barrier: it goes on until it ends or is interrupted.
Spec == Init /\ [][Next]_vars /\ WF_vars(Step)

-----------------------------------------------------------------------------
Positions == 1 .. Len(input)

\* The rows the barrier keeps: all of them, or the first of every distinct key.
Kept == {i \in Positions :
            shape.distinct => \A j \in 1 .. i - 1 : input[j].value # input[i].value}

Precedes(i, j) ==
    LET order == IF shape.ordered THEN CompareKeys(input[i].keys, input[j].keys) ELSE 0
    IN  order = -1 \/ (order = 0 /\ i < j)

\* The position of a kept row in the answer, counted and not sorted.
Rank(i) == 1 + Cardinality({j \in Kept : Precedes(j, i)})

Expected ==
    LET place == [r \in 1 .. Cardinality(Kept) |-> CHOOSE i \in Kept : Rank(i) = r]
    IN  SubSeq(place, shape.skip + 1, Min({shape.skip + shape.limit, Cardinality(Kept)}))

(* The rows handed to the consumer are, at every moment, a beginning of the  *)
(* stable order of the kept rows after SKIP and LIMIT, and all of it when    *)
(* the barrier is done, however the rows were cut into runs and merged       *)
(* (flush_sort_run, merge_sort_runs, select_spill_output, next_batch).       *)
AnswerIsStableOrder ==
    /\ batches # <<>> => IsPrefix(Delivered, Expected)
    /\ phase = "done" => Delivered = Expected

(* The bytes charged never exceed the limit of the execution, whatever is    *)
(* held at the moment: projected row, chunk, scratch, slots or run heads.    *)
WithinLimit == working + SortHeld(sort) + MergeHeld(merge) <= limit

(* Pressure is never fatal while spilling can relieve it: a push fails only  *)
(* for a row that would not fit into an empty sort, a merge only when the    *)
(* heads of two rows do not fit together (push, reserve_record_storage,      *)
(* merge_run_pair).                                                          *)
NeedOf(row) == 2 * Bytes(row) + 2 * Serialization(Bytes(row)) + SlotBytes

PressureIsRelieved ==
    /\ (cause = "push" /\ shape.ordered) => NeedOf(next) > limit
    /\ cause = "merge" => \E i, j \in Positions : HeadHeld(i) + HeadPeak(j) > limit

\* The producer ran out of memory for a row no larger than the one before it.
Starved == /\ cause = "project" /\ shape.ordered /\ next > 1
           /\ Bytes(next) <= Bytes(next - 1) /\ ProjectPeak(next) <= limit

(* The producer materializes a row before the sort can react to pressure:    *)
(* after a row was accepted there is always room to project one that is no   *)
(* larger (needs_producer_headroom).                                         *)
ProducerIsNotStarved == Starved => next - 1 \notin Kept

(* A barrier that is not interrupted ends: the passes of the merge halve the *)
(* number of runs until one pair is left.                                    *)
Ended == phase \in {"done", "failed"}
BarrierEnds == <>Ended

=============================================================================
