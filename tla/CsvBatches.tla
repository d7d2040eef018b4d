----------------------------- MODULE CsvBatches -----------------------------
(***************************************************************************)
(* LOAD CSV ... CALL { ... } IN TRANSACTIONS: the CSV file is read one     *)
(* record at a time, the clauses up to the CALL turn a record into any     *)
(* number of rows, and the pending rows run as soon as a batch is full.    *)
(* With a projection over all the input in between, the rows are collected *)
(* first.  A record can fail, after batches before it were committed.      *)
(***************************************************************************)
EXTENDS Integers, Sequences, SequencesExt

CONSTANTS
    MaxRecords,  \* bound on the CSV records
    MaxPerRecord,\* bound on the rows of a record
    BatchSize    \* OF n ROWS

VARIABLES
    input,     \* [records: rows of each record, failsAt, global, error, bad]
    next,      \* the next record
    pending,   \* the rows that wait for a full batch
    executed,  \* the batches that were started: [rows, ok]
    output,    \* the rows of the result: [row, started, committed]
    broken,    \* ON ERROR BREAK has ended the call
    status

vars == <<input, next, pending, executed, output, broken, status>>

(* Rows are numbered over the whole file.                                  *)
RowsBefore(records, n) == FoldSeq(+, 0, SubSeq(records, 1, n - 1))
RowsOf(n) == [i \in 1..input.records[n] |-> RowsBefore(input.records, n) + i]
RowCount == RowsBefore(input.records, Len(input.records) + 1)

(* failsAt: the record that cannot be read (0: none); bad: the rows whose  *)
(* batch fails.                                                            *)
Inputs(records) ==
    [records : {records}, failsAt : 0..Len(records), global : BOOLEAN,
     error : {"fail", "continue", "break"},
     bad : SUBSET (1..RowsBefore(records, Len(records) + 1))]

Init ==
    /\ \E n \in 0..MaxRecords : \E records \in [1..n -> 0..MaxPerRecord] : input \in Inputs(records)
    /\ next = 1 /\ pending = <<>> /\ executed = <<>> /\ output = <<>>
    /\ broken = FALSE /\ status = "reading"

Fails(rows) == \E i \in DOMAIN rows : rows[i] \in input.bad

Reported(rows, started, committed) ==
    [i \in DOMAIN rows |-> [row |-> rows[i], started |-> started, committed |-> committed]]

-----------------------------------------------------------------------------
(* Mutant: the last rows of the pending ones make a batch.                 *)
TakeLast(rows, k) == SubSeq(rows, Len(rows) - BatchSize + 1, Len(rows))

(* The k-th full batch of the pending rows.                                *)
Batch(rows, k) == SubSeq(rows, (k - 1) * BatchSize + 1, k * BatchSize)

(* How many of the batches run: all, or up to the first one that fails     *)
(* when that ends the call.                                                *)
Started(batches) ==
    LET failed == {k \in DOMAIN batches : Fails(batches[k])} IN
    IF failed = {} \/ input.error = "continue" THEN Len(batches)
    ELSE CHOOSE k \in failed : \A j \in failed : k <= j

(* What the batches that ran leave behind; leftover: rows that no batch    *)
(* took.                                                                   *)
RunBatches(batches, leftover) ==
    LET n   == Started(batches)
        ran == SubSeq(batches, 1, n)
        broke == n > 0 /\ Fails(batches[n]) /\ input.error = "break"
        stop  == n > 0 /\ Fails(batches[n]) /\ input.error = "fail"
        rest  == FlattenSeq(SubSeq(batches, n + 1, Len(batches))) \o leftover
    IN  /\ executed' = executed \o [k \in DOMAIN ran |-> [rows |-> ran[k], ok |-> ~ Fails(ran[k])]]
        /\ status' = IF stop THEN "error" ELSE status
        /\ broken' = broke
        /\ output' = IF stop THEN output
                     ELSE output \o FlattenSeq([k \in DOMAIN ran |-> Reported(ran[k], TRUE, ~ Fails(ran[k]))])
                                 \o (IF broke THEN Reported(rest, FALSE, FALSE) ELSE <<>>)
        /\ pending' = IF broke THEN <<>> ELSE leftover

(* append_csv_prefix and flush_complete_csv_batches                        *)
AppendPrefix(rows) ==
    IF broken
    THEN /\ output' = output \o Reported(rows, FALSE, FALSE)
         /\ UNCHANGED <<pending, executed, broken, status>>
    ELSE LET all  == pending \o rows
             full == Len(all) \div BatchSize
         IN  RunBatches([k \in 1..full |-> Batch(all, k)], SubSeq(all, full * BatchSize + 1, Len(all)))

(* stream_csv_outer: one record and the clauses after it.                  *)
ReadRecord ==
    /\ status = "reading" /\ next <= Len(input.records) /\ next # input.failsAt
    /\ next' = next + 1
    /\ IF input.global
       THEN pending' = pending \o RowsOf(next) /\ UNCHANGED <<executed, output, broken, status>>
       ELSE AppendPrefix(RowsOf(next))
    /\ UNCHANGED input

(* The record cannot be read: what was committed stays.                    *)
RecordFails ==
    /\ status = "reading" /\ next = input.failsAt
    /\ status' = "error"
    /\ UNCHANGED <<input, next, pending, executed, output, broken>>

AtEnd == status = "reading" /\ next > Len(input.records)

(* materialize_global_csv_prefix gives all rows at once.                   *)
FlushGlobal ==
    /\ AtEnd /\ input.global /\ Len(pending) >= BatchSize
    /\ LET full == Len(pending) \div BatchSize
       IN  RunBatches([k \in 1..full |-> Batch(pending, k)], SubSeq(pending, full * BatchSize + 1, Len(pending)))
    /\ UNCHANGED <<input, next>>

Ready == AtEnd /\ (input.global => Len(pending) < BatchSize)

(* finish_pending_csv_batch: what is left makes a short batch.             *)
FinishPending ==
    /\ Ready /\ ~ broken /\ pending # <<>>
    /\ RunBatches(<<pending>>, <<>>)
    /\ UNCHANGED <<input, next>>

Finish ==
    /\ Ready /\ (broken \/ pending = <<>>)
    /\ status' = "done"
    /\ UNCHANGED <<input, next, pending, executed, output, broken>>

Next == ReadRecord \/ RecordFails \/ FlushGlobal \/ FinishPending \/ Finish

Spec == Init /\ [][Next]_vars

-----------------------------------------------------------------------------
(* Properties                                                              *)

(* The batches are those of the whole input cut into pieces of the batch   *)
(* size, wherever the records end.                                         *)
SameAsSliced ==
    \A k \in DOMAIN executed :
        executed[k].rows = [i \in DOMAIN executed[k].rows |-> (k - 1) * BatchSize + i]
            /\ (k < Len(executed) => Len(executed[k].rows) = BatchSize)

(* Reading is incremental: between records less than a batch is pending,   *)
(* unless the input is needed as a whole.                                  *)
PendingIsBounded ==
    status = "reading" /\ ~ input.global => Len(pending) < BatchSize

(* Each row that was read is reported once, in order, with what became of  *)
(* its batch; a query that ends has reported every row of the file.        *)
ReportedOnce ==
    /\ \A i \in DOMAIN output : output[i].row = i
    /\ status = "done" => Len(output) = RowCount
    /\ {output[i].row : i \in {j \in DOMAIN output : output[j].committed}}
           \subseteq UNION {Range(executed[k].rows) : k \in {j \in DOMAIN executed : executed[j].ok}}

(* With a projection over all the input, a file that cannot be read to its *)
(* end starts no batch at all.                                             *)
GlobalIsAllOrNothing ==
    input.global /\ input.failsAt # 0 => executed = <<>>
=============================================================================
