--------------------------- MODULE InTransactions ---------------------------
(***************************************************************************)
(* CALL { ... } IN TRANSACTIONS: the input rows are taken in batches, each *)
(* executed in an SQLite transaction of its own on the head the branch has *)
(* then, with ON ERROR FAIL, CONTINUE, BREAK or RETRY, beside another      *)
(* connection that writes to the branch and a caller that pulls rows and   *)
(* may stop at any time.                                                   *)
(***************************************************************************)
EXTENDS Integers, Sequences, SequenceTheorems, TLAPS

CONSTANTS
    MaxRows,     \* bound on the input rows
    BatchSize,   \* OF n ROWS
    MaxOther,    \* bound on the commits of the other connection
    Specs        \* the forms of the clause and of what follows it

Modes == {"fail", "continue", "break"}

(* retry: ON ERROR RETRY ... THEN error; policy: what happens to the rows  *)
(* (TransactionOutputPolicy); mutates: the subquery writes.                *)
AllSpecs == [error : Modes, retry : BOOLEAN, mutates : BOOLEAN,
             policy : {"immediate", "deferred", "outerWrite"}]

VARIABLES
    spec,      \* the clause
    rows,      \* the number of input rows
    bad,       \* the rows whose batch fails on its own
    branch,    \* the commits of the branch: [by, rows]
    phase,     \* what the cursor does next
    taken,     \* how many input rows were pulled
    batch,     \* the rows of the current batch
    base,      \* the head the batch was given
    attempt,   \* whether the batch was retried
    expired,   \* whether the retry time is over
    output     \* the status rows: [row, started, committed]

vars == <<spec, rows, bad, branch, phase, taken, batch, base, attempt, expired, output>>
input == <<spec, rows, bad>>

Ended == {"done", "failed", "cancelled"}

Init ==
    /\ spec \in Specs /\ rows \in 0..MaxRows /\ bad \in SUBSET (1..rows)
    /\ branch = <<>> /\ phase = "pull" /\ taken = 0 /\ batch = <<>> /\ base = 0
    /\ attempt = FALSE /\ expired = FALSE /\ output = <<>>

RowsIn(part) == {part[i] : i \in DOMAIN part}

Status(part, started, committed) ==
    [i \in DOMAIN part |-> [row |-> part[i], started |-> started, committed |-> committed]]

-----------------------------------------------------------------------------
(* Another connection commits to the branch.                               *)
OtherWrites ==
    /\ Len(SelectSeq(branch, LAMBDA c : c.by = "other")) < MaxOther
    /\ phase \notin Ended
    /\ branch' = Append(branch, [by |-> "other", rows |-> {}])
    /\ UNCHANGED <<input, phase, taken, batch, base, attempt, expired, output>>

(* Mutant: a batch starts with the last row of the one before.             *)
PullOverlapping ==
    /\ phase = "pull"
    /\ LET last == IF taken + BatchSize < rows THEN taken + BatchSize ELSE rows
       IN  /\ taken' = last
           /\ batch' = [i \in 1..last - taken |-> IF taken = 0 THEN i ELSE taken + i - 1]
           /\ phase' = IF taken = rows THEN "finish" ELSE "start"
    /\ attempt' = FALSE /\ expired' = FALSE
    /\ UNCHANGED <<input, branch, base, output>>

(* ensure_batch_started and fill_pending_batch: the next rows, or the end  *)
(* of the input.                                                           *)
PullBatch ==
    /\ phase = "pull"
    /\ LET last == IF taken + BatchSize < rows THEN taken + BatchSize ELSE rows
       IN  /\ taken' = last
           /\ batch' = [i \in 1..last - taken |-> taken + i]
           /\ phase' = IF taken = rows THEN "finish" ELSE "start"
    /\ attempt' = FALSE /\ expired' = FALSE
    /\ UNCHANGED <<input, branch, base, output>>

(* Every attempt reads the head again, outside of any transaction.         *)
StartBatch ==
    /\ phase = "start"
    /\ base' = Len(branch) /\ phase' = "run"
    /\ UNCHANGED <<input, branch, taken, batch, attempt, expired, output>>

Fails == RowsIn(batch) \cap bad # {}

(* Mutant: the head is not compared.                                       *)
HeadIgnored == TRUE

(* commit_layer inside BEGIN IMMEDIATE.                                    *)
HeadUnmoved == Len(branch) = base

(* execute_owned_sqlite_transaction to its COMMIT.                         *)
CommitBatch ==
    /\ phase = "run" /\ ~ Fails /\ (spec.mutates => HeadUnmoved)
    /\ branch' = IF spec.mutates THEN Append(branch, [by |-> "batch", rows |-> RowsIn(batch)]) ELSE branch
    /\ output' = output \o Status(batch, TRUE, TRUE)
    /\ phase' = IF spec.policy = "immediate" THEN "deliver" ELSE "pull"
    /\ UNCHANGED <<input, taken, batch, base, attempt, expired>>

OtherIsWriting == Len(SelectSeq(branch, LAMBDA c : c.by = "other")) < MaxOther

(* BUSY at BEGIN IMMEDIATE while the other connection writes, or           *)
(* BRANCH_HEAD_MOVED from the compare-and-move.                            *)
Transient ==
    phase = "run" /\ (OtherIsWriting \/ (~ Fails /\ spec.mutates /\ ~ HeadUnmoved))

(* The time limit of ON ERROR RETRY runs out.                              *)
Expire ==
    /\ spec.retry /\ phase \in {"start", "run"} /\ ~ expired
    /\ expired' = TRUE
    /\ UNCHANGED <<input, branch, phase, taken, batch, base, attempt, output>>

(* One retry is always made; later ones while there is time.               *)
Retry ==
    /\ Transient /\ spec.retry /\ (~ attempt \/ ~ expired)
    /\ attempt' = TRUE /\ phase' = "start"
    /\ UNCHANGED <<input, branch, taken, batch, base, expired, output>>

(* append_failed_batch: where the policy on errors leads.                  *)
AfterFailure ==
    CASE spec.error = "fail"     -> "failed"
      [] spec.error = "break"    -> "skip"
      [] spec.error = "continue" -> IF spec.policy = "immediate" THEN "deliver" ELSE "pull"

FailBatch ==
    /\ phase = "run"
    /\ Fails \/ (Transient /\ (~ spec.retry \/ (attempt /\ expired)))
    /\ output' = IF spec.error = "fail" THEN output ELSE output \o Status(batch, TRUE, FALSE)
    /\ phase' = AfterFailure
    /\ UNCHANGED <<input, branch, taken, batch, base, attempt, expired>>

(* produce_unstarted_rows: after BREAK the rest of the input is reported   *)
(* but not run.                                                            *)
SkipRest ==
    /\ phase = "skip"
    /\ taken' = rows
    /\ output' = output \o Status([i \in 1..rows - taken |-> taken + i], FALSE, FALSE)
    /\ phase' = "finish"
    /\ UNCHANGED <<input, branch, batch, base, attempt, expired>>

(* drain_output: the caller takes the rows of the batch.                   *)
Deliver ==
    /\ phase = "deliver"
    /\ phase' = "pull"
    /\ UNCHANGED <<input, branch, taken, batch, base, attempt, expired, output>>

(* finish_input; finish_outer_write pins the head and commits once more,   *)
(* without a retry.                                                        *)
Finish ==
    /\ phase = "finish" /\ spec.policy # "outerWrite"
    /\ phase' = "done"
    /\ UNCHANGED <<input, branch, taken, batch, base, attempt, expired, output>>

PinOuterWrite ==
    /\ phase = "finish" /\ spec.policy = "outerWrite"
    /\ base' = Len(branch) /\ phase' = "outer"
    /\ UNCHANGED <<input, branch, taken, batch, attempt, expired, output>>

OuterWrite ==
    /\ phase = "outer"
    /\ IF HeadUnmoved
       THEN branch' = Append(branch, [by |-> "outer", rows |-> 1..rows]) /\ phase' = "done"
       ELSE branch' = branch /\ phase' = "failed"
    /\ UNCHANGED <<input, taken, batch, base, attempt, expired, output>>

(* The caller closes the cursor or interrupts; a batch that is executing   *)
(* is rolled back.                                                         *)
Cancel ==
    /\ phase \notin Ended
    /\ phase' = "cancelled"
    /\ UNCHANGED <<input, branch, taken, batch, base, attempt, expired, output>>

Advance ==
    \/ PullBatch \/ StartBatch \/ CommitBatch \/ Retry \/ FailBatch \/ SkipRest
    \/ Deliver \/ Finish \/ PinOuterWrite \/ OuterWrite

Next == Advance \/ OtherWrites \/ Expire \/ Cancel

Spec == Init /\ [][Next]_vars

(* The caller keeps pulling and time goes on.                              *)
LiveSpec == Spec /\ WF_vars(Advance) /\ WF_vars(Expire)

-----------------------------------------------------------------------------
(* Properties                                                              *)

Batches == {i \in DOMAIN branch : branch[i].by = "batch"}

(* However often a batch is retried, its rows are written once, by one     *)
(* commit; batches are committed in the order of the input.                *)
WrittenOnceInOrder ==
    \A i, j \in Batches : i < j =>
        \A r \in branch[i].rows, s \in branch[j].rows : r < s

(* No other commit comes between the head a batch saw and its own commit.  *)
CommitsOnItsBase ==
    \A i \in DOMAIN branch' \ DOMAIN branch : branch'[i].by \in {"batch", "outer"} => base = i - 1
BatchesSeeTheHead == [][CommitsOnItsBase]_vars

(* REPORT STATUS tells the truth: a row reported as committed is in a      *)
(* commit of the branch and no other row is; rows are reported once each   *)
(* and in order, up to the batch that ended the query.                     *)
StatusIsTrue ==
    /\ \A i \in DOMAIN output : output[i].row = i
    /\ spec.mutates =>
           {output[i].row : i \in {j \in DOMAIN output : output[j].committed}}
               = UNION {branch[i].rows : i \in Batches}
    /\ phase = "done" => Len(output) = rows

(* What the mode promises: after the first batch that failed, FAIL runs no *)
(* other and ends the query, BREAK runs no other and reports the rest as   *)
(* not started, CONTINUE runs every batch.                                 *)
ModeIsKept ==
    \A i, j \in DOMAIN output : output[i].started /\ ~ output[i].committed /\ i < j =>
        CASE spec.error = "fail"     -> FALSE
          [] spec.error = "break"    -> ~ output[j].committed /\
                                        ((j - 1) \div BatchSize > (i - 1) \div BatchSize => ~ output[j].started)
          [] spec.error = "continue" -> output[j].started

(* The query ends, although the other connection keeps moving the branch   *)
(* and every attempt may meet it.                                          *)
Over == phase \in Ended
QueryEnds == <>Over

-----------------------------------------------------------------------------
(* Theorems                                                                *)

(* What the clause can be.                                                 *)
Parameters == Specs \subseteq AllSpecs /\ MaxRows \in Nat /\ BatchSize \in Nat \ {0}

Committed(out) == {out[i].row : i \in {j \in DOMAIN out : out[j].committed}}
StatusRow == [row : Nat, started : BOOLEAN, committed : BOOLEAN]

(* The rows before the current batch are settled: reported in order, and   *)
(* written by the commits of their batches and no other.                   *)
Shape ==
    /\ spec \in AllSpecs /\ rows \in Nat /\ taken \in 0..rows
    /\ branch \in Seq([by : {"batch", "outer", "other"}, rows : SUBSET (1..rows)])
    /\ phase \in {"pull", "start", "run", "deliver", "skip", "finish", "outer"} \cup Ended
    /\ output \in Seq(StatusRow) /\ batch \in Seq(Nat) /\ Len(batch) <= taken
    /\ phase \in {"start", "run"} =>
           \A i \in 1..Len(batch) : batch[i] = taken - Len(batch) + i

Settled ==
    /\ \A i \in DOMAIN output : output[i].row = i
    /\ \A i \in Batches : branch[i].rows \subseteq 1..Len(output)
    /\ WrittenOnceInOrder
    /\ spec.mutates => Committed(output) = UNION {branch[i].rows : i \in Batches}
    /\ phase \in {"start", "run"} => Len(output) = taken - Len(batch)
    /\ phase \in {"pull", "deliver", "skip", "finish", "outer", "done"} => Len(output) = taken
    /\ phase \in {"finish", "outer", "done"} => taken = rows

InOrder == Shape /\ Settled

(* Batches start at multiples of their size; what became of the first one  *)
(* that failed.                                                            *)
AtBatch(n) == \E k \in Nat : n = k * BatchSize
Failed(i) == output[i].started /\ ~ output[i].committed

Aligned ==
    /\ phase \in {"pull", "deliver"} => taken = rows \/ AtBatch(taken)
    /\ phase \in {"start", "run"} =>
           AtBatch(taken - Len(batch)) /\ Len(batch) <= BatchSize /\ (taken = rows \/ Len(batch) = BatchSize)

Moded ==
    /\ spec.error = "fail" => \A i \in DOMAIN output : ~ Failed(i)
    /\ spec.error = "continue" => phase # "skip" /\ \A i \in DOMAIN output : output[i].started
    /\ spec.error = "break" =>
           /\ phase \in {"pull", "start", "run", "deliver"} => \A i \in DOMAIN output : ~ Failed(i)
           /\ \A i, j \in DOMAIN output : Failed(i) /\ i < j =>
                  /\ ~ output[j].committed
                  /\ output[j].started => (i - 1) \div BatchSize = (j - 1) \div BatchSize

InMode == InOrder /\ Aligned /\ Moded

(* A function on 1..n is a sequence.                                       *)
LEMMA AsSequence ==
    ASSUME NEW S, NEW n \in Nat, NEW f \in [1..n -> S]
    PROVE  f \in Seq(S) /\ Len(f) = n
<1>1. f \in Seq(S) /\ DOMAIN f = 1..n
  OBVIOUS
<1>2. Len(f) \in Nat /\ DOMAIN f = 1..Len(f)
  BY <1>1, LenProperties
<1> QED
  BY <1>1, <1>2

(* Reports that go on where the others end.                                *)
LEMMA Reported ==
    ASSUME InOrder, NEW part \in Seq(Nat), \A i \in 1..Len(part) : part[i] = Len(output) + i,
           NEW started \in BOOLEAN, NEW committed \in BOOLEAN,
           output' = output \o Status(part, started, committed)
    PROVE  /\ output' \in Seq(StatusRow) /\ Len(output') = Len(output) + Len(part)
           /\ \A i \in DOMAIN output' : output'[i].row = i
           /\ Committed(output') = Committed(output) \cup (IF committed THEN RowsIn(part) ELSE {})
           /\ \A i \in DOMAIN output' :
                  \/ i \in DOMAIN output /\ output'[i] = output[i]
                  \/ /\ \E j \in 1..Len(part) : i = Len(output) + j
                     /\ output'[i].started = started /\ output'[i].committed = committed
<1> DEFINE out == output
           new == output'
<1>a. /\ out \in Seq(StatusRow) /\ \A i \in DOMAIN out : out[i].row = i
      /\ \A i \in 1..Len(part) : part[i] = Len(out) + i
  BY DEF InOrder, Shape, Settled
<1>b. new = out \o Status(part, started, committed)
  OBVIOUS
<1> HIDE DEF out, new
<1> DEFINE st == Status(part, started, committed)
<1>1. Len(part) \in Nat /\ DOMAIN part = 1..Len(part) /\ \A i \in 1..Len(part) : part[i] \in Nat
  BY LenProperties
<1>2. \A i \in 1..Len(part) :
          st[i] = [row |-> part[i], started |-> started, committed |-> committed]
  BY <1>1, Zenon DEF Status
<1>3. /\ st \in Seq(StatusRow) /\ Len(st) = Len(part)
      /\ \A i \in 1..Len(part) :
             st[i].row = part[i] /\ st[i].started = started /\ st[i].committed = committed
  <2>1. \A i \in 1..Len(part) :
            [row |-> part[i], started |-> started, committed |-> committed] \in StatusRow
    BY <1>1, Zenon DEF StatusRow
  <2>2. st \in [1..Len(part) -> StatusRow]
    BY <1>1, <2>1 DEF Status
  <2>3. ASSUME NEW i \in 1..Len(part)
        PROVE  st[i].row = part[i] /\ st[i].started = started /\ st[i].committed = committed
    <3> DEFINE r == [row |-> part[i], started |-> started, committed |-> committed]
    <3>1. r.row = part[i] /\ r.started = started /\ r.committed = committed
      OBVIOUS
    <3>2. st[i] = r
      BY <1>2
    <3> HIDE DEF r, st
    <3> QED
      BY <3>1, <3>2, Zenon
  <2> HIDE DEF st
  <2>4. st \in Seq(StatusRow) /\ Len(st) = Len(part)
    BY <1>1, <2>2, AsSequence, Zenon
  <2> QED
    BY <2>3, <2>4
<1> DEFINE m == Len(out)
           n == Len(part)
<1>4. new = out \o st
  BY <1>b, Zenon DEF st
<1> HIDE DEF st
<1>5. /\ new \in Seq(StatusRow) /\ Len(new) = m + n /\ DOMAIN new = 1..m + n
      /\ m \in Nat /\ n \in Nat /\ DOMAIN out = 1..m /\ DOMAIN part = 1..n
      /\ \A i \in 1..m + n : new[i] = IF i <= m THEN out[i] ELSE st[i - m]
  <2>1. /\ new \in Seq(StatusRow) /\ Len(new) = m + n
        /\ \A i \in 1..m + n : new[i] = IF i <= m THEN out[i] ELSE st[i - m]
    <3>1. /\ out \o st \in Seq(StatusRow) /\ Len(out \o st) = Len(out) + Len(st)
          /\ \A i \in 1..Len(out) + Len(st) : (out \o st)[i] = IF i <= Len(out) THEN out[i] ELSE st[i - Len(out)]
      <4>1. st \in Seq(StatusRow)
        BY <1>3, Zenon
      <4> QED
        BY <4>1, <1>a, ConcatProperties, Zenon
    <3>2. Len(st) = n
      BY <1>3, Zenon
    <3> QED
      BY <1>4, <3>1, <3>2, Zenon
  <2>2. m \in Nat /\ DOMAIN out = 1..m
    BY <1>a, LenProperties, Zenon
  <2>3. DOMAIN new = 1..Len(new)
    BY <2>1, LenProperties, Zenon
  <2> QED
    BY <1>1, <2>1, <2>2, <2>3, Zenon
<1> HIDE DEF m, n
<1>6. /\ \A i \in 1..m : i \in 1..m + n /\ new[i] = out[i]
      /\ \A i \in 1..n : m + i \in 1..m + n /\ new[m + i] = st[i]
      /\ \A i \in 1..m + n : i \in 1..m \/ \E j \in 1..n : i = m + j
  <2>1. ASSUME NEW i \in 1..n
        PROVE  m + i \in 1..m + n /\ ~ (m + i <= m) /\ (m + i) - m = i
    BY <1>5
  <2>2. ASSUME NEW i \in 1..m
        PROVE  i \in 1..m + n /\ i <= m
    BY <1>5
  <2>3. ASSUME NEW i \in 1..m + n, i \notin 1..m
        PROVE  \E j \in 1..n : i = m + j
    <3>1. i - m \in 1..n /\ i = m + (i - m)
      BY <1>5, <2>3
    <3> QED
      BY <3>1
  <2> QED
    BY <1>5, <2>1, <2>2, <2>3, Zenon
<1>7. \A i \in 1..n :
          new[m + i].row = part[i] /\ new[m + i].started = started /\ new[m + i].committed = committed
  <2> TAKE i \in 1..n
  <2>1. new[m + i] = st[i]
    BY <1>6, Zenon
  <2>2. st[i].row = part[i] /\ st[i].started = started /\ st[i].committed = committed
    BY <1>3, Zenon DEF n
  <2> QED
    BY <2>1, <2>2, Zenon
<1>8. \A i \in DOMAIN new : new[i].row = i
  <2>1. \A i \in 1..n : part[i] = m + i
    BY <1>a DEF m, n
  <2>2. \A i \in 1..m : new[i].row = i
    BY <1>a, <1>5, <1>6, Zenon
  <2>3. ASSUME NEW i \in 1..n
        PROVE  new[m + i].row = m + i
    BY <1>7, <2>1, Zenon
  <2>4. ASSUME NEW i \in DOMAIN new, NEW j \in 1..n, i = m + j
        PROVE  new[i].row = i
    BY <2>3, <2>4, Zenon
  <2> SUFFICES ASSUME NEW i \in DOMAIN new
               PROVE  new[i].row = i
    OBVIOUS
  <2>5. i \in 1..m \/ \E j \in 1..n : i = m + j
    BY <1>5, <1>6, Zenon
  <2> QED
    BY <2>2, <2>4, <2>5, Zenon
<1>9. Committed(new) \subseteq Committed(out) \cup (IF committed THEN RowsIn(part) ELSE {})
  <2> DEFINE Both == Committed(out) \cup (IF committed THEN RowsIn(part) ELSE {})
  <2>1. ASSUME NEW i \in 1..m, new[i].committed
        PROVE  new[i].row \in Committed(out)
    BY <2>1, <1>5, <1>6, Zenon DEF Committed
  <2>2. ASSUME NEW j \in 1..n, new[m + j].committed
        PROVE  committed /\ new[m + j].row \in RowsIn(part)
    <3>1. new[m + j].row = part[j] /\ new[m + j].committed = committed
      BY <1>7, Zenon
    <3>2. part[j] \in RowsIn(part)
      BY <1>5, Zenon DEF RowsIn
    <3>3. committed
      BY <3>1, <2>2, Zenon
    <3> QED
      BY <3>1, <3>2, <3>3, Zenon
  <2>3. ASSUME NEW i \in DOMAIN new, new[i].committed
        PROVE  new[i].row \in Both
    <3>1. CASE i \in 1..m
      BY <3>1, <2>1, <2>3, Zenon
    <3>2. ASSUME NEW j \in 1..n, i = m + j
          PROVE  new[i].row \in Both
      BY <3>2, <2>2, <2>3, Zenon
    <3> QED
      BY <3>1, <3>2, <1>5, <1>6, Zenon
  <2> QED
    BY <2>3, Zenon DEF Committed
<1>10. Committed(out) \subseteq Committed(new)
  <2>1. ASSUME NEW i \in DOMAIN out, out[i].committed
        PROVE  out[i].row \in Committed(new)
    <3>1. i \in DOMAIN new /\ new[i] = out[i]
      BY <1>5, <1>6, Zenon
    <3>2. new[i].row \in Committed(new)
      BY <2>1, <3>1, Zenon DEF Committed
    <3> QED
      BY <3>1, <3>2, Zenon
  <2> QED
    BY <2>1, Zenon DEF Committed
<1>11. ASSUME committed
       PROVE  RowsIn(part) \subseteq Committed(new)
  <2>1. ASSUME NEW j \in DOMAIN part
        PROVE  part[j] \in Committed(new)
    <3>1. m + j \in DOMAIN new /\ new[m + j].row = part[j] /\ new[m + j].committed
      BY <1>5, <1>6, <1>7, <1>11, Zenon
    <3>2. new[m + j].row \in Committed(new)
      BY <3>1, Zenon DEF Committed
    <3> QED
      BY <3>1, <3>2, Zenon
  <2> QED
    BY <2>1, Zenon DEF RowsIn
<1>12. new \in Seq(StatusRow) /\ Len(new) = Len(out) + Len(part)
  BY <1>5 DEF m, n
<1>13. Committed(new) = Committed(out) \cup (IF committed THEN RowsIn(part) ELSE {})
  BY <1>9, <1>10, <1>11, Zenon
<1>14. ASSUME NEW i \in DOMAIN new
       PROVE  \/ i \in DOMAIN out /\ new[i] = out[i]
              \/ /\ \E j \in 1..Len(part) : i = Len(out) + j
                 /\ new[i].started = started /\ new[i].committed = committed
  <2>1. CASE i \in 1..m
    BY <2>1, <1>5, <1>6, Zenon
  <2>2. ASSUME NEW j \in 1..n, i = m + j
        PROVE  /\ \E k \in 1..Len(part) : i = Len(out) + k
               /\ new[i].started = started /\ new[i].committed = committed
    <3>1. new[i].started = started /\ new[i].committed = committed
      BY <1>7, <2>2, Zenon
    <3>2. j \in 1..Len(part) /\ i = Len(out) + j
      BY <2>2 DEF m, n
    <3> QED
      BY <3>1, <3>2, Zenon
  <2> QED
    BY <1>5, <1>6, <2>1, <2>2, Zenon
<1> QED
  BY <1>8, <1>12, <1>13, <1>14, Zenon DEF new, out

(* The commit of a batch.                                                  *)
LEMMA BatchCommitted ==
    ASSUME InOrder, NEW new, \A r \in new : r > Len(output), new \subseteq 1..rows,
           branch' = Append(branch, [by |-> "batch", rows |-> new])
    PROVE  /\ branch' \in Seq([by : {"batch", "outer", "other"}, rows : SUBSET (1..rows)])
           /\ WrittenOnceInOrder'
           /\ UNION {branch'[i].rows : i \in Batches'} = (UNION {branch[i].rows : i \in Batches}) \cup new
<1> DEFINE n == Len(branch) + 1
           c == [by |-> "batch", rows |-> new]
<1>1. c \in [by : {"batch", "outer", "other"}, rows : SUBSET (1..rows)] /\ c.by = "batch" /\ c.rows = new
  OBVIOUS
<1> HIDE DEF c
<1>2. branch \in Seq([by : {"batch", "outer", "other"}, rows : SUBSET (1..rows)]) /\ branch' = Append(branch, c)
  BY DEF InOrder, Shape, c
<1>3. /\ branch' \in Seq([by : {"batch", "outer", "other"}, rows : SUBSET (1..rows)])
      /\ DOMAIN branch' = 1..n /\ DOMAIN branch = 1..Len(branch) /\ branch'[n] = c
      /\ \A i \in 1..Len(branch) : branch'[i] = branch[i]
      /\ Len(branch) \in Nat
  BY <1>1, <1>2
<1>4. Batches' = Batches \cup {n} /\ \A i \in Batches : i \in 1..Len(branch)
  BY <1>1, <1>3 DEF Batches
<1>5. WrittenOnceInOrder'
  <2> SUFFICES ASSUME NEW i \in Batches', NEW j \in Batches', i < j,
                      NEW r \in branch'[i].rows, NEW s \in branch'[j].rows
               PROVE  r < s
    BY DEF WrittenOnceInOrder
  <2>1. i \in Batches
    BY <1>3, <1>4
  <2>2. CASE j \in Batches
    BY <2>1, <2>2, <1>3, <1>4 DEF InOrder, Settled, WrittenOnceInOrder
  <2>3. CASE j = n
    <3>1. r \in 1..Len(output)
      BY <2>1, <1>3, <1>4 DEF InOrder, Settled
    <3>2. s \in new
      BY <2>3, <1>1, <1>3
    <3> QED
      BY <3>1, <3>2 DEF InOrder, Shape
  <2> QED
    BY <2>2, <2>3, <1>4
<1> QED
  BY <1>1, <1>3, <1>4, <1>5

(* A commit that is no batch's.                                            *)
LEMMA OtherCommitted ==
    ASSUME InOrder, NEW c \in [by : {"outer", "other"}, rows : SUBSET (1..rows)],
           branch' = Append(branch, c)
    PROVE  /\ branch' \in Seq([by : {"batch", "outer", "other"}, rows : SUBSET (1..rows)])
           /\ WrittenOnceInOrder'
           /\ Batches' = Batches /\ \A i \in Batches : branch'[i] = branch[i]
<1>1. branch \in Seq([by : {"batch", "outer", "other"}, rows : SUBSET (1..rows)]) /\ c.by # "batch"
  BY DEF InOrder, Shape
<1>2. /\ branch' \in Seq([by : {"batch", "outer", "other"}, rows : SUBSET (1..rows)])
      /\ DOMAIN branch' = 1..Len(branch) + 1 /\ DOMAIN branch = 1..Len(branch) /\ branch'[Len(branch) + 1] = c
      /\ \A i \in 1..Len(branch) : branch'[i] = branch[i]
      /\ Len(branch) \in Nat
  BY <1>1
<1>3. Batches' = Batches /\ \A i \in Batches : branch'[i] = branch[i]
  BY <1>1, <1>2 DEF Batches
<1> QED
  BY <1>2, <1>3 DEF InOrder, Settled, WrittenOnceInOrder

(* The rows of the current batch follow the settled ones.                  *)
LEMMA BatchIsNext ==
    ASSUME InOrder, phase \in {"start", "run"}
    PROVE  /\ batch \in Seq(Nat) /\ Len(batch) \in Nat /\ DOMAIN batch = 1..Len(batch)
           /\ \A i \in 1..Len(batch) : batch[i] = Len(output) + i
           /\ \A r \in RowsIn(batch) : r > Len(output) /\ r <= taken /\ r \in Nat
           /\ RowsIn(batch) \subseteq 1..rows
           /\ Len(output) \in Nat /\ Len(output) + Len(batch) = taken /\ taken \in 0..rows /\ rows \in Nat
<1>1. batch \in Seq(Nat) /\ output \in Seq(StatusRow) /\ taken \in 0..rows /\ rows \in Nat
  BY DEF InOrder, Shape
<1>2. Len(batch) \in Nat /\ DOMAIN batch = 1..Len(batch) /\ Len(output) \in Nat
  BY <1>1, LenProperties, Zenon
<1>3. Len(output) = taken - Len(batch) /\ \A i \in 1..Len(batch) : batch[i] = taken - Len(batch) + i
  BY DEF InOrder, Shape, Settled
<1>4. \A i \in 1..Len(batch) : batch[i] = Len(output) + i
  BY <1>1, <1>2, <1>3
<1>5. ASSUME NEW r \in RowsIn(batch)
      PROVE  r > Len(output) /\ r <= taken /\ r \in 1..rows
  <2>1. PICK i \in 1..Len(batch) : r = batch[i]
    BY <1>2, Zenon DEF RowsIn
  <2> QED
    BY <2>1, <1>1, <1>2, <1>3, <1>4
<1> QED
  BY <1>1, <1>2, <1>3, <1>4, <1>5

(* A step that changes neither the branch nor the output.                  *)
LEMMA QuietStep ==
    ASSUME InOrder, UNCHANGED <<input, branch, output>>, Shape',
           phase' \in {"start", "run"} => Len(output) = taken' - Len(batch'),
           phase' \in {"pull", "deliver", "skip", "finish", "outer", "done"} => Len(output) = taken',
           phase' \in {"finish", "outer", "done"} => taken' = rows
    PROVE  InOrder'
<1>1. Batches' = Batches /\ WrittenOnceInOrder'
  BY DEF InOrder, Settled, Batches, WrittenOnceInOrder
<1> QED
  BY <1>1 DEF InOrder, Settled, input

LEMMA InOrderAtFirst ==
    ASSUME Parameters, Init
    PROVE  InOrder
<1>1. spec \in AllSpecs /\ rows \in Nat
  BY DEF Parameters, Init
<1>2. Len(output) = 0 /\ Len(batch) = 0 /\ DOMAIN output = {} /\ DOMAIN branch = {}
  BY DEF Init
<1>3. Batches = {} /\ Committed(output) = {}
  BY <1>2 DEF Batches, Committed
<1> QED
  BY <1>1, <1>2, <1>3 DEF InOrder, Shape, Settled, Init, Ended, WrittenOnceInOrder

LEMMA PullStep ==
    ASSUME Parameters, InOrder, PullBatch
    PROVE  InOrder'
<1> DEFINE last == IF taken + BatchSize < rows THEN taken + BatchSize ELSE rows
           n == last - taken
<1>1. taken \in 0..rows /\ rows \in Nat /\ last \in taken..rows /\ n \in Nat /\ (taken # rows => n > 0)
  BY DEF Parameters, InOrder, Shape
<1>2. /\ taken' = last /\ batch' = [i \in 1..n |-> taken + i]
      /\ phase' = IF taken = rows THEN "finish" ELSE "start"
      /\ phase = "pull" /\ UNCHANGED <<input, branch, output>>
  BY DEF PullBatch
<1>3. batch' \in [1..n -> Nat] /\ \A i \in 1..n : batch'[i] = taken + i
  BY <1>1, <1>2
<1>4. Len(batch') = n /\ batch' \in Seq(Nat)
  BY <1>1, <1>3, AsSequence
<1>5. Len(output) = taken
  BY <1>2 DEF InOrder, Settled
<1>6. last - n = taken
  BY <1>1
<1> HIDE DEF last, n
<1>7. Shape'
  BY <1>1, <1>2, <1>3, <1>4, <1>6 DEF InOrder, Shape, input
<1> QED
  BY <1>1, <1>2, <1>4, <1>5, <1>6, <1>7, QuietStep

LEMMA CommitStep ==
    ASSUME Parameters, InOrder, CommitBatch
    PROVE  InOrder'
<1>1. /\ phase = "run" /\ UNCHANGED <<input, taken, batch, base, attempt, expired>>
      /\ output' = output \o Status(batch, TRUE, TRUE)
      /\ phase' \in {"deliver", "pull"}
      /\ branch' = IF spec.mutates THEN Append(branch, [by |-> "batch", rows |-> RowsIn(batch)]) ELSE branch
  BY DEF CommitBatch
<1>2. /\ batch \in Seq(Nat) /\ Len(batch) \in Nat
      /\ \A i \in 1..Len(batch) : batch[i] = Len(output) + i
      /\ \A r \in RowsIn(batch) : r > Len(output) /\ r <= taken /\ r \in Nat
      /\ RowsIn(batch) \subseteq 1..rows
      /\ Len(output) \in Nat /\ Len(output) + Len(batch) = taken /\ taken \in 0..rows /\ rows \in Nat
  BY <1>1, BatchIsNext
<1>3. /\ output' \in Seq(StatusRow) /\ Len(output') = Len(output) + Len(batch)
      /\ \A i \in DOMAIN output' : output'[i].row = i
      /\ Committed(output') = Committed(output) \cup RowsIn(batch)
  BY <1>1, <1>2, Reported
<1>4. Len(output') = taken
  BY <1>2, <1>3
<1>5. /\ branch' \in Seq([by : {"batch", "outer", "other"}, rows : SUBSET (1..rows)])
      /\ WrittenOnceInOrder'
      /\ \A i \in Batches' : branch'[i].rows \subseteq 1..Len(output')
      /\ spec.mutates => Committed(output') = UNION {branch'[i].rows : i \in Batches'}
  <2>1. UNION {branch[i].rows : i \in Batches} \subseteq 1..Len(output)
    BY DEF InOrder, Settled
  <2>2. CASE spec.mutates
    <3>1. branch' = Append(branch, [by |-> "batch", rows |-> RowsIn(batch)])
      BY <1>1, <2>2
    <3>2. /\ branch' \in Seq([by : {"batch", "outer", "other"}, rows : SUBSET (1..rows)])
          /\ WrittenOnceInOrder'
          /\ UNION {branch'[i].rows : i \in Batches'} = (UNION {branch[i].rows : i \in Batches}) \cup RowsIn(batch)
      BY <3>1, <1>2, BatchCommitted
    <3>3. (UNION {branch[i].rows : i \in Batches}) \cup RowsIn(batch) \subseteq 1..Len(output')
      BY <2>1, <1>2, <1>4
    <3>4. \A i \in Batches' : branch'[i].rows \subseteq UNION {branch'[j].rows : j \in Batches'}
      OBVIOUS
    <3>5. Committed(output) = UNION {branch[i].rows : i \in Batches}
      BY <2>2 DEF InOrder, Settled
    <3> QED
      BY <3>2, <3>3, <3>4, <3>5, <1>3, Zenon
  <2>3. CASE ~ spec.mutates
    <3>1. branch' = branch /\ Batches' = Batches
      BY <1>1, <2>3 DEF Batches
    <3>2. 1..Len(output) \subseteq 1..Len(output')
      BY <1>2, <1>4
    <3> QED
      BY <3>1, <3>2, <2>3 DEF InOrder, Shape, Settled, WrittenOnceInOrder
  <2> QED
    BY <2>2, <2>3
<1>6. Shape'
  BY <1>1, <1>3, <1>5 DEF InOrder, Shape, input
<1> QED
  BY <1>1, <1>3, <1>4, <1>5, <1>6 DEF InOrder, Settled, input

LEMMA FailStep ==
    ASSUME Parameters, InOrder, FailBatch
    PROVE  InOrder'
<1>1. /\ phase = "run" /\ UNCHANGED <<input, branch, taken, batch, base, attempt, expired>>
      /\ output' = IF spec.error = "fail" THEN output ELSE output \o Status(batch, TRUE, FALSE)
      /\ phase' = AfterFailure
  BY DEF FailBatch
<1>2. spec \in AllSpecs
  BY DEF InOrder, Shape
<1>3. CASE spec.error = "fail"
  <2>1. phase' = "failed" /\ output' = output
    BY <1>1, <1>3 DEF AfterFailure
  <2>2. Shape'
    BY <1>1, <2>1 DEF InOrder, Shape, input, Ended
  <2> QED
    BY <1>1, <2>1, <2>2, QuietStep
<1>4. CASE spec.error # "fail"
  <2>1. phase' \in {"skip", "deliver", "pull"}
    BY <1>1, <1>2, <1>4 DEF AfterFailure, AllSpecs, Modes
  <2>2. /\ batch \in Seq(Nat) /\ Len(batch) \in Nat
        /\ \A i \in 1..Len(batch) : batch[i] = Len(output) + i
        /\ Len(output) \in Nat /\ Len(output) + Len(batch) = taken
    BY <1>1, BatchIsNext
  <2>3. output' = output \o Status(batch, TRUE, FALSE)
    BY <1>1, <1>4
  <2>4. /\ output' \in Seq(StatusRow) /\ Len(output') = Len(output) + Len(batch)
        /\ \A i \in DOMAIN output' : output'[i].row = i
        /\ Committed(output') = Committed(output) \cup {}
    BY <2>2, <2>3, Reported
  <2>5. Len(output') = taken /\ 1..Len(output) \subseteq 1..Len(output')
    BY <2>2, <2>4
  <2>6. Batches' = Batches /\ Committed(output') = Committed(output)
    BY <1>1, <2>4 DEF Batches
  <2>7. Shape'
    BY <1>1, <2>1, <2>4 DEF InOrder, Shape, input
  <2>8. WrittenOnceInOrder' /\ \A i \in Batches' : branch'[i].rows \subseteq 1..Len(output')
    BY <1>1, <2>5, <2>6 DEF InOrder, Settled, WrittenOnceInOrder
  <2> QED
    BY <1>1, <2>1, <2>4, <2>5, <2>6, <2>7, <2>8 DEF InOrder, Settled, input
<1> QED
  BY <1>3, <1>4

LEMMA SkipStep ==
    ASSUME Parameters, InOrder, SkipRest
    PROVE  InOrder'
<1> DEFINE n == rows - taken
           rest == [i \in 1..n |-> taken + i]
<1>1. /\ phase = "skip" /\ UNCHANGED <<input, branch, batch, base, attempt, expired>>
      /\ output' = output \o Status(rest, FALSE, FALSE)
      /\ phase' = "finish" /\ taken' = rows
  BY DEF SkipRest
<1>2. taken \in 0..rows /\ rows \in Nat /\ n \in Nat /\ Len(output) = taken
  BY <1>1 DEF InOrder, Shape, Settled
<1>3. rest \in [1..n -> Nat] /\ \A i \in 1..n : rest[i] = Len(output) + i
  BY <1>2
<1>4. rest \in Seq(Nat) /\ Len(rest) = n
  BY <1>2, <1>3, AsSequence
<1> HIDE DEF rest
<1>5. /\ output' \in Seq(StatusRow) /\ Len(output') = Len(output) + n
      /\ \A i \in DOMAIN output' : output'[i].row = i
      /\ Committed(output') = Committed(output) \cup {}
  BY <1>1, <1>3, <1>4, Reported
<1>6. Len(output') = rows /\ 1..Len(output) \subseteq 1..Len(output')
  BY <1>2, <1>5
<1>7. Batches' = Batches /\ Committed(output') = Committed(output)
  BY <1>1, <1>5 DEF Batches
<1>8. Shape'
  <2>1. batch \in Seq(Nat) /\ Len(batch) <= taken
    BY DEF InOrder, Shape
  <2>2. Len(batch) \in Nat
    BY <2>1, LenProperties, Zenon
  <2>3. Len(batch') <= taken' /\ taken' \in 0..rows
    BY <1>1, <1>2, <2>1, <2>2
  <2> QED
    BY <1>1, <1>5, <2>3 DEF InOrder, Shape, input
<1>9. WrittenOnceInOrder' /\ \A i \in Batches' : branch'[i].rows \subseteq 1..Len(output')
  BY <1>1, <1>6, <1>7 DEF InOrder, Settled, WrittenOnceInOrder
<1> QED
  BY <1>1, <1>5, <1>6, <1>7, <1>8, <1>9 DEF InOrder, Settled, input

(* The other connection's commits and the outer write.                     *)
LEMMA OtherStep ==
    ASSUME Parameters, InOrder, NEW c \in [by : {"outer", "other"}, rows : SUBSET (1..rows)],
           branch' = Append(branch, c), UNCHANGED <<input, taken, batch, output>>,
           phase' = phase \/ (phase = "outer" /\ phase' = "done")
    PROVE  InOrder'
<1>1. /\ branch' \in Seq([by : {"batch", "outer", "other"}, rows : SUBSET (1..rows)])
      /\ WrittenOnceInOrder'
      /\ Batches' = Batches /\ \A i \in Batches : branch'[i] = branch[i]
  BY OtherCommitted
<1>2. Shape'
  BY <1>1 DEF InOrder, Shape, input, Ended
<1>3. \A i \in Batches' : branch'[i].rows \subseteq 1..Len(output)
  <2>1. \A i \in Batches : branch[i].rows \subseteq 1..Len(output)
    BY DEF InOrder, Settled
  <2> TAKE i \in Batches'
  <2>2. i \in Batches /\ branch'[i] = branch[i]
    BY <1>1
  <2> QED
    BY <2>1, <2>2
<1>4. UNION {branch'[i].rows : i \in Batches'} = UNION {branch[i].rows : i \in Batches}
  <2>1. {branch'[i].rows : i \in Batches'} = {branch[i].rows : i \in Batches}
    BY <1>1, Zenon
  <2> QED
    BY <2>1, Zenon
<1> QED
  BY <1>1, <1>2, <1>3, <1>4 DEF InOrder, Settled, input

LEMMA InOrderKept ==
    ASSUME Parameters, InOrder, [Next]_vars
    PROVE  InOrder'
<1>1. CASE PullBatch
  BY <1>1, PullStep
<1>2. CASE StartBatch
  <2>1. Shape'
    BY <1>2 DEF StartBatch, InOrder, Shape, input
  <2> QED
    BY <1>2, <2>1, QuietStep DEF StartBatch, InOrder, Settled
<1>3. CASE CommitBatch
  BY <1>3, CommitStep
<1>4. CASE Retry
  <2>1. phase = "run" /\ phase' = "start" /\ UNCHANGED <<input, branch, taken, batch, base, expired, output>>
    BY <1>4 DEF Retry, Transient
  <2>2. Shape'
    BY <2>1 DEF InOrder, Shape, input
  <2> QED
    BY <2>1, <2>2, QuietStep DEF InOrder, Settled
<1>5. CASE FailBatch
  BY <1>5, FailStep
<1>6. CASE SkipRest
  BY <1>6, SkipStep
<1>7. CASE Deliver
  <2>1. Shape'
    BY <1>7 DEF Deliver, InOrder, Shape, input
  <2> QED
    BY <1>7, <2>1, QuietStep DEF Deliver, InOrder, Settled
<1>8. CASE Finish
  <2>1. Shape'
    BY <1>8 DEF Finish, InOrder, Shape, input, Ended
  <2> QED
    BY <1>8, <2>1, QuietStep DEF Finish, InOrder, Settled
<1>9. CASE PinOuterWrite
  <2>1. Shape'
    BY <1>9 DEF PinOuterWrite, InOrder, Shape, input
  <2> QED
    BY <1>9, <2>1, QuietStep DEF PinOuterWrite, InOrder, Settled
<1>10. CASE OuterWrite
  <2>1. CASE HeadUnmoved
    <3> DEFINE c == [by |-> "outer", rows |-> 1..rows]
    <3>1. c \in [by : {"outer", "other"}, rows : SUBSET (1..rows)]
      OBVIOUS
    <3>2. /\ branch' = Append(branch, c) /\ phase = "outer" /\ phase' = "done"
          /\ UNCHANGED <<input, taken, batch, output>>
      BY <1>10, <2>1 DEF OuterWrite
    <3> QED
      BY <3>1, <3>2, OtherStep
  <2>2. CASE ~ HeadUnmoved
    <3>1. phase' = "failed" /\ UNCHANGED <<input, branch, taken, batch, base, attempt, expired, output>>
      BY <1>10, <2>2 DEF OuterWrite
    <3>2. Shape'
      BY <3>1 DEF InOrder, Shape, input, Ended
    <3> QED
      BY <3>1, <3>2, QuietStep
  <2> QED
    BY <2>1, <2>2
<1>11. CASE OtherWrites
  <2> DEFINE c == [by |-> "other", rows |-> {}]
  <2>1. c \in [by : {"outer", "other"}, rows : SUBSET (1..rows)]
    OBVIOUS
  <2>2. branch' = Append(branch, c) /\ phase' = phase /\ UNCHANGED <<input, taken, batch, output>>
    BY <1>11 DEF OtherWrites
  <2> QED
    BY <2>1, <2>2, OtherStep
<1>12. CASE Expire
  <2>1. Shape'
    BY <1>12 DEF Expire, InOrder, Shape, input
  <2> QED
    BY <1>12, <2>1, QuietStep DEF Expire, InOrder, Settled
<1>13. CASE Cancel
  <2>1. Shape'
    BY <1>13 DEF Cancel, InOrder, Shape, input, Ended
  <2> QED
    BY <1>13, <2>1, QuietStep DEF Cancel
<1>14. CASE UNCHANGED vars
  <2>1. Shape'
    BY <1>14 DEF vars, InOrder, Shape, input
  <2> QED
    BY <1>14, <2>1, QuietStep DEF vars, input, InOrder, Settled
<1> QED
  BY <1>1, <1>2, <1>3, <1>4, <1>5, <1>6, <1>7, <1>8, <1>9, <1>10, <1>11, <1>12, <1>13, <1>14
  DEF Next, Advance

(* However often a batch is retried, and whatever the other connection     *)
(* commits, every row is written by one batch, in the order of the input.  *)
THEOREM RowsWrittenOnce ==
    ASSUME Parameters
    PROVE  Spec => []WrittenOnceInOrder
<1>1. Init => InOrder
  BY InOrderAtFirst
<1>2. InOrder /\ [Next]_vars => InOrder'
  BY InOrderKept
<1>3. InOrder => WrittenOnceInOrder
  BY DEF InOrder, Settled
<1> QED
  BY <1>1, <1>2, <1>3, PTL DEF Spec

(* What rows in order say about the report.                                *)
LEMMA InOrderIsTrue == InOrder => StatusIsTrue
<1> SUFFICES ASSUME InOrder PROVE StatusIsTrue
  OBVIOUS
<1>1. \A i \in DOMAIN output : output[i].row = i
  BY DEF InOrder, Settled
<1>2. spec.mutates => Committed(output) = UNION {branch[i].rows : i \in Batches}
  BY DEF InOrder, Settled
<1>3. phase = "done" => Len(output) = rows
  BY DEF InOrder, Settled
<1> QED
  BY <1>1, <1>2, <1>3, Zenon DEF StatusIsTrue, Committed

(* REPORT STATUS tells the truth (produce_committed_rows,                  *)
(* append_failed_batch, produce_unstarted_rows): every row is reported     *)
(* once, in order, and is reported as committed exactly when it is in a    *)
(* commit of the branch.                                                   *)
THEOREM ReportsAreTrue ==
    ASSUME Parameters
    PROVE  Spec => []StatusIsTrue
<1>1. Init => InOrder
  BY InOrderAtFirst
<1>2. InOrder /\ [Next]_vars => InOrder'
  BY InOrderKept
<1> QED
  BY <1>1, <1>2, InOrderIsTrue, PTL DEF Spec

(* The branch grows by a commit on the head that its batch read.           *)
LEMMA CommitsOnBase ==
    ASSUME InOrder, [Next]_vars
    PROVE  CommitsOnItsBase
<1>1. branch \in Seq([by : {"batch", "outer", "other"}, rows : SUBSET (1..rows)])
  BY DEF InOrder, Shape
<1>2. ASSUME NEW c, branch' = Append(branch, c), c.by \in {"batch", "outer"} => base = Len(branch)
      PROVE  CommitsOnItsBase
  <2>1. Len(branch) \in Nat /\ DOMAIN branch = 1..Len(branch)
    BY <1>1, LenProperties, Zenon
  <2>2. DOMAIN branch' = 1..Len(branch) + 1 /\ branch'[Len(branch) + 1] = c
    BY <1>1, <1>2
  <2>3. \A i \in DOMAIN branch' \ DOMAIN branch : i = Len(branch) + 1
    BY <2>1, <2>2
  <2> QED
    BY <1>2, <2>1, <2>2, <2>3 DEF CommitsOnItsBase
<1>3. CASE branch' = branch
  BY <1>3 DEF CommitsOnItsBase
<1>4. CASE CommitBatch /\ spec.mutates
  BY <1>2, <1>4 DEF CommitBatch, HeadUnmoved
<1>5. CASE OuterWrite /\ HeadUnmoved
  BY <1>2, <1>5 DEF OuterWrite, HeadUnmoved
<1>6. CASE OtherWrites
  BY <1>2, <1>6 DEF OtherWrites
<1> QED
  BY <1>3, <1>4, <1>5, <1>6
  DEF Next, Advance, vars, PullBatch, StartBatch, CommitBatch, Retry, FailBatch, SkipRest, Deliver, Finish,
      PinOuterWrite, OuterWrite, Expire, Cancel

(* Whatever is committed between the reading of the head and the write, a  *)
(* batch and the outer write commit on the head they read (commit_layer's  *)
(* compare-and-move).                                                      *)
THEOREM BatchesCommitOnTheirBase ==
    ASSUME Parameters
    PROVE  Spec => BatchesSeeTheHead
<1>1. Init => InOrder
  BY InOrderAtFirst
<1>2. InOrder /\ [Next]_vars => InOrder'
  BY InOrderKept
<1>3. InOrder /\ [Next]_vars => [CommitsOnItsBase]_vars
  BY CommitsOnBase
<1> QED
  BY <1>1, <1>2, <1>3, PTL DEF Spec, BatchesSeeTheHead

(* The rows of one batch have one number when batches are counted.         *)
LEMMA SameBatch ==
    ASSUME Parameters, NEW n \in Nat, AtBatch(n), NEW i \in 1..BatchSize, NEW j \in 1..BatchSize
    PROVE  (n + i - 1) \div BatchSize = (n + j - 1) \div BatchSize
<1>1. PICK k \in Nat : n = k * BatchSize
  BY DEF AtBatch
<1>2. BatchSize \in Nat \ {0}
  BY DEF Parameters
<1>3. ASSUME NEW d \in 0..BatchSize - 1
      PROVE  (k * BatchSize + d) \div BatchSize = k
  BY <1>2
<1>4. i - 1 \in 0..BatchSize - 1 /\ j - 1 \in 0..BatchSize - 1
  BY <1>2
<1>5. k * BatchSize + (i - 1) = n + i - 1 /\ k * BatchSize + (j - 1) = n + j - 1
  BY <1>1, <1>2
<1> QED
  BY <1>3, <1>4, <1>5

LEMMA AlignedKept ==
    ASSUME Parameters, InMode, [Next]_vars
    PROVE  Aligned'
<1>1. taken \in 0..rows /\ rows \in Nat /\ BatchSize \in Nat \ {0}
  BY DEF Parameters, InMode, InOrder, Shape
<1>2. CASE PullBatch
  <2> DEFINE last == IF taken + BatchSize < rows THEN taken + BatchSize ELSE rows
             n == last - taken
  <2>1. /\ taken' = last /\ batch' = [i \in 1..n |-> taken + i]
        /\ phase' = IF taken = rows THEN "finish" ELSE "start"
        /\ phase = "pull" /\ rows' = rows
    BY <1>2 DEF PullBatch, input
  <2>2. n \in Nat /\ last - n = taken /\ n <= BatchSize /\ (last = rows \/ n = BatchSize)
    BY <1>1
  <2>3. batch' \in [1..n -> Nat]
    BY <1>1, <2>1
  <2>4. Len(batch') = n
    BY <2>2, <2>3, AsSequence
  <2>5. taken # rows => AtBatch(taken)
    BY <2>1 DEF InMode, Aligned
  <2> HIDE DEF last, n
  <2> QED
    BY <2>1, <2>2, <2>4, <2>5 DEF Aligned, AtBatch
<1>3. ASSUME phase = "run", UNCHANGED <<rows, taken>>, phase' \notin {"start", "run"}
      PROVE  Aligned'
  <2>1. PICK k \in Nat : taken - Len(batch) = k * BatchSize
    BY <1>3 DEF InMode, Aligned, AtBatch
  <2>2. taken = rows \/ Len(batch) = BatchSize
    BY <1>3 DEF InMode, Aligned
  <2>3. CASE Len(batch) = BatchSize
    <3>1. taken = (k + 1) * BatchSize /\ k + 1 \in Nat
      BY <1>1, <2>1, <2>3
    <3> QED
      BY <3>1, <1>3 DEF Aligned, AtBatch
  <2> QED
    BY <1>3, <2>2, <2>3 DEF Aligned
<1>4. CASE CommitBatch
  BY <1>3, <1>4 DEF CommitBatch, input
<1>5. CASE FailBatch
  <2>1. phase' \in {"failed", "skip", "deliver", "pull"}
    BY <1>5 DEF FailBatch, AfterFailure, InMode, InOrder, Shape, AllSpecs, Modes
  <2> QED
    BY <1>3, <1>5, <2>1 DEF FailBatch, input
<1>6. ASSUME UNCHANGED <<rows, taken, batch>>,
             \/ phase' = phase \/ (phase \in {"start", "run"} /\ phase' \in {"start", "run"})
             \/ (phase = "deliver" /\ phase' = "pull")
             \/ phase' \in {"skip", "finish", "outer", "done", "failed", "cancelled"}
      PROVE  Aligned'
  BY <1>6 DEF InMode, Aligned, AtBatch
<1>7. CASE SkipRest
  BY <1>7 DEF SkipRest, Aligned
<1>8. CASE UNCHANGED vars
  BY <1>6, <1>8 DEF vars, input
<1>9. CASE OuterWrite
  BY <1>6, <1>9 DEF OuterWrite, input
<1> QED
  BY <1>2, <1>4, <1>5, <1>6, <1>7, <1>8, <1>9
  DEF Next, Advance, input, StartBatch, Retry, Transient, Deliver, Finish, PinOuterWrite,
      OtherWrites, Expire, Cancel

(* The rows a step reports are all started or all not, all committed or    *)
(* all not.                                                                *)
LEMMA ModedKept ==
    ASSUME Parameters, InMode, [Next]_vars
    PROVE  Moded'
<1>0. spec \in AllSpecs /\ spec.error \in Modes /\ UNCHANGED spec
  BY DEF InMode, InOrder, Shape, AllSpecs, Next, Advance, vars, input, PullBatch, StartBatch, CommitBatch,
         Retry, FailBatch, SkipRest, Deliver, Finish, PinOuterWrite, OuterWrite, OtherWrites, Expire, Cancel
<1>1. ASSUME output' = output, phase' = "skip" => phase = "skip",
             phase' \in {"pull", "start", "run", "deliver"} => phase \in {"pull", "start", "run", "deliver"}
      PROVE  Moded'
  BY <1>0, <1>1, Zenon DEF InMode, Moded, Failed
<1>2. CASE CommitBatch
  <2>1. /\ phase = "run" /\ output' = output \o Status(batch, TRUE, TRUE)
        /\ phase' \in {"deliver", "pull"}
    BY <1>2 DEF CommitBatch
  <2>2. \A i \in DOMAIN output' :
            \/ i \in DOMAIN output /\ output'[i] = output[i]
            \/ output'[i].started = TRUE /\ output'[i].committed = TRUE
    BY <2>1, BatchIsNext, Reported DEF InMode
  <2>3. \A i \in DOMAIN output' : ~ Failed(i)' \/ (i \in DOMAIN output /\ Failed(i))
    BY <2>2, Zenon DEF Failed
  <2>4. spec.error # "continue" => \A i \in DOMAIN output' : ~ Failed(i)'
    BY <1>0, <2>1, <2>3 DEF InMode, Moded, Modes
  <2>5. spec.error = "continue" => \A i \in DOMAIN output' : output'[i].started
    BY <2>2, Zenon DEF InMode, Moded
  <2> QED
    BY <1>0, <2>1, <2>4, <2>5 DEF Moded
<1>3. CASE FailBatch
  <2>1. /\ phase = "run" /\ phase' = AfterFailure
        /\ output' = IF spec.error = "fail" THEN output ELSE output \o Status(batch, TRUE, FALSE)
    BY <1>3 DEF FailBatch
  <2>2. CASE spec.error = "fail"
    BY <1>1, <2>1, <2>2 DEF AfterFailure
  <2>3. CASE spec.error # "fail"
    <3>1. output' = output \o Status(batch, TRUE, FALSE)
      BY <2>1, <2>3
    <3>2. \A i \in DOMAIN output' :
              \/ i \in DOMAIN output /\ output'[i] = output[i]
              \/ /\ \E j \in 1..Len(batch) : i = Len(output) + j
                 /\ output'[i].started = TRUE /\ output'[i].committed = FALSE
      BY <2>1, <3>1, BatchIsNext, Reported DEF InMode
    <3>3. CASE spec.error = "continue"
      <4>1. phase' # "skip"
        BY <2>1, <3>3 DEF AfterFailure
      <4>2. \A i \in DOMAIN output' : output'[i].started
        BY <3>2, <3>3, Zenon DEF InMode, Moded
      <4> QED
        BY <1>0, <3>3, <4>1, <4>2 DEF Moded
    <3>4. CASE spec.error = "break"
      <4>1. phase' = "skip"
        BY <2>1, <3>4 DEF AfterFailure
      <4>2. \A i \in DOMAIN output : ~ Failed(i)
        BY <2>1, <3>4 DEF InMode, Moded
      <4>3. ASSUME NEW i \in DOMAIN output', NEW j \in DOMAIN output', Failed(i)', i < j
            PROVE  ~ output'[j].committed /\ (i - 1) \div BatchSize = (j - 1) \div BatchSize
        <5>1. DOMAIN output = 1..Len(output) /\ Len(output) \in Nat /\ Len(batch) \in Nat
              /\ AtBatch(Len(output)) /\ Len(batch) <= BatchSize /\ BatchSize \in Nat \ {0}
          <6>1. Len(output) \in Nat /\ Len(batch) \in Nat /\ Len(output) = taken - Len(batch)
            BY <2>1, BatchIsNext DEF InMode, InOrder, Settled
          <6>2. AtBatch(taken - Len(batch)) /\ Len(batch) <= BatchSize
            BY <2>1 DEF InMode, Aligned
          <6>3. DOMAIN output = 1..Len(output)
            BY LenProperties DEF InMode, InOrder, Shape
          <6> QED
            BY <6>1, <6>2, <6>3 DEF Parameters
        <5>2. ~ (i \in DOMAIN output /\ output'[i] = output[i])
          BY <4>2, <4>3, Zenon DEF Failed
        <5>3. PICK a \in 1..Len(batch) : i = Len(output) + a
          BY <3>2, <5>2
        <5>4. j \notin DOMAIN output
          BY <4>3, <5>1, <5>3
        <5>5. PICK b \in 1..Len(batch) : j = Len(output) + b
          BY <3>2, <5>4
        <5>6. a \in 1..BatchSize /\ b \in 1..BatchSize
          BY <5>1
        <5>7. (Len(output) + a - 1) \div BatchSize = (Len(output) + b - 1) \div BatchSize
          BY <5>1, <5>6, SameBatch
        <5>8. output'[j].committed = FALSE
          BY <3>2, <5>4
        <5> QED
          BY <5>3, <5>5, <5>7, <5>8
      <4> QED
        BY <1>0, <3>4, <4>1, <4>3 DEF Moded
    <3> QED
      BY <1>0, <2>3, <3>3, <3>4 DEF Modes
  <2> QED
    BY <2>2, <2>3
<1>4. CASE SkipRest
  <2> DEFINE n == rows - taken
             rest == [i \in 1..n |-> taken + i]
  <2>1. phase = "skip" /\ phase' = "finish" /\ output' = output \o Status(rest, FALSE, FALSE)
    BY <1>4 DEF SkipRest
  <2>2. taken \in 0..rows /\ rows \in Nat /\ n \in Nat /\ Len(output) = taken
    BY <2>1 DEF InMode, InOrder, Shape, Settled
  <2>3. rest \in [1..n -> Nat] /\ \A i \in 1..n : rest[i] = Len(output) + i
    BY <2>2
  <2>4. rest \in Seq(Nat) /\ Len(rest) = n
    BY <2>2, <2>3, AsSequence
  <2>5. DOMAIN output = 1..Len(output) /\ Len(output) \in Nat
    BY LenProperties DEF InMode, InOrder, Shape
  <2> HIDE DEF rest
  <2>6. \A i \in DOMAIN output' :
            \/ i \in DOMAIN output /\ output'[i] = output[i]
            \/ /\ \E j \in 1..Len(rest) : i = Len(output) + j
               /\ output'[i].started = FALSE /\ output'[i].committed = FALSE
    BY <2>1, <2>3, <2>4, Reported DEF InMode
  <2>7. \A i \in DOMAIN output' : Failed(i)' => i \in DOMAIN output /\ Failed(i)
    BY <2>6, Zenon DEF Failed
  <2>8. spec.error # "continue"
    BY <2>1 DEF InMode, Moded
  <2>9. CASE spec.error = "fail"
    BY <1>0, <2>7, <2>9, Zenon DEF InMode, Moded
  <2>10. CASE spec.error = "break"
    <3>1. ASSUME NEW i \in DOMAIN output', NEW j \in DOMAIN output', Failed(i)', i < j
          PROVE  /\ ~ output'[j].committed
                 /\ output'[j].started => (i - 1) \div BatchSize = (j - 1) \div BatchSize
      <4>1. i \in DOMAIN output /\ Failed(i)
        BY <2>7, <3>1, Zenon
      <4>2. CASE j \in DOMAIN output /\ output'[j] = output[j]
        <5>1. /\ ~ output[j].committed
              /\ output[j].started => (i - 1) \div BatchSize = (j - 1) \div BatchSize
          BY <2>10, <3>1, <4>1, <4>2, Zenon DEF InMode, Moded
        <5> QED
          BY <4>2, <5>1, Zenon
      <4> QED
        BY <2>6, <4>2, Zenon
    <3> QED
      BY <1>0, <2>1, <2>10, <3>1 DEF Moded
  <2> QED
    BY <1>0, <2>8, <2>9, <2>10 DEF Modes
<1>5. CASE PullBatch \/ StartBatch \/ Retry \/ Deliver \/ Finish \/ PinOuterWrite \/ OuterWrite
           \/ OtherWrites \/ Expire \/ Cancel \/ UNCHANGED vars
  <2>1. output' = output
    BY <1>5 DEF PullBatch, StartBatch, Retry, Deliver, Finish, PinOuterWrite, OuterWrite, OtherWrites,
                Expire, Cancel, vars
  <2>2. phase' = "skip" => phase = "skip"
    BY <1>5 DEF PullBatch, StartBatch, Retry, Deliver, Finish, PinOuterWrite, OuterWrite, OtherWrites,
                Expire, Cancel, vars
  <2>3. phase' \in {"pull", "start", "run", "deliver"} => phase \in {"pull", "start", "run", "deliver"}
    BY <1>5 DEF PullBatch, StartBatch, Retry, Transient, Deliver, Finish, PinOuterWrite, OuterWrite,
                OtherWrites, Expire, Cancel, vars
  <2> QED
    BY <1>1, <2>1, <2>2, <2>3
<1> QED
  BY <1>2, <1>3, <1>4, <1>5 DEF Next, Advance

LEMMA InModeAtFirst == ASSUME Parameters, Init PROVE InMode
<1>1. InOrder /\ DOMAIN output = {} /\ taken = 0 /\ phase = "pull"
  <2>1. InOrder
    BY InOrderAtFirst
  <2>2. output = <<>> /\ taken = 0 /\ phase = "pull"
    BY DEF Init
  <2> QED
    BY <2>1, <2>2
<1>2. AtBatch(0)
  BY DEF AtBatch, Parameters
<1> QED
  BY <1>1, <1>2 DEF InMode, Aligned, Moded

LEMMA InModeKept == ASSUME Parameters, InMode, [Next]_vars PROVE InMode'
  BY InOrderKept, AlignedKept, ModedKept DEF InMode

LEMMA InModeIsKept == ASSUME Parameters, InMode PROVE ModeIsKept
<1> SUFFICES ASSUME NEW i \in DOMAIN output, NEW j \in DOMAIN output, Failed(i), i < j
             PROVE  CASE spec.error = "fail"     -> FALSE
                      [] spec.error = "break"    -> ~ output[j].committed /\
                             ((j - 1) \div BatchSize > (i - 1) \div BatchSize => ~ output[j].started)
                      [] spec.error = "continue" -> output[j].started
  BY Zenon DEF ModeIsKept, Failed
<1>1. spec.error \in Modes
  BY DEF InMode, InOrder, Shape, AllSpecs
<1>2. spec.error # "fail"
  BY Zenon DEF InMode, Moded
<1>3. CASE spec.error = "continue"
  <2>1. output[j].started
    BY <1>3, Zenon DEF InMode, Moded
  <2> QED
    BY <1>3, <2>1
<1>4. CASE spec.error = "break"
  <2>1. /\ ~ output[j].committed
        /\ output[j].started => (i - 1) \div BatchSize = (j - 1) \div BatchSize
    BY <1>4, Zenon DEF InMode, Moded
  <2>2. i \in Nat /\ j \in Nat /\ BatchSize \in Nat \ {0}
    BY LenProperties DEF InMode, InOrder, Shape, Parameters
  <2>3. (i - 1) \div BatchSize = (j - 1) \div BatchSize => ~ ((j - 1) \div BatchSize > (i - 1) \div BatchSize)
    BY <2>2
  <2> QED
    BY <1>4, <2>1, <2>3
<1> QED
  BY <1>1, <1>2, <1>3, <1>4 DEF Modes

(* Every mode of ON ERROR keeps its promise, for every size of the batches *)
(* and whatever fails, is retried or runs out of time.                     *)
THEOREM ModesAreKept ==
    ASSUME Parameters
    PROVE  Spec => []ModeIsKept
<1>1. Init => InMode
  BY InModeAtFirst
<1>2. InMode /\ [Next]_vars => InMode'
  BY InModeKept
<1>3. InMode => ModeIsKept
  BY InModeIsKept
<1> QED
  BY <1>1, <1>2, <1>3, PTL DEF Spec

=============================================================================
