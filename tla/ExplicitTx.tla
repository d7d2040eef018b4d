----------------------------- MODULE ExplicitTx -----------------------------
(***************************************************************************)
(* One SQLite connection with its lithograph_rows cursors and its explicit *)
(* transaction (lithograph_tx_begin / _commit / _abort), beside the rest of *)
(* the world, which changes the durable database by VersionStore steps.    *)
(*                                                                         *)
(* SQLite is modelled by what the code relies on: work is what this        *)
(* connection sees, equal to db unless the connection has a write          *)
(* transaction open, and while it has one nobody else writes.              *)
(*                                                                         *)
(* An execution is the steps xFilter (Open), the first xNext of a write    *)
(* (StartWrite), the summary (Complete) and xClose before the summary      *)
(* (Cancel).  A scalar lithograph() call is these steps in a row.          *)
(***************************************************************************)
EXTENDS Store, FiniteSets

CONSTANTS
    Cursor,         \* the lithograph_rows cursors of the connection
    Monotonic,      \* whether the system clock never repeats a timestamp
    MaxTx,          \* bound on the explicit transactions begun
    MaxCommits,     \* bounds of the environment, see VersionStore
    MaxRevision,
    MaxSidecars

ASSUME ClockAssumption == Stamp \subseteq Nat /\ Monotonic \in BOOLEAN
ASSUME BoundsAssumption == {MaxTx, MaxCommits, MaxRevision, MaxSidecars} \subseteq Nat

VARIABLES
    db,             \* the durable database
    work,           \* the database as this connection sees it
    open,           \* the connection has a SQLite write transaction open
    tx,             \* ExplicitTransactionState, or NoTx
    begun,          \* how many explicit transactions began
    cursors,        \* the execution of each cursor
    quarantined,    \* quarantine_connection was called
    failed,         \* the last step was an execution that returned an error
    clock           \* the latest timestamp given to a commit

vars == <<db, work, open, tx, begun, cursors, quarantined, failed, clock>>

VS == INSTANCE VersionStore WITH MaxRewritten <- MaxCommits

-----------------------------------------------------------------------------
(* Guards (lithograph-extension/src/lib.rs)                                *)

NoTx == [active |-> FALSE]
Closed == [phase |-> "closed"]

IsOpen(k) == cursors[k].phase # "closed"

(* ACTIVE_SIDE_EFFECTS: a write holds its SideEffectGuard from prepare to  *)
(* the end of its execution.                                               *)
SideEffectActive == \E k \in Cursor : cursors[k].phase \in {"pending", "active"}

(* ACTIVE_READERS.                                                         *)
ReaderActive == \E k \in Cursor : cursors[k].phase = "reading"

(* committed_at of the next commit.  Timestamps are only ever compared for *)
(* equality, so a clock that never repeats one may as well count commits.  *)
Ticks(stamp) == stamp \in Stamp /\ (Monotonic => stamp = clock + 1)

-----------------------------------------------------------------------------
(* Ending the SQLite transaction.                                          *)

(* Mutant: the explicit state survives the ROLLBACK.                       *)
RollbackTxKeepingState(left) ==
    /\ work' = db /\ open' = FALSE
    /\ UNCHANGED <<tx, quarantined>>

(* rollback_explicit_transaction: ROLLBACK and clear the state, or a       *)
(* cleanup that fails: the connection is quarantined with SQLite's         *)
(* transaction open and left in it, and the state is cleared unless an     *)
(* interrupt recovery was what failed.                                     *)
RollbackTx(left) ==
    \/ /\ tx' = NoTx /\ work' = db /\ open' = FALSE
       /\ UNCHANGED quarantined
    \/ /\ open
       /\ quarantined' = TRUE
       /\ tx' \in {NoTx, tx} /\ work' = left
       /\ UNCHANGED open

(* What sql_tx_begin checks before BEGIN IMMEDIATE.                        *)
CanBegin ==
    /\ ~ quarantined
    /\ ~ tx.active
    /\ ~ SideEffectActive
    /\ ~ ReaderActive
    /\ ~ open

(* sql_tx_begin.                                                           *)
TxBegin(b) ==
    /\ CanBegin
    /\ b \in DOMAIN db.branches
    /\ begun < MaxTx
    /\ tx' = [active |-> TRUE, branch |-> b, base |-> db.branches[b], mutated |-> FALSE,
              id |-> begun + 1]
    /\ begun' = begun + 1
    /\ open' = TRUE
    /\ failed' = FALSE
    /\ UNCHANGED <<db, work, cursors, quarantined, clock>>

-----------------------------------------------------------------------------
(* sql_tx_begin after BEGIN IMMEDIATE on a branch that does not exist or   *)
(* is not at expectedHead: ROLLBACK, or quarantine when that fails.        *)
TxBeginFails ==
    /\ CanBegin
    /\ \/ UNCHANGED <<open, quarantined>>
       \/ open' = TRUE /\ quarantined' = TRUE
    /\ failed' = FALSE
    /\ UNCHANGED <<db, work, tx, begun, cursors, clock>>

-----------------------------------------------------------------------------
(* Executions (execution.rs, rows.rs, query/stream/write.rs)               *)

(* AdapterExecution::prepare.  Inside an explicit transaction the branch   *)
(* is the one the transaction began on.                                    *)
Open(k, b, isWrite) ==
    /\ ~ quarantined
    /\ ~ IsOpen(k)
    /\ ~ SideEffectActive
    /\ isWrite => ~ ReaderActive
    /\ tx.active => b = tx.branch
    /\ b \in DOMAIN work.branches
    /\ cursors' = [cursors EXCEPT ![k] =
            [phase |-> IF isWrite THEN "pending" ELSE "reading", branch |-> b,
             pin |-> work.branches[b], explicit |-> tx.active, id |-> begun]]
    /\ failed' = FALSE
    /\ UNCHANGED <<db, work, open, tx, begun, quarantined, clock>>

(* require_no_active_side_effect fails before prepare looks at the         *)
(* explicit transaction: the call returns an error and nothing else.       *)
RefuseNested ==
    /\ ~ quarantined
    /\ SideEffectActive
    /\ failed' = TRUE
    /\ UNCHANGED <<db, work, open, tx, begun, cursors, quarantined, clock>>

(* A call that fails before it has an execution, inside an explicit        *)
(* transaction: an argument that is not TEXT, at any time, or an error of  *)
(* prepare_adapter_execution (a version operation, a write while readers   *)
(* are active, a parse error).                                             *)
FailToPrepare ==
    /\ ~ quarantined
    /\ tx.active
    /\ RollbackTx(work)
    /\ failed' = TRUE
    /\ UNCHANGED <<db, begun, cursors, clock>>

(* start_pending_write: SAVEPOINT, then the write or schema query runs on  *)
(* what the connection sees, on top of the head pinned by prepare.  Outside *)
(* a transaction the savepoint begins one.                                 *)
StartWrite(k, layer, schema, stamp) ==
    LET cursor    == cursors[k]
        persisted == PersistSchema(work, schema)
    IN  /\ ~ quarantined
        /\ cursor.phase = "pending"
        /\ cursor.pin \in work.commits
        /\ \/ schema = cursor.pin.schema /\ ValidWrite(work, cursor.pin, layer)
           \/ layer = EmptyLayer /\ ValidSchemaChange(work, cursor.pin, schema)
        /\ CanCommit(persisted, cursor.branch, <<cursor.pin>>, layer, schema)
        /\ Ticks(stamp)
        /\ work' = CommitChange(persisted, cursor.branch, <<cursor.pin>>, layer, schema, stamp)
        /\ Cardinality(work'.commits) <= MaxCommits
        /\ open' = TRUE
        /\ clock' = stamp
        /\ cursors' = [cursors EXCEPT ![k] =
                [phase |-> "active", explicit |-> cursor.explicit, id |-> cursor.id,
                 saved |-> work, nested |-> open]]
        /\ failed' = FALSE
        /\ UNCHANGED <<db, tx, begun, quarantined>>

(* A read reaches its summary.                                             *)
CompleteRead(k) ==
    /\ ~ quarantined
    /\ cursors[k].phase = "reading"
    /\ cursors' = [cursors EXCEPT ![k] = Closed]
    /\ failed' = FALSE
    /\ UNCHANGED <<db, work, open, tx, begun, quarantined, clock>>

(* A write of the explicit transaction reaches its summary: RELEASE, then  *)
(* mark_explicit_transaction_mutated.                                      *)
CompleteStaged(k) ==
    /\ ~ quarantined
    /\ cursors[k].phase = "active"
    /\ tx.active
    /\ tx' = [tx EXCEPT !.mutated = TRUE]
    /\ cursors' = [cursors EXCEPT ![k] = Closed]
    /\ failed' = FALSE
    /\ UNCHANGED <<db, work, open, begun, quarantined, clock>>

(* A write whose savepoint began the transaction: RELEASE commits it.  When *)
(* the cursor belongs to an explicit transaction that is gone,             *)
(* mark_explicit_transaction_mutated fails after the RELEASE and the       *)
(* caller gets an error.                                                   *)
CompleteDurable(k) ==
    /\ ~ quarantined
    /\ cursors[k].phase = "active"
    /\ ~ cursors[k].nested
    /\ db' = work
    /\ open' = FALSE
    /\ cursors' = [cursors EXCEPT ![k] = Closed]
    /\ failed' = cursors[k].explicit
    /\ UNCHANGED <<work, tx, begun, quarantined, clock>>

(* A write whose savepoint was rolled back under it with its explicit      *)
(* transaction: RELEASE finds no savepoint.                                *)
CompleteStale(k) ==
    /\ ~ quarantined
    /\ cursors[k].phase = "active"
    /\ cursors[k].nested
    /\ ~ tx.active
    /\ cursors' = [cursors EXCEPT ![k] = Closed]
    /\ failed' = TRUE
    /\ UNCHANGED <<db, work, open, tx, begun, quarantined, clock>>

(* cancel, at xClose before the summary or after an error of the           *)
(* execution: back to the savepoint, then a cursor that was opened in an   *)
(* explicit transaction rolls back whatever explicit transaction is active. *)
(* A rescan (xFilter again) is a Cancel and an Open.                       *)
Unwound(k) == IF cursors[k].phase = "active" THEN cursors[k].saved ELSE work

CancelExplicit(k, withError) ==
    /\ ~ quarantined
    /\ IsOpen(k)
    /\ cursors[k].explicit
    /\ tx.active
    /\ RollbackTx(Unwound(k))
    /\ cursors' = [cursors EXCEPT ![k] = Closed]
    /\ failed' = withError
    /\ UNCHANGED <<db, begun, clock>>

(* The same with no explicit transaction to abort.  A savepoint that is    *)
(* gone makes ROLLBACK TO fail, for which xClose quarantines the           *)
(* connection.                                                             *)
CancelPlain(k, withError) ==
    /\ IsOpen(k)
    /\ withError => ~ quarantined
    /\ cursors[k].explicit /\ tx.active => quarantined
    /\ \/ /\ cursors[k].phase # "active"
          /\ UNCHANGED <<work, open, quarantined>>
       \/ /\ cursors[k].phase = "active" /\ open
          /\ work' = cursors[k].saved
          /\ open' = cursors[k].nested
          /\ UNCHANGED quarantined
       \/ /\ cursors[k].phase = "active" /\ ~ open
          /\ quarantined' = (quarantined \/ ~ withError)
          /\ UNCHANGED <<work, open>>
    /\ cursors' = [cursors EXCEPT ![k] = Closed]
    /\ failed' = withError
    /\ UNCHANGED <<db, tx, begun, clock>>

(* interrupt_cleanup::recover while an execution runs: SQLite has rolled   *)
(* the transaction back, or the connection is quarantined with its         *)
(* transaction and its explicit state as they were.                        *)
Interrupt(k) ==
    /\ ~ quarantined
    /\ IsOpen(k)
    /\ cursors[k].phase # "reading" \/ cursors[k].explicit
    /\ cursors' = [cursors EXCEPT ![k] = Closed]
    /\ \/ work' = db /\ open' = FALSE /\ tx' = NoTx /\ UNCHANGED quarantined
       \/ open /\ quarantined' = TRUE /\ UNCHANGED <<work, open, tx>>
    /\ failed' = TRUE
    /\ UNCHANGED <<db, begun, clock>>

-----------------------------------------------------------------------------
(* lithograph_tx_commit and lithograph_tx_abort (transaction.rs)           *)

CanEnd ==
    /\ ~ quarantined
    /\ ~ SideEffectActive
    /\ ~ ReaderActive
    /\ tx.active

(* Mutant: the staged chain is not discarded.                              *)
UnstagedKeepingChain(D, t) == MoveBranch(D, t.branch, t.base)

(* Mutant: the schema is persisted before the chain is discarded.          *)
UnstagedSchemaFirst(D, t) ==
    LET head == D.branches[t.branch]
    IN  DiscardChain(MoveBranch(PersistSchema(D, head.schema), t.branch, t.base),
                     StagedChain(D, t.base, head))

(* finalize_explicit_transaction for a transaction that wrote: the net     *)
(* Layer and the schema are read from the staged chain, the chain is       *)
(* deleted, and one commit on the base takes its place.                    *)
Unstaged(D, t) ==
    LET head == D.branches[t.branch]
    IN  PersistSchema(DiscardChain(MoveBranch(D, t.branch, t.base), StagedChain(D, t.base, head)),
                      head.schema)

NetSchema(D, t) == D.branches[t.branch].schema

NetLayer(D, t) == LayerBetweenCommits(D, t.base, D.branches[t.branch])

TxCommit(stamp) ==
    LET D      == Unstaged(work, tx)
        layer  == NetLayer(work, tx)
        schema == NetSchema(work, tx)
    IN  /\ CanEnd
        /\ tx.mutated
        /\ Ticks(stamp)
        /\ tx.base \in Lineage(work)[work.branches[tx.branch]]
        /\ CanCommit(D, tx.branch, <<tx.base>>, layer, schema)
        /\ db' = CommitChange(D, tx.branch, <<tx.base>>, layer, schema, stamp)
        /\ work' = db'
        /\ open' = FALSE
        /\ tx' = NoTx
        /\ clock' = stamp
        /\ failed' = FALSE
        /\ UNCHANGED <<begun, cursors, quarantined>>

(* finalize_explicit_transaction for a transaction that only read.         *)
TxCommitRead ==
    /\ CanEnd
    /\ ~ tx.mutated
    /\ work.branches[tx.branch] = tx.base
    /\ db' = work
    /\ open' = FALSE
    /\ tx' = NoTx
    /\ failed' = FALSE
    /\ UNCHANGED <<work, begun, cursors, quarantined, clock>>

(* sql_tx_abort, and a sql_tx_commit that fails before or in COMMIT.       *)
TxAbort ==
    /\ CanEnd
    /\ RollbackTx(work)
    /\ failed' = FALSE
    /\ UNCHANGED <<db, begun, cursors, clock>>

-----------------------------------------------------------------------------
(* The rest of the world.                                                  *)

(* The process dies or the host closes the connection; another one opens.  *)
Reconnect ==
    /\ work' = db
    /\ open' = FALSE
    /\ tx' = NoTx
    /\ cursors' = [k \in Cursor |-> Closed]
    /\ quarantined' = FALSE
    /\ failed' = FALSE
    /\ UNCHANGED <<db, begun, clock>>

(* Another connection, or a version operation of this one in autocommit:   *)
(* the steps that add, move and remove the rows a transaction reads.       *)
ElsewhereStep ==
    \/ \E b \in Branch, head \in db.commits, stamp \in Stamp :
           /\ Ticks(stamp)
           /\ clock' = stamp
           /\ \/ \E layer \in Layer : VS!WriteQuery(b, head, layer, stamp)
              \/ \E schema \in Schema : VS!SchemaCommand(b, head, schema, stamp)
    \/ VS!ChangeRefs /\ UNCHANGED clock
    \/ VS!Gc /\ UNCHANGED clock

Elsewhere ==
    /\ ~ open
    /\ ElsewhereStep
    /\ work' = db'
    /\ failed' = FALSE
    /\ UNCHANGED <<open, tx, begun, cursors, quarantined>>

Execute ==
    \E k \in Cursor :
        \/ \E b \in Branch, isWrite \in BOOLEAN : Open(k, b, isWrite)
        \/ \E layer \in Layer, schema \in Schema, stamp \in Stamp :
               StartWrite(k, layer, schema, stamp)
        \/ CompleteRead(k)
        \/ CompleteStaged(k)
        \/ CompleteDurable(k)
        \/ CompleteStale(k)
        \/ \E withError \in BOOLEAN : CancelExplicit(k, withError)
        \/ \E withError \in BOOLEAN : CancelPlain(k, withError)
        \/ Interrupt(k)

Transact ==
    \/ \E b \in Branch : TxBegin(b)
    \/ TxBeginFails
    \/ RefuseNested
    \/ FailToPrepare
    \/ \E stamp \in Stamp : TxCommit(stamp)
    \/ TxCommitRead
    \/ TxAbort

Init ==
    /\ db = InitialDB
    /\ work = db
    /\ open = FALSE
    /\ tx = NoTx
    /\ begun = 0
    /\ cursors = [k \in Cursor |-> Closed]
    /\ quarantined = FALSE
    /\ failed = FALSE
    /\ clock = RootStamp

Next == Transact \/ Execute \/ Reconnect \/ Elsewhere

Spec == Init /\ [][Next]_vars

-----------------------------------------------------------------------------
(* Properties                                                              *)

(* The tables as VersionStore declares them, and each piece of the         *)
(* connection's state a value its code can hold.                           *)
TypeOK ==
    /\ VS!TypeOK
    /\ {open, quarantined, failed} \subseteq BOOLEAN
    /\ tx = NoTx \/ (tx.branch \in Branch /\ tx.id \in 1..begun)
    /\ begun \in 0..MaxTx
    /\ \A k \in Cursor : cursors[k].phase \in {"closed", "reading", "pending", "active"}
    /\ clock \in Stamp

(* Seen from any other connection, an explicit transaction with all its    *)
(* staged commits, failures, early closes, interrupts and crashes is one   *)
(* step of the version store or nothing.                                   *)
ImplementsVersionStore == VS!Spec

(* lithograph_tx_commit publishes exactly one commit, a child of the base  *)
(* with the Snapshot and the schema of the last staged execution; no       *)
(* staged commit and no other reference remains changed.  A quarantined    *)
(* connection that still holds SQLite's transaction commits nothing.       *)
OneCommitPerTx ==
    [][/\ quarantined /\ open => db' = db
       /\ tx.active /\ db' # db =>
          LET staged == work.branches[tx.branch]
              new    == db'.branches[tx.branch]
          IN  /\ tx.mutated /\ ~ tx'.active
              /\ new \notin db.commits
              /\ new.parents = <<tx.base>>
              /\ Resolve(db')[new] = Resolve(work)[staged] /\ new.schema = staged.schema
              /\ db' = [db EXCEPT !.commits = @ \cup {new}, !.layers = @ \cup {new.layer},
                                  !.schemas = @ \cup {new.schema},
                                  !.branches = Put(@, tx.branch, new)]]_vars

(* A transaction that staged anything can always be published: the base is *)
(* still below the staged head, the net Layer passes validation against    *)
(* the base, and deleting the staged chain leaves the schema in place.     *)
FinalizeSucceeds ==
    CanEnd /\ tx.mutated =>
        /\ tx.base \in Lineage(work)[work.branches[tx.branch]]
        /\ CanCommit(Unstaged(work, tx), tx.branch, <<tx.base>>, NetLayer(work, tx),
                     NetSchema(work, tx))

(* The mutated flag is what tx_commit decides by, and only complete sets   *)
(* it: without it, and with no write under way, nothing is staged.  So the *)
(* head check of a read-only commit never fails.                           *)
UnmutatedMeansUntouched ==
    tx.active /\ ~ tx.mutated /\ ~ quarantined
        /\ (\A k \in Cursor : cursors[k].phase # "active") => work = db

(* Cancelling a cursor of an explicit transaction aborts whatever explicit *)
(* transaction is active then.  It is always the cursor's own: no cursor   *)
(* outlives its transaction into the next one.                             *)
CursorsBelongToTx ==
    \A k \in Cursor : tx.active /\ IsOpen(k) => cursors[k].explicit /\ cursors[k].id = tx.id

(* While an explicit transaction is active the connection holds SQLite's   *)
(* write transaction, and when it holds none it sees nothing that is not   *)
(* durable.                                                                *)
TxHoldsTransaction == (tx.active => open) /\ (~ open => work = db)

(* What the connection keeps between its calls agrees: its explicit        *)
(* transaction, SQLite's, what is staged in it and the open cursors.       *)
ConnectionIsConsistent == TxHoldsTransaction /\ CursorsBelongToTx /\ UnmutatedMeansUntouched

(* After any failure the explicit transaction is rolled back and nothing   *)
(* that was executed in it becomes durable (docs/design/storage.md:337).   *)
StagedStaysStaged ==
    [][\A k \in Cursor :
          cursors[k].phase = "active" /\ cursors[k].explicit /\ ~ IsOpen(k)' => db' = db]_vars

=============================================================================
