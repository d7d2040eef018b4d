---------------------------- MODULE ActiveBranch ----------------------------
(***************************************************************************)
(* The active branch of a connection: a row of a TEMP table that other     *)
(* connections neither see nor respect.  A query is prepared, which pins   *)
(* the head it reads and, for a graph write, its branch; it runs later,    *)
(* after branches were deleted, made again or moved and after the          *)
(* connection itself checked out another branch.                           *)
(***************************************************************************)
EXTENDS Integers

CONSTANTS
    Connection,
    Branch,      \* branch names, "main" among them
    MaxCommit,   \* bound on the commits
    Deleted      \* the head of a branch that is not there

VARIABLES
    head,      \* head[b]: the commit of branch b
    active,    \* active[c]: the TEMP row of connection c, uncommitted changes included
    saved,     \* saved[c]: the row a ROLLBACK TO of c's open checkout restores
    pending,   \* pending[c]: the query c prepared and did not run yet
    last       \* the highest commit

vars == <<head, active, saved, pending, last>>

None == [kind |-> "none"]
Commits == 1..MaxCommit
Exists(b) == head[b] # Deleted

Init ==
    /\ head = [b \in Branch |-> IF b = "main" THEN 1 ELSE Deleted]
    /\ active = [c \in Connection |-> "main"] /\ saved = active
    /\ pending = [c \in Connection |-> None] /\ last = 1

-----------------------------------------------------------------------------
CreateBranch(c, b) ==
    /\ ~ Exists(b) /\ Exists(active[c])
    /\ head' = [head EXCEPT ![b] = head[active[c]]]
    /\ UNCHANGED <<active, saved, pending, last>>

(* branch_delete: neither main nor the connection's own active branch.     *)
DeleteBranch(c, b) ==
    /\ b # "main" /\ active[c] # b /\ Exists(b)
    /\ head' = [head EXCEPT ![b] = Deleted]
    /\ UNCHANGED <<active, saved, pending, last>>

(* branch_checkout inside the cursor's savepoint.                          *)
Checkout(c, b) ==
    /\ active[c] = saved[c] /\ active[c] # b
    /\ Exists(b)
    /\ active' = [active EXCEPT ![c] = b]
    /\ UNCHANGED <<head, saved, pending, last>>

CompleteCheckout(c) ==
    /\ active[c] # saved[c]
    /\ saved' = [saved EXCEPT ![c] = active[c]]
    /\ UNCHANGED <<head, active, pending, last>>

CancelCheckout(c) ==
    /\ active[c] # saved[c]
    /\ active' = [active EXCEPT ![c] = saved[c]]
    /\ UNCHANGED <<head, saved, pending, last>>

(* The process ends; its TEMP table goes with it.                          *)
Reopen(c) ==
    /\ active' = [active EXCEPT ![c] = "main"] /\ saved' = [saved EXCEPT ![c] = "main"]
    /\ pending' = [pending EXCEPT ![c] = None]
    /\ UNCHANGED <<head, last>>

-----------------------------------------------------------------------------
(* resolve_commit and writable_branch: "b" is options.branch, or the       *)
(* active branch when the option is not given.                             *)
Prepare(c, kind, b) ==
    /\ pending[c] = None /\ active[c] = saved[c]
    /\ Exists(b)
    /\ pending' = [pending EXCEPT ![c] =
           [kind |-> kind, explicit |-> b # active[c], branch |-> b, pinned |-> head[b]]]
    /\ UNCHANGED <<head, active, saved, last>>

(* Mutant: a graph write looks its branch up again when it runs.           *)
WriteTargetAtRun(c) == IF pending[c].explicit THEN pending[c].branch ELSE active[c]

(* PreparedWrite.branch, taken when the query was prepared.                *)
WriteTarget(c) == pending[c].branch

(* target_branch of a version procedure, evaluated when it runs.           *)
ProcedureTarget(c) == IF pending[c].explicit THEN pending[c].branch ELSE active[c]

(* ensure_target_branch_head, compare_and_move_branch.                     *)
AtPinnedHead(b, pinned) == Exists(b) /\ head[b] = pinned

Finish(c) == pending' = [pending EXCEPT ![c] = None]

Write(c) ==
    /\ pending[c].kind = "write"
    /\ AtPinnedHead(WriteTarget(c), pending[c].pinned) /\ last < MaxCommit
    /\ last' = last + 1 /\ head' = [head EXCEPT ![WriteTarget(c)] = last + 1]
    /\ Finish(c) /\ UNCHANGED <<active, saved>>

(* reset and its like: the branch is moved to a commit there is.           *)
Procedure(c) ==
    /\ pending[c].kind = "procedure"
    /\ AtPinnedHead(ProcedureTarget(c), pending[c].pinned)
    /\ \E target \in 1..last : head' = [head EXCEPT ![ProcedureTarget(c)] = target]
    /\ Finish(c) /\ UNCHANGED <<active, saved, last>>

(* BRANCH_NOT_FOUND, WRITE_CONFLICT: nothing is written.                   *)
Refuse(c) ==
    /\ \/ pending[c].kind = "write" /\ ~ AtPinnedHead(WriteTarget(c), pending[c].pinned)
       \/ pending[c].kind = "procedure" /\ ~ AtPinnedHead(ProcedureTarget(c), pending[c].pinned)
    /\ Finish(c) /\ UNCHANGED <<head, active, saved, last>>

Next ==
    \E c \in Connection :
        \/ \E b \in Branch : CreateBranch(c, b) \/ DeleteBranch(c, b) \/ Checkout(c, b)
        \/ \E b \in Branch, kind \in {"write", "procedure"} : Prepare(c, kind, b)
        \/ CompleteCheckout(c) \/ CancelCheckout(c) \/ Reopen(c)
        \/ Write(c) \/ Procedure(c) \/ Refuse(c)

Spec == Init /\ [][Next]_vars

-----------------------------------------------------------------------------
(* Properties                                                              *)

Query == [kind : {"write", "procedure"}, explicit : BOOLEAN, branch : Branch, pinned : Nat]

TypeOK ==
    /\ head \in [Branch -> Nat] /\ last \in Nat \ {0}
    /\ active \in [Connection -> Branch] /\ saved \in [Connection -> Branch]
    /\ pending \in [Connection -> {None} \cup Query]

(* The connection that ran a query in this step.                           *)
RanQuery(c) == pending[c] # None /\ pending'[c] = None

(* A query changes the branch it read and nothing else: a graph write goes *)
(* to the branch that was active when it was prepared, whatever was        *)
(* checked out or deleted since; a procedure moves a branch only from the  *)
(* commit it was prepared at.  A deleted active branch is refused, and     *)
(* nothing falls back to main.                                             *)
HitsWhatItRead ==
    \A c \in Connection : RanQuery(c) =>
        \A b \in Branch : head'[b] # head[b] =>
            /\ head[b] = pending[c].pinned /\ head'[b] # Deleted
            /\ pending[c].kind = "write" \/ pending[c].explicit => b = pending[c].branch
QueryHitsWhatItRead == [][HitsWhatItRead]_vars

=============================================================================
