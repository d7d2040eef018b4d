---------------------------- MODULE MergeSession ----------------------------
(***************************************************************************)
(* Merge sessions on several SQLite connections.  A version procedure runs *)
(* in the savepoint of its write cursor, which is a deferred transaction:  *)
(* its first read pins a snapshot, it computes the merge from that, and    *)
(* its first write asks for the writer lock.  SQLite refuses the lock with *)
(* BUSY while another connection holds it or when the snapshot is no       *)
(* longer the latest; the cursor rolls back and, for resolve, finalize and *)
(* abort outside any transaction of the host, tries once more.             *)
(***************************************************************************)
EXTENDS Integers, TLAPS

CONSTANTS
    Connection, Nobody,
    Session, Conflict, Choice, NoSession, Ended, MaxHeads, MaxRevision  \* as in MergeSessionSpec

VARIABLES
    disk,    \* the database as committed
    conn,    \* per connection: its write cursor
    writer,  \* the connection that holds SQLite's writer lock, or Nobody
    seen     \* every session state that was ever committed, by id and revision

vars == <<disk, conn, writer, seen>>

Promise == INSTANCE MergeSessionSpec WITH db <- disk

Calls ==
    [kind : {"write"}] \cup [kind : {"start"}, session : Session, checked : BOOLEAN]
    \cup [kind : {"resolve"}, session : Session, revision : 1..MaxRevision - 1,
          choices : Promise!Resolutions \ {Promise!NoResolutions}]
    \cup [kind : {"finalize", "abort"}, session : Session, revision : 1..MaxRevision]

NoCursor == [phase |-> "idle"]

Init ==
    /\ Promise!Init
    /\ conn = [c \in Connection |-> NoCursor]
    /\ writer = Nobody /\ seen = {}

-----------------------------------------------------------------------------
(* What a procedure computes from its snapshot d before it writes.         *)

(* The errors of start, resolve and prepare_finalize.                      *)
Refused(call, d) ==
    CASE call.kind = "resolve" ->
             \/ ~ Promise!AtRevision(d, call.session, call.revision)
             \/ d.sessions[call.session].ours.relation # "diverged"
      [] call.kind = "finalize" ->
             \/ ~ Promise!AtRevision(d, call.session, call.revision)
             \/ Promise!Unresolved(d.sessions[call.session]) # {}
      [] OTHER -> FALSE

(* What is carried from the reads to the writes: whether a resolve changes *)
(* anything, the session and the candidate of a finalize, the commit a     *)
(* write or a start was prepared at.                                       *)
Plan(call, pinned, d) ==
    CASE call.kind = "resolve"  -> Promise!Override(d.sessions[call.session].resolutions, call.choices)
                                      # d.sessions[call.session].resolutions
      [] call.kind = "finalize" -> d.sessions[call.session]
      [] OTHER                  -> pinned

(* What it writes under the writer lock.                                   *)

(* Mutant: the head that the merge was computed for is not compared.       *)
FailsButForHead(call, plan, d) ==
    CASE call.kind = "write" -> d.head # plan \/ d.head.number >= MaxHeads
      [] call.kind = "start" -> d.sessions[call.session] # NoSession \/ (call.checked /\ d.head # plan)
      [] OTHER -> ~ Promise!AtRevision(d, call.session, call.revision)

(* The compare-and-set statements of create_merge_session,                 *)
(* update_merge_resolutions, delete_merge_session and the branch; writes   *)
(* end at the bound.                                                       *)
Fails(call, plan, d) ==
    CASE call.kind = "write" -> d.head # plan \/ d.head.number >= MaxHeads
      [] call.kind = "start" -> d.sessions[call.session] # NoSession \/ (call.checked /\ d.head # plan)
      [] call.kind = "finalize" ->
             ~ Promise!AtRevision(d, call.session, call.revision) \/ d.head # plan.ours
      [] OTHER -> ~ Promise!AtRevision(d, call.session, call.revision)

(* Mutant: the revision is not moved.                                      *)
ResolvedInPlace(d, call, changes) ==
    [d EXCEPT !.sessions[call.session].resolutions = Promise!Override(@, call.choices)]

(* update_merge_resolutions.                                               *)
Resolved(d, call, changes) ==
    LET session == d.sessions[call.session]
    IN  Promise!Decided(d, call.session, Promise!Override(session.resolutions, call.choices),
                        IF changes THEN session.revision + 1 ELSE session.revision)

(* apply_finalize_action and delete_merge_session.                         *)
Finalized(d, call, session) ==
    LET merge == [session |-> call.session, ours |-> session.ours, revision |-> call.revision,
                  resolutions |-> session.resolutions]
    IN  IF session.ours.relation = "up_to_date" THEN Promise!Close(d, call.session)
        ELSE [Promise!Move(Promise!Close(d, call.session), Promise!Merged(d.head)) EXCEPT !.merges = @ \cup {merge}]

Written(call, plan, d) ==
    CASE call.kind = "write"    -> Promise!Move(d, Promise!Advanced(d.head))
      [] call.kind = "start"    -> Promise!Started(d, call.session, plan)
      [] call.kind = "resolve"  -> Resolved(d, call, plan)
      [] call.kind = "finalize" -> Finalized(d, call, plan)
      [] call.kind = "abort"    -> Promise!Close(d, call.session)

-----------------------------------------------------------------------------
(* The steps of the cursor of connection c.                                *)

(* The query is prepared; its commit is the head of the branch by now.     *)
Prepare(c) ==
    /\ conn[c] = NoCursor
    /\ \E call \in Calls :
           conn' = [conn EXCEPT ![c] = [phase |-> "pending", call |-> call, pinned |-> disk.head, attempt |-> 1]]
    /\ UNCHANGED <<disk, writer, seen>>

(* SAVEPOINT and the reads of the procedure.                               *)
Read(c) ==
    LET cursor == conn[c]
    IN  /\ cursor.phase = "pending"
        /\ conn' = [conn EXCEPT ![c] =
               IF Refused(cursor.call, disk) THEN NoCursor
               ELSE [phase |-> "prepared", call |-> cursor.call, pinned |-> cursor.pinned,
                     attempt |-> cursor.attempt, stale |-> FALSE,
                     plan |-> Plan(cursor.call, cursor.pinned, disk)]]
        /\ UNCHANGED <<disk, writer, seen>>

(* SQLite: the lock is free and the snapshot is the latest.                *)
HasLock(c) == writer = Nobody /\ ~ conn[c].stale

(* The first write statement and, under the lock, all the others.          *)
WriteRows(c) ==
    LET cursor == conn[c]
    IN  /\ cursor.phase = "prepared" /\ HasLock(c)
        /\ IF Fails(cursor.call, cursor.plan, disk)
           THEN conn' = [conn EXCEPT ![c] = NoCursor] /\ UNCHANGED writer
           ELSE /\ conn' = [conn EXCEPT ![c] = [phase |-> "active",
                                                local |-> Written(cursor.call, cursor.plan, disk)]]
                /\ writer' = c
        /\ UNCHANGED <<disk, seen>>

(* BUSY: the savepoint is rolled back; start_pending_write tries a session *)
(* procedure a second time.                                                *)
Busy(c) ==
    LET cursor == conn[c]
        again  == cursor.attempt = 1 /\ cursor.call.kind \in {"resolve", "finalize", "abort"}
    IN  /\ cursor.phase = "prepared" /\ ~ HasLock(c)
        /\ conn' = [conn EXCEPT ![c] = IF again
               THEN [phase |-> "pending", call |-> cursor.call, pinned |-> cursor.pinned, attempt |-> 2]
               ELSE NoCursor]
        /\ UNCHANGED <<disk, writer, seen>>

OpenStates(d) ==
    {[session |-> s, revision |-> d.sessions[s].revision, resolutions |-> d.sessions[s].resolutions] :
        s \in {t \in Session : d.sessions[t] \notin {NoSession, Ended}}}

(* complete: RELEASE publishes the changes; other snapshots fall behind.   *)
Complete(c) ==
    /\ conn[c].phase = "active"
    /\ disk' = conn[c].local /\ writer' = Nobody
    /\ conn' = [k \in Connection |->
                   CASE k = c -> NoCursor
                     [] k # c /\ conn[k].phase = "prepared" -> [conn[k] EXCEPT !.stale = TRUE]
                     [] OTHER -> conn[k]]
    /\ seen' = seen \cup OpenStates(disk')

(* cancel, an interrupt, a panic, a failed RELEASE: the savepoint is       *)
(* rolled back and the query is not tried again.                           *)
Cancel(c) ==
    /\ conn[c].phase # "idle"
    /\ conn' = [conn EXCEPT ![c] = NoCursor]
    /\ writer' = IF writer = c THEN Nobody ELSE writer
    /\ UNCHANGED <<disk, seen>>

(* The process dies; SQLite discards what was not released.                *)
Crash ==
    /\ conn' = [c \in Connection |-> NoCursor] /\ writer' = Nobody
    /\ UNCHANGED <<disk, seen>>

Next ==
    \/ \E c \in Connection :
           Prepare(c) \/ Read(c) \/ WriteRows(c) \/ Busy(c) \/ Complete(c) \/ Cancel(c)
    \/ Crash

Spec == Init /\ [][Next]_vars

(* A cursor that was started is stepped, and then completed or closed: the *)
(* scalar function does so itself and SQLite finalizes every table scan.   *)
Advance(c) == Read(c) \/ WriteRows(c) \/ Busy(c) \/ Complete(c)

LiveSpec == Spec /\ \A c \in Connection : WF_vars(Advance(c))

-----------------------------------------------------------------------------
(* Properties                                                              *)

(* Two-phase procedures on several connections, with retries, cancelled    *)
(* cursors and crashes, are the atomic operations that MergeSessionSpec    *)
(* promises.                                                               *)
ImplementsPromise == Promise!Spec

(* A revision names one set of resolutions: what a caller reads at a       *)
(* revision, in a candidate query or a conflict page, is what finalize at  *)
(* that revision commits.                                                  *)
RevisionNamesResolutions ==
    /\ \A x, y \in seen : x.session = y.session /\ x.revision = y.revision => x = y
    /\ \A merge \in disk.merges : \A x \in seen :
           x.session = merge.session /\ x.revision = merge.revision => x.resolutions = merge.resolutions

(* start_pending_write: "optimistic write retry did not terminate" is      *)
(* never reached; every query ends.                                        *)
Running(c) == conn[c].phase # "idle"
EveryQueryEnds == \A c \in Connection : Running(c) ~> ~ Running(c)

-----------------------------------------------------------------------------
(* Theorems                                                                *)

(* The ids and the connection that stand for "none" are none of the values *)
(* they are told apart from.                                               *)
Distinct ==
    /\ Nobody \notin Connection
    /\ NoSession # Ended /\ {NoSession, Ended} \cap Promise!OpenSession = {}
    /\ MaxRevision \in Nat \ {0}

Sensible(d) == d \in Promise!Database /\ d.head \in d.heads

(* The changes of the database that the promise knows, and none.           *)
Outcome(d, e) ==
    \/ e = d
    \/ e = Promise!Move(d, Promise!Advanced(d.head))
    \/ \E s \in Session, ours \in d.heads :
           d.sessions[s] = NoSession /\ e = Promise!Started(d, s, ours)
    \/ \E s \in Session, revision \in 1..MaxRevision - 1, choices \in Promise!Resolutions :
           /\ Promise!AtRevision(d, s, revision) /\ d.sessions[s].ours.relation = "diverged"
           /\ Promise!Override(d.sessions[s].resolutions, choices) # d.sessions[s].resolutions
           /\ e = Promise!Decided(d, s, Promise!Override(d.sessions[s].resolutions, choices),
                                  revision + 1)
    \/ \E s \in Session, revision \in 1..MaxRevision :
           /\ Promise!AtRevision(d, s, revision)
           /\ \/ /\ d.head = d.sessions[s].ours /\ Promise!Unresolved(d.sessions[s]) = {}
                 /\ e = Finalized(d, [session |-> s, revision |-> revision], d.sessions[s])
              \/ e = Promise!Close(d, s)

(* What the cursors hold: a snapshot that is still the latest is the disk, *)
(* and the one transaction that writes leaves an outcome.                  *)
CursorOK(c) ==
    LET cursor == conn[c]
    IN  \/ cursor = NoCursor
        \/ /\ cursor = [phase |-> "pending", call |-> cursor.call, pinned |-> cursor.pinned,
                        attempt |-> cursor.attempt]
           /\ cursor.call \in Calls /\ cursor.pinned \in disk.heads
        \/ /\ cursor = [phase |-> "prepared", call |-> cursor.call, pinned |-> cursor.pinned,
                        attempt |-> cursor.attempt, stale |-> cursor.stale, plan |-> cursor.plan]
           /\ cursor.call \in Calls /\ cursor.pinned \in disk.heads /\ cursor.stale \in BOOLEAN
           /\ ~ cursor.stale => /\ ~ Refused(cursor.call, disk)
                                /\ cursor.plan = Plan(cursor.call, cursor.pinned, disk)
        \/ /\ cursor = [phase |-> "active", local |-> cursor.local]
           /\ writer = c /\ Outcome(disk, cursor.local)

(* The states of a session that were seen lie behind its present one.      *)
SeenOK ==
    /\ OpenStates(disk) \subseteq seen
    /\ \A x \in seen :
           /\ x.session \in Session /\ disk.sessions[x.session] # NoSession
           /\ disk.sessions[x.session] # Ended =>
                  /\ x.revision <= disk.sessions[x.session].revision
                  /\ x.revision = disk.sessions[x.session].revision =>
                         x.resolutions = disk.sessions[x.session].resolutions
    /\ \A merge \in disk.merges : disk.sessions[merge.session] = Ended
    /\ \A x \in seen :
          /\ x = [session |-> x.session, revision |-> x.revision, resolutions |-> x.resolutions]
          /\ x.revision \in Nat

Serial ==
    /\ Sensible(disk)
    /\ conn = [c \in Connection |-> conn[c]]
    /\ \A c \in Connection : CursorOK(c)
    /\ SeenOK /\ RevisionNamesResolutions

LEMMA OverrideTyped ==
    ASSUME NEW old \in Promise!Resolutions, NEW new \in Promise!Resolutions
    PROVE  Promise!Override(old, new) \in Promise!Resolutions
<1>1. PICK A \in SUBSET Conflict, B \in SUBSET Conflict : old \in [A -> Choice] /\ new \in [B -> Choice]
  BY DEF Promise!Resolutions
<1>2. Promise!Override(old, new) \in [A \cup B -> Choice]
  BY <1>1 DEF Promise!Override
<1>3. A \cup B \in SUBSET Conflict
  BY <1>1
<1> QED
  BY <1>2, <1>3 DEF Promise!Resolutions

LEMMA OutcomeRefines == Distinct /\ Outcome(disk, disk') => [Promise!Next]_disk
<1> SUFFICES ASSUME Distinct, Outcome(disk, disk'), disk' # disk PROVE Promise!Next
  OBVIOUS
<1>1. ASSUME NEW s \in Session, NEW ours \in disk.heads,
             disk.sessions[s] = NoSession, disk' = Promise!Started(disk, s, ours)
      PROVE  Promise!Next
  BY <1>1 DEF Promise!Next, Promise!Start
<1>2. ASSUME NEW s \in Session, NEW revision \in 1..MaxRevision - 1, NEW choices \in Promise!Resolutions,
             Promise!AtRevision(disk, s, revision), disk.sessions[s].ours.relation = "diverged",
             Promise!Override(disk.sessions[s].resolutions, choices) # disk.sessions[s].resolutions,
             disk' = Promise!Decided(disk, s, Promise!Override(disk.sessions[s].resolutions, choices),
                                     revision + 1)
      PROVE  Promise!Next
  <2>1. revision \in 1..MaxRevision
    BY DEF Distinct
  <2>2. Promise!Resolve(s, revision)
    BY <1>2 DEF Promise!Resolve
  <2> QED
    BY <2>1, <2>2 DEF Promise!Next
<1>3. ASSUME NEW s \in Session, NEW revision \in 1..MaxRevision,
             Promise!AtRevision(disk, s, revision), disk.head = disk.sessions[s].ours,
             Promise!Unresolved(disk.sessions[s]) = {},
             disk' = Finalized(disk, [session |-> s, revision |-> revision], disk.sessions[s])
      PROVE  Promise!Next
  BY <1>3 DEF Promise!Next, Promise!Finalize, Finalized
<1>4. ASSUME NEW s \in Session, NEW revision \in 1..MaxRevision,
             Promise!AtRevision(disk, s, revision), disk' = Promise!Close(disk, s)
      PROVE  Promise!Next
  BY <1>4 DEF Promise!Next, Promise!Abort
<1>5. CASE disk' = Promise!Move(disk, Promise!Advanced(disk.head))
  BY <1>5 DEF Promise!Next, Promise!Write
<1> QED
  BY <1>1, <1>2, <1>3, <1>4, <1>5 DEF Outcome

(* What the cursor of a procedure writes under the lock, when its plan is  *)
(* from the same database.                                                 *)
LEMMA WrittenIsOutcome ==
    ASSUME NEW d, Sensible(d), NEW call \in Calls, NEW pinned \in d.heads,
           ~ Refused(call, d), ~ Fails(call, Plan(call, pinned, d), d)
    PROVE  Outcome(d, Written(call, Plan(call, pinned, d), d))
<1> DEFINE s == call.session
           revision == call.revision
<1>1. CASE call.kind = "write"
  BY <1>1 DEF Written, Outcome
<1>2. CASE call.kind = "start"
  <2>1. s \in Session
    BY <1>2 DEF Calls
  <2>2. d.sessions[s] = NoSession /\ Plan(call, pinned, d) = pinned
    BY <1>2 DEF Fails, Plan
  <2> QED
    BY <1>2, <2>1, <2>2 DEF Written, Outcome
<1>3. CASE call.kind = "resolve"
  <2>1. s \in Session /\ revision \in 1..MaxRevision - 1 /\ call.choices \in Promise!Resolutions
    BY <1>3 DEF Calls
  <2>2. Promise!AtRevision(d, s, revision) /\ d.sessions[s].ours.relation = "diverged"
    BY <1>3 DEF Refused
  <2> DEFINE old == d.sessions[s].resolutions
             new == Promise!Override(old, call.choices)
  <2>3. Plan(call, pinned, d) <=> new # old
    BY <1>3 DEF Plan
  <2>4. d.sessions[s].revision = revision
    BY <2>2 DEF Promise!AtRevision
  <2>5. Written(call, Plan(call, pinned, d), d)
            = Promise!Decided(d, s, new, IF new # old THEN revision + 1 ELSE revision)
    BY <1>3, <2>3, <2>4 DEF Written, Resolved
  <2>6. CASE new # old
    BY <2>1, <2>2, <2>5, <2>6 DEF Outcome
  <2>7. CASE new = old
    <3>1. d.sessions[s] \in Promise!OpenSession
      BY <2>1, <2>2 DEF Sensible, Promise!Database, Promise!AtRevision
    <3>2. d.sessions[s] = [ours |-> d.sessions[s].ours, revision |-> revision, resolutions |-> old]
      BY <2>4, <3>1 DEF Promise!OpenSession
    <3> HIDE DEF old, new
    <3>3. Promise!Decided(d, s, new, revision) = [d EXCEPT !.sessions[s] = d.sessions[s]]
      BY <2>7, <3>2 DEF Promise!Decided
    <3>4. [d EXCEPT !.sessions[s] = d.sessions[s]] = d
      BY DEF Sensible, Promise!Database
    <3> QED
      BY <2>5, <2>7, <3>3, <3>4 DEF Outcome
  <2> QED
    BY <2>6, <2>7
<1>4. CASE call.kind = "finalize"
  <2>1. s \in Session /\ revision \in 1..MaxRevision
    BY <1>4 DEF Calls
  <2>2. Plan(call, pinned, d) = d.sessions[s]
    BY <1>4 DEF Plan
  <2>3. /\ Promise!AtRevision(d, s, revision) /\ d.head = d.sessions[s].ours
        /\ Promise!Unresolved(d.sessions[s]) = {}
    BY <1>4, <2>2 DEF Refused, Fails
  <2>4. Written(call, Plan(call, pinned, d), d) = Finalized(d, call, d.sessions[s])
    BY <1>4, <2>2 DEF Written
  <2>5. Finalized(d, call, d.sessions[s])
            = Finalized(d, [session |-> s, revision |-> revision], d.sessions[s])
    BY DEF Finalized
  <2> QED
    BY <2>1, <2>3, <2>4, <2>5 DEF Outcome
<1>5. CASE call.kind = "abort"
  <2>1. s \in Session /\ revision \in 1..MaxRevision
    BY <1>5 DEF Calls
  <2>2. Promise!AtRevision(d, s, revision)
    BY <1>5 DEF Fails
  <2> QED
    BY <1>5, <2>1, <2>2 DEF Written, Outcome
<1>6. call.kind \in {"write", "start", "resolve", "finalize", "abort"}
  BY DEF Calls
<1> QED
  BY <1>1, <1>2, <1>3, <1>4, <1>5, <1>6

(* The rows of a database are the fields of its record.                    *)
LEMMA Fields ==
    ASSUME NEW d, d = [sessions |-> d.sessions, head |-> d.head, heads |-> d.heads, merges |-> d.merges],
           NEW x, NEW v, NEW s
    PROVE  /\ Promise!Move(d, x) = [sessions |-> d.sessions, head |-> x, heads |-> d.heads \cup {x},
                                    merges |-> d.merges]
           /\ [d EXCEPT !.sessions[s] = v] = [sessions |-> [d.sessions EXCEPT ![s] = v], head |-> d.head,
                                              heads |-> d.heads, merges |-> d.merges]
<1>1. [d EXCEPT !.sessions[s] = v] = [sessions |-> [d.sessions EXCEPT ![s] = v], head |-> d.head,
                                      heads |-> d.heads, merges |-> d.merges]
  OBVIOUS
<1> DEFINE more == d.heads \cup {x}
           e == [d EXCEPT !.head = x]
<1> HIDE DEF more
<1>2. e = [sessions |-> d.sessions, head |-> x, heads |-> d.heads, merges |-> d.merges]
  OBVIOUS
<1>3. [d EXCEPT !.head = x, !.heads = more] = [e EXCEPT !.heads = more]
  OBVIOUS
<1> HIDE DEF e
<1>4. [e EXCEPT !.heads = more]
          = [sessions |-> d.sessions, head |-> x, heads |-> more, merges |-> d.merges]
  BY <1>2
<1>5. Promise!Move(d, x) = [d EXCEPT !.head = x, !.heads = more]
  BY DEF Promise!Move, more
<1> QED
  BY <1>1, <1>3, <1>4, <1>5 DEF more

(* How an outcome changes the sessions.                                    *)
LEMMA OutcomeFields ==
    ASSUME Distinct, NEW d, Sensible(d), NEW e, Outcome(d, e)
    PROVE  /\ Sensible(e) /\ d.heads \subseteq e.heads
           /\ \/ e.sessions = d.sessions /\ e.merges = d.merges
              \/ \E s \in Session, new \in Promise!OpenSession :
                    /\ e.sessions = [d.sessions EXCEPT ![s] = new] /\ e.merges = d.merges
                    /\ \/ d.sessions[s] = NoSession
                       \/ /\ d.sessions[s] \in Promise!OpenSession
                          /\ new.revision = d.sessions[s].revision + 1
              \/ \E s \in Session :
                    /\ d.sessions[s] \in Promise!OpenSession
                    /\ e.sessions = [d.sessions EXCEPT ![s] = Ended]
                    /\ \/ e.merges = d.merges
                       \/ e.merges = d.merges \cup
                             {[session |-> s, ours |-> d.sessions[s].ours,
                               revision |-> d.sessions[s].revision,
                               resolutions |-> d.sessions[s].resolutions]}
<1>1. /\ d = [sessions |-> d.sessions, head |-> d.head, heads |-> d.heads, merges |-> d.merges]
      /\ d.sessions \in [Session -> {NoSession, Ended} \cup Promise!OpenSession]
      /\ d.head \in Promise!Head /\ d.heads \subseteq Promise!Head /\ d.head \in d.heads
      /\ d.merges \subseteq [session : Session, ours : Promise!Head, revision : 1..MaxRevision,
                             resolutions : Promise!Resolutions]
  BY DEF Sensible, Promise!Database
<1>2. ASSUME NEW f, f.sessions \in [Session -> {NoSession, Ended} \cup Promise!OpenSession],
             f = [sessions |-> f.sessions, head |-> f.head, heads |-> f.heads, merges |-> f.merges],
             f.head \in f.heads, f.heads \subseteq Promise!Head,
             f.merges \subseteq [session : Session, ours : Promise!Head, revision : 1..MaxRevision,
                                resolutions : Promise!Resolutions]
      PROVE  Sensible(f)
  BY <1>2 DEF Sensible, Promise!Database
<1>3. CASE e = d
  BY <1>3
<1>4. /\ \A x : Promise!Move(d, x) = [sessions |-> d.sessions, head |-> x, heads |-> d.heads \cup {x},
                                        merges |-> d.merges]
      /\ \A s, v : [d EXCEPT !.sessions[s] = v]
                      = [sessions |-> [d.sessions EXCEPT ![s] = v], head |-> d.head,
                         heads |-> d.heads, merges |-> d.merges]
  BY <1>1, Fields
<1>5. CASE e = Promise!Move(d, Promise!Advanced(d.head))
  <2> DEFINE x == Promise!Advanced(d.head)
  <2>1. x \in Promise!Head
    BY <1>1 DEF Promise!Advanced, Promise!Head, Promise!Relation
  <2> HIDE DEF x
  <2>2. e = [sessions |-> d.sessions, head |-> x, heads |-> d.heads \cup {x}, merges |-> d.merges]
    BY <1>4, <1>5 DEF x
  <2>3. Sensible(e)
    BY <1>1, <1>2, <2>1, <2>2
  <2> QED
    BY <2>2, <2>3
<1>6. ASSUME NEW s \in Session, NEW ours \in d.heads,
             d.sessions[s] = NoSession, e = Promise!Started(d, s, ours)
      PROVE  /\ Sensible(e) /\ d.heads \subseteq e.heads /\ e.merges = d.merges
             /\ \E new \in Promise!OpenSession : e.sessions = [d.sessions EXCEPT ![s] = new]
  <2> DEFINE new == [ours |-> ours, revision |-> 1, resolutions |-> Promise!NoResolutions]
  <2>1. Promise!NoResolutions \in Promise!Resolutions
    <3>1. Promise!NoResolutions \in [{} -> Choice] /\ {} \in SUBSET Conflict
      BY DEF Promise!NoResolutions
    <3> QED
      BY <3>1 DEF Promise!Resolutions
  <2>2. new \in Promise!OpenSession
    BY <1>1, <2>1 DEF Promise!OpenSession, Distinct
  <2>3. e = [d EXCEPT !.sessions[s] = new]
    BY <1>6 DEF Promise!Started
  <2> HIDE DEF new
  <2>4. e = [sessions |-> [d.sessions EXCEPT ![s] = new], head |-> d.head, heads |-> d.heads,
             merges |-> d.merges]
    BY <1>4, <2>3
  <2>5. Sensible(e)
    BY <1>1, <1>2, <2>2, <2>4
  <2> QED
    BY <2>2, <2>4, <2>5
<1>7. ASSUME NEW s \in Session, NEW revision \in 1..MaxRevision - 1, NEW choices \in Promise!Resolutions,
             Promise!AtRevision(d, s, revision),
             e = Promise!Decided(d, s, Promise!Override(d.sessions[s].resolutions, choices), revision + 1)
      PROVE  /\ Sensible(e) /\ d.heads \subseteq e.heads /\ e.merges = d.merges
             /\ d.sessions[s] \in Promise!OpenSession
             /\ \E new \in Promise!OpenSession : /\ e.sessions = [d.sessions EXCEPT ![s] = new]
                                                 /\ new.revision = d.sessions[s].revision + 1
  <2> DEFINE old == d.sessions[s]
             resolutions == Promise!Override(old.resolutions, choices)
             new == [ours |-> old.ours, revision |-> revision + 1, resolutions |-> resolutions]
  <2>1. old \in Promise!OpenSession /\ old.revision = revision
    BY <1>1, <1>7 DEF Promise!AtRevision
  <2>2. resolutions \in Promise!Resolutions
    BY <2>1, OverrideTyped DEF Promise!OpenSession
  <2> HIDE DEF resolutions
  <2>3. new \in Promise!OpenSession
    BY <2>1, <2>2 DEF Promise!OpenSession, Distinct
  <2>4. e = [d EXCEPT !.sessions[s] = new]
    BY <1>7 DEF Promise!Decided, resolutions
  <2>5. new.revision = old.revision + 1
    BY <2>1
  <2> HIDE DEF new
  <2>6. e = [sessions |-> [d.sessions EXCEPT ![s] = new], head |-> d.head, heads |-> d.heads,
             merges |-> d.merges]
    BY <1>4, <2>4
  <2>7. Sensible(e)
    BY <1>1, <1>2, <2>3, <2>6
  <2> QED
    BY <2>1, <2>3, <2>5, <2>6, <2>7
<1>8. ASSUME NEW s \in Session, NEW revision \in 1..MaxRevision, Promise!AtRevision(d, s, revision)
      PROVE  /\ d.sessions[s] \in Promise!OpenSession /\ d.sessions[s].revision = revision
             /\ Promise!Close(d, s) = [sessions |-> [d.sessions EXCEPT ![s] = Ended], head |-> d.head,
                                       heads |-> d.heads, merges |-> d.merges]
  BY <1>1, <1>8 DEF Promise!AtRevision, Promise!Close
<1>9. ASSUME NEW s \in Session, NEW revision \in 1..MaxRevision, Promise!AtRevision(d, s, revision),
             e = Promise!Close(d, s)
      PROVE  /\ Sensible(e) /\ d.heads \subseteq e.heads /\ e.merges = d.merges
             /\ d.sessions[s] \in Promise!OpenSession
             /\ e.sessions = [d.sessions EXCEPT ![s] = Ended]
  BY <1>1, <1>2, <1>8, <1>9
<1>10. ASSUME NEW s \in Session, NEW revision \in 1..MaxRevision, Promise!AtRevision(d, s, revision),
              e = Finalized(d, [session |-> s, revision |-> revision], d.sessions[s])
       PROVE  /\ Sensible(e) /\ d.heads \subseteq e.heads
              /\ d.sessions[s] \in Promise!OpenSession
              /\ e.sessions = [d.sessions EXCEPT ![s] = Ended]
              /\ \/ e.merges = d.merges
                 \/ e.merges = d.merges \cup
                       {[session |-> s, ours |-> d.sessions[s].ours,
                         revision |-> d.sessions[s].revision,
                         resolutions |-> d.sessions[s].resolutions]}
  <2> DEFINE old == d.sessions[s]
             merge == [session |-> s, ours |-> old.ours, revision |-> revision,
                       resolutions |-> old.resolutions]
             closed == Promise!Close(d, s)
             head == Promise!Merged(d.head)
             moved == Promise!Move(closed, head)
  <2>1. CASE old.ours.relation = "up_to_date"
    <3>1. e = closed
      BY <1>10, <2>1 DEF Finalized
    <3> QED
      BY <1>9, <1>10, <3>1
  <2>2. CASE old.ours.relation # "up_to_date"
    <3>1. e = [moved EXCEPT !.merges = @ \cup {merge}]
      BY <1>10, <2>2 DEF Finalized
    <3>2. head \in Promise!Head
      BY <1>1 DEF Promise!Merged, Promise!Head, Promise!Relation
    <3>3. /\ old \in Promise!OpenSession /\ old.revision = revision
          /\ closed = [sessions |-> [d.sessions EXCEPT ![s] = Ended], head |-> d.head,
                       heads |-> d.heads, merges |-> d.merges]
      BY <1>8, <1>10
    <3>4. merge \in [session : Session, ours : Promise!Head, revision : 1..MaxRevision,
                     resolutions : Promise!Resolutions]
      BY <3>3 DEF Promise!OpenSession
    <3> HIDE DEF head, merge, closed
    <3>5. moved = [sessions |-> [d.sessions EXCEPT ![s] = Ended], head |-> head,
                   heads |-> d.heads \cup {head}, merges |-> d.merges]
      <4>1. /\ closed.sessions = [d.sessions EXCEPT ![s] = Ended] /\ closed.head = d.head
            /\ closed.heads = d.heads /\ closed.merges = d.merges
        BY <3>3
      <4>2. closed = [sessions |-> closed.sessions, head |-> closed.head,
                      heads |-> closed.heads, merges |-> closed.merges]
        BY <3>3, <4>1
      <4>3. moved = [sessions |-> closed.sessions, head |-> head,
                     heads |-> closed.heads \cup {head}, merges |-> closed.merges]
        BY <4>2, Fields
      <4> QED
        BY <4>1, <4>3
    <3> HIDE DEF moved
    <3>6. e = [sessions |-> [d.sessions EXCEPT ![s] = Ended], head |-> head,
               heads |-> d.heads \cup {head}, merges |-> d.merges \cup {merge}]
      BY <3>1, <3>5
    <3>7. Sensible(e)
      BY <1>1, <1>2, <3>2, <3>4, <3>6
    <3> QED
      BY <3>3, <3>6, <3>7 DEF merge
  <2> QED
    BY <2>1, <2>2
<1> QED
  BY <1>3, <1>5, <1>6, <1>7, <1>9, <1>10 DEF Outcome

-----------------------------------------------------------------------------
(* The invariant.                                                          *)

LEMMA InitSerial == Distinct /\ Init => Serial
<1> SUFFICES ASSUME Distinct, Init PROVE Serial
  OBVIOUS
<1>1. PICK relation \in Promise!Relation :
          disk = Promise!InitialDatabase([number |-> 1, relation |-> relation])
  BY DEF Init, Promise!Init
<1> DEFINE first == [number |-> 1, relation |-> relation]
<1>2. first \in Promise!Head
  BY DEF Promise!Head
<1> HIDE DEF first
<1>3. disk = [sessions |-> [s \in Session |-> NoSession], head |-> first, heads |-> {first}, merges |-> {}]
  BY <1>1 DEF Promise!InitialDatabase, first
<1>4. Sensible(disk)
  BY <1>2, <1>3 DEF Sensible, Promise!Database
<1>5. OpenStates(disk) = {} /\ seen = {} /\ disk.merges = {}
  BY <1>3 DEF OpenStates, Init
<1>6. SeenOK /\ RevisionNamesResolutions
  BY <1>5 DEF SeenOK, RevisionNamesResolutions
<1>7. conn = [c \in Connection |-> conn[c]] /\ \A c \in Connection : CursorOK(c)
  BY DEF Init, CursorOK
<1> QED
  BY <1>4, <1>6, <1>7 DEF Serial

(* What a commit makes of the states that were seen.                       *)
LEMMA SeenLater ==
    ASSUME Distinct, Sensible(disk), SeenOK, RevisionNamesResolutions,
           Outcome(disk, disk'), seen' = seen \cup OpenStates(disk')
    PROVE  SeenOK' /\ RevisionNamesResolutions'
<1> DEFINE d == disk
           e == disk'
           Open(x) == x \in OpenStates(e)
<1>1. /\ Sensible(e)
      /\ \/ e.sessions = d.sessions /\ e.merges = d.merges
         \/ \E s \in Session, new \in Promise!OpenSession :
               /\ e.sessions = [d.sessions EXCEPT ![s] = new] /\ e.merges = d.merges
               /\ \/ d.sessions[s] = NoSession
                  \/ /\ d.sessions[s] \in Promise!OpenSession
                     /\ new.revision = d.sessions[s].revision + 1
         \/ \E s \in Session :
               /\ d.sessions[s] \in Promise!OpenSession
               /\ e.sessions = [d.sessions EXCEPT ![s] = Ended]
               /\ \/ e.merges = d.merges
                  \/ e.merges = d.merges \cup
                        {[session |-> s, ours |-> d.sessions[s].ours,
                          revision |-> d.sessions[s].revision,
                          resolutions |-> d.sessions[s].resolutions]}
  BY OutcomeFields
<1>2. /\ d.sessions \in [Session -> {NoSession, Ended} \cup Promise!OpenSession]
      /\ e.sessions \in [Session -> {NoSession, Ended} \cup Promise!OpenSession]
      /\ \A merge \in d.merges : merge.session \in Session
  BY <1>1 DEF Sensible, Promise!Database
<1>3. /\ NoSession # Ended /\ NoSession \notin Promise!OpenSession /\ Ended \notin Promise!OpenSession
      /\ \A o \in Promise!OpenSession : o.revision \in Nat
  BY DEF Distinct, Promise!OpenSession
<1>4. \A x \in OpenStates(e) :
          /\ x.session \in Session /\ e.sessions[x.session] \in Promise!OpenSession
          /\ x = [session |-> x.session, revision |-> x.revision, resolutions |-> x.resolutions]
          /\ x.revision = e.sessions[x.session].revision
          /\ x.resolutions = e.sessions[x.session].resolutions
  BY <1>2 DEF OpenStates
<1>5. \A x \in seen :
          /\ x.session \in Session /\ d.sessions[x.session] # NoSession
          /\ d.sessions[x.session] # Ended =>
                 /\ x.revision <= d.sessions[x.session].revision
                 /\ x.revision = d.sessions[x.session].revision =>
                        x.resolutions = d.sessions[x.session].resolutions
          /\ x = [session |-> x.session, revision |-> x.revision, resolutions |-> x.resolutions]
          /\ x.revision \in Nat
  BY DEF SeenOK
<1>6. \A merge \in d.merges : d.sessions[merge.session] = Ended
  BY DEF SeenOK
<1> HIDE DEF d, e
<1>7. \A x \in seen \cup OpenStates(e) :
          /\ x.session \in Session /\ e.sessions[x.session] # NoSession
          /\ e.sessions[x.session] # Ended =>
                 /\ x.revision <= e.sessions[x.session].revision
                 /\ x.revision = e.sessions[x.session].revision =>
                        x.resolutions = e.sessions[x.session].resolutions
  <2>1. ASSUME NEW x \in OpenStates(e)
        PROVE  /\ x.session \in Session /\ e.sessions[x.session] # NoSession
               /\ x.revision <= e.sessions[x.session].revision
               /\ x.resolutions = e.sessions[x.session].resolutions
    BY <1>3, <1>4
  <2>2. ASSUME NEW x \in seen
        PROVE  /\ e.sessions[x.session] # NoSession
               /\ e.sessions[x.session] # Ended =>
                      /\ x.revision <= e.sessions[x.session].revision
                      /\ x.revision = e.sessions[x.session].revision =>
                             x.resolutions = e.sessions[x.session].resolutions
    <3>1. CASE e.sessions = d.sessions
      BY <1>5, <3>1
    <3>2. ASSUME NEW s \in Session, NEW new \in Promise!OpenSession,
                 e.sessions = [d.sessions EXCEPT ![s] = new],
                 \/ d.sessions[s] = NoSession
                 \/ /\ d.sessions[s] \in Promise!OpenSession
                    /\ new.revision = d.sessions[s].revision + 1
          PROVE  /\ e.sessions[x.session] # NoSession
                 /\ e.sessions[x.session] # Ended =>
                        /\ x.revision <= e.sessions[x.session].revision
                        /\ x.revision = e.sessions[x.session].revision =>
                               x.resolutions = e.sessions[x.session].resolutions
      <4>1. CASE x.session # s
        <5>1. e.sessions[x.session] = d.sessions[x.session]
          BY <1>2, <1>5, <3>2, <4>1
        <5> QED
          BY <1>5, <5>1
      <4>2. CASE x.session = s
        <5>1. e.sessions[s] = new
          BY <1>2, <3>2
        <5>2. /\ d.sessions[s] \in Promise!OpenSession /\ new.revision = d.sessions[s].revision + 1
              /\ x.revision <= d.sessions[s].revision /\ x.revision \in Nat
          BY <1>3, <1>5, <3>2, <4>2
        <5>3. x.revision < new.revision /\ d.sessions[s].revision \in Nat
          BY <1>3, <5>2
        <5> QED
          BY <1>3, <4>2, <5>1, <5>2, <5>3
      <4> QED
        BY <4>1, <4>2
    <3>3. ASSUME NEW s \in Session, e.sessions = [d.sessions EXCEPT ![s] = Ended]
          PROVE  \/ e.sessions[x.session] = Ended
                 \/ e.sessions[x.session] = d.sessions[x.session]
      BY <1>2, <1>5, <3>3
    <3> QED
      BY <1>1, <1>3, <1>5, <3>1, <3>2, <3>3
  <2> QED
    BY <1>5, <2>1, <2>2
<1>8. \A merge \in e.merges : e.sessions[merge.session] = Ended
  <2>1. ASSUME NEW s \in Session, e.sessions = [d.sessions EXCEPT ![s] = Ended]
        PROVE  e.sessions[s] = Ended /\ \A t \in Session : d.sessions[t] = Ended => e.sessions[t] = Ended
    BY <1>2, <2>1
  <2>2. ASSUME NEW s \in Session, NEW new, e.sessions = [d.sessions EXCEPT ![s] = new],
               d.sessions[s] # Ended
        PROVE  \A t \in Session : d.sessions[t] = Ended => e.sessions[t] = Ended
    BY <1>2, <2>2
  <2>3. CASE e.sessions = d.sessions /\ e.merges = d.merges
    BY <1>6, <2>3
  <2>4. ASSUME NEW s \in Session, NEW new \in Promise!OpenSession,
               e.sessions = [d.sessions EXCEPT ![s] = new], e.merges = d.merges,
               d.sessions[s] = NoSession \/ d.sessions[s] \in Promise!OpenSession
        PROVE  \A merge \in e.merges : e.sessions[merge.session] = Ended
    BY <1>2, <1>3, <1>6, <2>2, <2>4
  <2>5. ASSUME NEW s \in Session, e.sessions = [d.sessions EXCEPT ![s] = Ended],
               NEW merge \in e.merges, merge \in d.merges \/ merge.session = s
        PROVE  e.sessions[merge.session] = Ended
    BY <1>2, <1>6, <2>1, <2>5
  <2>6. ASSUME NEW s \in Session, e.sessions = [d.sessions EXCEPT ![s] = Ended], NEW merge,
               merge.session = s, e.merges = d.merges \/ e.merges = d.merges \cup {merge}
        PROVE  \A m \in e.merges : e.sessions[m.session] = Ended
    <3>1. \A m \in e.merges : m \in d.merges \/ m.session = s
      BY <2>6
    <3> QED
      BY <2>5, <2>6, <3>1
  <2>7. ASSUME NEW s \in Session, e.sessions = [d.sessions EXCEPT ![s] = Ended],
               \/ e.merges = d.merges
               \/ e.merges = d.merges \cup
                     {[session |-> s, ours |-> d.sessions[s].ours,
                       revision |-> d.sessions[s].revision,
                       resolutions |-> d.sessions[s].resolutions]}
        PROVE  \A m \in e.merges : e.sessions[m.session] = Ended
    <3> DEFINE merge == [session |-> s, ours |-> d.sessions[s].ours,
                         revision |-> d.sessions[s].revision, resolutions |-> d.sessions[s].resolutions]
    <3>1. merge.session = s /\ (e.merges = d.merges \/ e.merges = d.merges \cup {merge})
      BY <2>7
    <3> HIDE DEF merge
    <3> QED
      BY <2>6, <2>7, <3>1
  <2> QED
    BY <1>1, <2>3, <2>4, <2>7
<1>9. SeenOK'
  BY <1>3, <1>4, <1>5, <1>7, <1>8 DEF SeenOK, e
<1>10. \A x, y \in seen \cup OpenStates(e) :
           x.session = y.session /\ x.revision = y.revision => x = y
  <2>1. ASSUME NEW x \in seen \cup OpenStates(e), NEW y \in OpenStates(e),
               x.session = y.session, x.revision = y.revision
        PROVE  x = y
    <3>1. x.resolutions = y.resolutions
      BY <1>3, <1>4, <1>7, <2>1
    <3> QED
      BY <1>4, <1>5, <2>1, <3>1
  <2> QED
    BY <2>1 DEF RevisionNamesResolutions
<1>11. ASSUME NEW merge \in e.merges, NEW x \in seen \cup OpenStates(e),
              x.session = merge.session, x.revision = merge.revision
       PROVE  x.resolutions = merge.resolutions
  <2>1. x \notin OpenStates(e)
    BY <1>3, <1>4, <1>8, <1>11
  <2>2. CASE merge \in d.merges
    BY <1>11, <2>1, <2>2 DEF RevisionNamesResolutions, d
  <2>3. CASE merge \notin d.merges
    <3>1. PICK s \in Session :
              /\ d.sessions[s] \in Promise!OpenSession
              /\ merge = [session |-> s, ours |-> d.sessions[s].ours,
                          revision |-> d.sessions[s].revision,
                          resolutions |-> d.sessions[s].resolutions]
      BY <1>1, <2>3
    <3> QED
      BY <1>3, <1>5, <1>11, <2>1, <3>1
  <2> QED
    BY <2>2, <2>3
<1> QED
  BY <1>9, <1>10, <1>11 DEF RevisionNamesResolutions, e

LEMMA FallsBehind ==
    ASSUME NEW cursor,
           cursor = [phase |-> "prepared", call |-> cursor.call, pinned |-> cursor.pinned,
                     attempt |-> cursor.attempt, stale |-> cursor.stale, plan |-> cursor.plan],
           NEW stale
    PROVE  [cursor EXCEPT !.stale = stale]
               = [phase |-> "prepared", call |-> cursor.call, pinned |-> cursor.pinned,
                  attempt |-> cursor.attempt, stale |-> stale, plan |-> cursor.plan]
  OBVIOUS

LEMMA NextSerial ==
    ASSUME Distinct, Serial, [Next]_vars
    PROVE  Serial'
<1>1. /\ Sensible(disk) /\ SeenOK /\ RevisionNamesResolutions
      /\ conn = [c \in Connection |-> conn[c]]
      /\ \A c \in Connection : CursorOK(c)
  BY DEF Serial
<1>2. ASSUME disk' = disk, seen' = seen, conn' = [c \in Connection |-> conn'[c]],
             \A c \in Connection : CursorOK(c)'
      PROVE  Serial'
  BY <1>1, <1>2 DEF Serial, Sensible, SeenOK, RevisionNamesResolutions, OpenStates
<1>3. ASSUME NEW c \in Connection, disk' = disk, conn'[c] = conn[c],
             writer' = writer \/ conn[c].phase # "active"
      PROVE  CursorOK(c)'
  <2>1. CursorOK(c)
    BY <1>1
  <2> QED
    BY <1>3, <2>1 DEF CursorOK
<1>4. ASSUME NEW c \in Connection, conn'[c] = NoCursor
      PROVE  CursorOK(c)'
  BY <1>4 DEF CursorOK
\* A step of one connection that leaves the lock or hands it over.
<1>5. ASSUME NEW c \in Connection, NEW cursor, conn' = [conn EXCEPT ![c] = cursor],
             disk' = disk, seen' = seen, conn'[c] = cursor => CursorOK(c)',
             writer' = writer \/ \A k \in Connection \ {c} : conn[k].phase # "active"
      PROVE  Serial'
  <2>1. /\ conn' = [k \in Connection |-> conn'[k]] /\ conn'[c] = cursor
        /\ \A k \in Connection \ {c} : conn'[k] = conn[k]
    BY <1>1, <1>5
  <2>2. \A k \in Connection : CursorOK(k)'
    BY <1>3, <1>5, <2>1
  <2> QED
    BY <1>2, <1>5, <2>1, <2>2
<1>6. ASSUME NEW c \in Connection, Prepare(c)
      PROVE  Serial'
  <2>1. PICK call \in Calls :
            conn' = [conn EXCEPT ![c] = [phase |-> "pending", call |-> call, pinned |-> disk.head, attempt |-> 1]]
    BY <1>6 DEF Prepare
  <2>2. disk' = disk /\ seen' = seen /\ writer' = writer /\ disk.head \in disk.heads
    BY <1>1, <1>6 DEF Prepare, Sensible
  <2> DEFINE cursor == [phase |-> "pending", call |-> call, pinned |-> disk.head, attempt |-> 1]
  <2>3. conn'[c] = cursor => CursorOK(c)'
    BY <2>2 DEF CursorOK
  <2> QED
    BY <1>5, <2>1, <2>2, <2>3
<1>7. ASSUME NEW c \in Connection, Read(c)
      PROVE  Serial'
  <2>1. disk' = disk /\ seen' = seen /\ writer' = writer /\ conn[c].phase = "pending"
    BY <1>7 DEF Read
  <2>2. conn[c].call \in Calls /\ conn[c].pinned \in disk.heads
    BY <1>1, <2>1 DEF CursorOK, NoCursor
  <2> DEFINE plan == Plan(conn[c].call, conn[c].pinned, disk)
             next == [phase |-> "prepared", call |-> conn[c].call, pinned |-> conn[c].pinned,
                      attempt |-> conn[c].attempt, stale |-> FALSE, plan |-> plan]
  <2>3. CASE Refused(conn[c].call, disk)
    <3>1. conn' = [conn EXCEPT ![c] = NoCursor]
      BY <1>7, <2>3 DEF Read
    <3> QED
      BY <1>4, <1>5, <2>1, <3>1
  <2>4. CASE ~ Refused(conn[c].call, disk)
    <3>1. conn' = [conn EXCEPT ![c] = next]
      BY <1>7, <2>4 DEF Read
    <3>2. conn'[c] = next => CursorOK(c)'
      <4> HIDE DEF plan
      <4>1. plan = Plan(conn[c].call, conn[c].pinned, disk')
        BY <2>1 DEF plan
      <4>2. ~ Refused(conn[c].call, disk')
        BY <2>1, <2>4
      <4> QED
        BY <2>1, <2>2, <4>1, <4>2 DEF CursorOK
    <3> QED
      BY <1>5, <2>1, <3>1, <3>2
  <2> QED
    BY <2>3, <2>4
<1>8. ASSUME NEW c \in Connection, WriteRows(c)
      PROVE  Serial'
  <2> DEFINE call == conn[c].call
             plan == conn[c].plan
             local == Written(call, plan, disk)
  <2>1. /\ disk' = disk /\ seen' = seen
        /\ conn[c].phase = "prepared" /\ writer = Nobody /\ ~ conn[c].stale
    BY <1>8 DEF WriteRows, HasLock
  <2>2. CASE Fails(call, plan, disk)
    <3>1. conn' = [conn EXCEPT ![c] = NoCursor] /\ writer' = writer
      BY <1>8, <2>2 DEF WriteRows
    <3> QED
      BY <1>4, <1>5, <2>1, <3>1
  <2>3. CASE ~ Fails(call, plan, disk)
    <3>1. conn' = [conn EXCEPT ![c] = [phase |-> "active", local |-> local]] /\ writer' = c
      BY <1>8, <2>3 DEF WriteRows
    <3>2. /\ call \in Calls /\ conn[c].pinned \in disk.heads
          /\ ~ Refused(call, disk) /\ plan = Plan(call, conn[c].pinned, disk)
      BY <1>1, <2>1 DEF CursorOK, NoCursor
    <3>3. Outcome(disk, local)
      BY <1>1, <2>3, <3>2, WrittenIsOutcome
    <3>4. \A k \in Connection : conn[k].phase # "active"
      BY <1>1, <2>1 DEF CursorOK, NoCursor, Distinct
    <3> HIDE DEF local
    <3>5. conn'[c] = [phase |-> "active", local |-> local] => CursorOK(c)'
      BY <2>1, <3>1, <3>3 DEF CursorOK
    <3> QED
      BY <1>5, <2>1, <3>1, <3>4, <3>5
  <2> QED
    BY <2>2, <2>3
<1>9. ASSUME NEW c \in Connection, Busy(c)
      PROVE  Serial'
  <2> DEFINE next == [phase |-> "pending", call |-> conn[c].call, pinned |-> conn[c].pinned, attempt |-> 2]
  <2>1. disk' = disk /\ seen' = seen /\ writer' = writer /\ conn[c].phase = "prepared"
    BY <1>9 DEF Busy
  <2>2. conn[c].call \in Calls /\ conn[c].pinned \in disk.heads
    BY <1>1, <2>1 DEF CursorOK, NoCursor
  <2>3. CASE conn' = [conn EXCEPT ![c] = NoCursor]
    BY <1>4, <1>5, <2>1, <2>3
  <2>4. CASE conn' = [conn EXCEPT ![c] = next]
    <3>1. conn'[c] = next => CursorOK(c)'
      BY <2>1, <2>2 DEF CursorOK
    <3> QED
      BY <1>5, <2>1, <2>4, <3>1
  <2> QED
    BY <1>9, <2>3, <2>4 DEF Busy
<1>10. ASSUME NEW c \in Connection, Complete(c)
       PROVE  Serial'
  <2>1. /\ conn[c].phase = "active" /\ disk' = conn[c].local
        /\ seen' = seen \cup OpenStates(disk')
    BY <1>10 DEF Complete
  <2>2. writer = c /\ Outcome(disk, disk')
    BY <1>1, <2>1 DEF CursorOK, NoCursor
  <2>3. Sensible(disk') /\ disk.heads \subseteq disk'.heads
    BY <1>1, <2>2, OutcomeFields
  <2>4. SeenOK' /\ RevisionNamesResolutions'
    BY <1>1, <2>1, <2>2, SeenLater
  <2>5. /\ conn' = [k \in Connection |-> conn'[k]] /\ conn'[c] = NoCursor
        /\ \A k \in Connection \ {c} :
              conn'[k] = IF conn[k].phase = "prepared" THEN [conn[k] EXCEPT !.stale = TRUE] ELSE conn[k]
    BY <1>10 DEF Complete
  <2>6. ASSUME NEW k \in Connection \ {c}
        PROVE  CursorOK(k)'
    <3>1. CursorOK(k)
      BY <1>1
    <3>2. CASE conn[k] = NoCursor
      BY <2>5, <3>2 DEF CursorOK, NoCursor
    <3>3. CASE conn[k].phase = "pending"
      BY <2>3, <2>5, <3>1, <3>3 DEF CursorOK, NoCursor
    <3>4. CASE conn[k].phase = "prepared"
      <4>1. /\ conn[k] = [phase |-> "prepared", call |-> conn[k].call, pinned |-> conn[k].pinned,
                          attempt |-> conn[k].attempt, stale |-> conn[k].stale, plan |-> conn[k].plan]
            /\ conn[k].call \in Calls /\ conn[k].pinned \in disk'.heads
        BY <2>3, <3>1, <3>4 DEF CursorOK, NoCursor
      <4>2. conn'[k] = [conn[k] EXCEPT !.stale = TRUE]
        BY <2>5, <3>4
      <4>3. conn'[k] = [phase |-> "prepared", call |-> conn[k].call, pinned |-> conn[k].pinned,
                        attempt |-> conn[k].attempt, stale |-> TRUE, plan |-> conn[k].plan]
        BY <4>1, <4>2, FallsBehind
      <4> QED
        BY <4>1, <4>3 DEF CursorOK
    <3>5. conn[k].phase # "active"
      BY <2>2, <3>1 DEF CursorOK, NoCursor
    <3> QED
      BY <3>1, <3>2, <3>3, <3>4, <3>5 DEF CursorOK
  <2> QED
    BY <1>4, <2>3, <2>4, <2>5, <2>6 DEF Serial
<1>11. ASSUME NEW c \in Connection, Cancel(c)
       PROVE  Serial'
  <2>1. /\ conn' = [conn EXCEPT ![c] = NoCursor] /\ disk' = disk /\ seen' = seen
        /\ writer' = writer \/ writer = c
    BY <1>11 DEF Cancel
  <2>2. writer = c => \A k \in Connection \ {c} : conn[k].phase # "active"
    BY <1>1 DEF CursorOK, NoCursor
  <2> QED
    BY <1>4, <1>5, <2>1, <2>2
<1>12. CASE Crash
  <2>1. /\ disk' = disk /\ seen' = seen /\ conn' = [c \in Connection |-> conn'[c]]
        /\ \A c \in Connection : conn'[c] = NoCursor
    BY <1>12 DEF Crash
  <2> QED
    BY <1>2, <1>4, <2>1
<1>13. CASE UNCHANGED vars
  <2>1. disk' = disk /\ seen' = seen /\ conn' = conn /\ writer' = writer
    BY <1>13 DEF vars
  <2> QED
    BY <1>1, <1>2, <1>3, <2>1
<1> QED
  BY <1>6, <1>7, <1>8, <1>9, <1>10, <1>11, <1>12, <1>13 DEF Next

LEMMA SerialInductive == ASSUME Distinct PROVE Spec => []Serial
<1>1. Init => Serial
  BY InitSerial
<1>2. Serial /\ [Next]_vars => Serial'
  BY NextSerial
<1> QED
  BY <1>1, <1>2, PTL DEF Spec

(* A step of the cursors is a step of the atomic operations, or none.      *)
LEMMA StepRefines ==
    ASSUME Distinct, Serial, [Next]_vars
    PROVE  [Promise!Next]_disk
<1>1. ASSUME NEW c \in Connection, Complete(c) PROVE [Promise!Next]_disk
  <2>1. Outcome(disk, disk')
    BY <1>1 DEF Complete, Serial, CursorOK, NoCursor
  <2> QED
    BY <2>1, OutcomeRefines
<1> QED
  BY <1>1 DEF Next, Prepare, Read, WriteRows, Busy, Cancel, Crash, vars

(* Two connections that interleave their procedures, lose the writer lock, *)
(* retry, are cancelled or die, do what the atomic operations of           *)
(* MergeSessionSpec do: the merge that prepare_finalize computed without   *)
(* the lock is the one that holds when apply_finalize_action writes it.    *)
THEOREM SessionsAreAtomic == ASSUME Distinct PROVE Spec => ImplementsPromise
<1>1. Init => Promise!Init
  BY DEF Init
<1>2. Serial /\ [Next]_vars => [Promise!Next]_disk
  BY StepRefines
<1> QED
  BY <1>1, <1>2, SerialInductive, PTL DEF Spec, ImplementsPromise, Promise!Spec

(* What a caller reads of a session at a revision is what any finalize at  *)
(* that revision commits, because every resolve that changes something     *)
(* moves the revision and no id is used twice.                             *)
THEOREM RevisionsAreNames == ASSUME Distinct PROVE Spec => []RevisionNamesResolutions
<1>1. Serial => RevisionNamesResolutions
  BY DEF Serial
<1> QED
  BY <1>1, SerialInductive, PTL

=============================================================================
