-------------------------- MODULE MergeSessionSpec --------------------------
(***************************************************************************)
(* What merge sessions promise: start, resolve, finalize and abort each    *)
(* happen at one instant, on the revision that the caller named, and a     *)
(* merge is committed with the resolutions stored at that instant.         *)
(*                                                                         *)
(* The state is the rows of merge sessions and of their target branch.     *)
(* The candidate of a merge is symbolic: the versions of the session and   *)
(* the choices made for its conflicts determine it (ThreeWayMerge).        *)
(***************************************************************************)
EXTENDS Integers

CONSTANTS
    Session,      \* session ids; a random id is never used twice
    Conflict,     \* the conflicts of two diverged versions
    Choice,       \* the resolutions of a conflict
    NoSession,    \* an id not yet in use
    Ended,        \* an id that was finalized or aborted
    MaxHeads,     \* bound on the heads that writes move the target branch to
    MaxRevision   \* bound on a session's revision

(* A head of the target branch and how the merged commit relates to it.    *)
Relation == {"diverged", "fast_forward", "up_to_date"}
Head == [number : Nat \ {0}, relation : Relation]

Resolutions == UNION {[conflicts -> Choice] : conflicts \in SUBSET Conflict}

NoResolutions == [c \in {} |-> "ours"]

OpenSession == [ours : Head, revision : 1..MaxRevision, resolutions : Resolutions]

Database ==
    [sessions : [Session -> {NoSession, Ended} \cup OpenSession],
     head : Head, heads : SUBSET Head,
     merges : SUBSET [session : Session, ours : Head, revision : 1..MaxRevision,
                      resolutions : Resolutions]]

InitialDatabase(head) ==
    [sessions |-> [s \in Session |-> NoSession], head |-> head, heads |-> {head}, merges |-> {}]

AtRevision(d, s, revision) ==
    d.sessions[s] \notin {NoSession, Ended} /\ d.sessions[s].revision = revision

Unresolved(session) ==
    IF session.ours.relation = "diverged" THEN Conflict \ DOMAIN session.resolutions ELSE {}

(* A write on the branch: a head that theirs was ahead of has diverged.    *)
Advanced(head) ==
    [number   |-> head.number + 1,
     relation |-> IF head.relation = "fast_forward" THEN "diverged" ELSE head.relation]

(* The head that a merge leaves.                                           *)
Merged(head) == [number |-> head.number + 1, relation |-> "up_to_date"]

Move(d, head) == [d EXCEPT !.head = head, !.heads = @ \cup {head}]

Close(d, s) == [d EXCEPT !.sessions[s] = Ended]

Override(old, new) ==
    [c \in DOMAIN old \cup DOMAIN new |-> IF c \in DOMAIN new THEN new[c] ELSE old[c]]

Started(d, s, ours) ==
    [d EXCEPT !.sessions[s] = [ours |-> ours, revision |-> 1, resolutions |-> NoResolutions]]

Decided(d, s, resolutions, revision) ==
    [d EXCEPT !.sessions[s] = [ours |-> @.ours, revision |-> revision, resolutions |-> resolutions]]

VARIABLE db

Init == \E relation \in Relation : db = InitialDatabase([number |-> 1, relation |-> relation])

Write == db' = Move(db, Advanced(db.head))

Start(s) ==
    /\ db.sessions[s] = NoSession
    /\ \E ours \in db.heads : db' = Started(db, s, ours)

Resolve(s, revision) ==
    LET session == db.sessions[s]
    IN  /\ AtRevision(db, s, revision) /\ session.ours.relation = "diverged"
        /\ \E choices \in Resolutions :
               /\ Override(session.resolutions, choices) # session.resolutions
               /\ db' = Decided(db, s, Override(session.resolutions, choices), revision + 1)

Finalize(s, revision) ==
    LET session == db.sessions[s]
        merge   == [session |-> s, ours |-> session.ours, revision |-> revision,
                    resolutions |-> session.resolutions]
    IN  /\ AtRevision(db, s, revision)
        /\ db.head = session.ours /\ Unresolved(session) = {}
        /\ db' = IF session.ours.relation = "up_to_date" THEN Close(db, s)
                 ELSE [Move(Close(db, s), Merged(db.head)) EXCEPT !.merges = @ \cup {merge}]

Abort(s, revision) == AtRevision(db, s, revision) /\ db' = Close(db, s)

Next ==
    \/ Write
    \/ \E s \in Session : Start(s)
    \/ \E s \in Session, revision \in 1..MaxRevision :
           Resolve(s, revision) \/ Finalize(s, revision) \/ Abort(s, revision)

Spec == Init /\ [][Next]_db

=============================================================================
