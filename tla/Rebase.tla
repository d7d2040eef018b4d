------------------------------- MODULE Rebase -------------------------------
(***************************************************************************)
(* lithograph.rebase: the commits of the branch's first-parent chain after *)
(* the boundary are replayed on onto, each as a three-way merge, inside    *)
(* one SQLite transaction.  A caller calls it again with a resolution for  *)
(* each conflict it was told, until the branch is rebased.                 *)
(*                                                                         *)
(* A conflict is known to the caller by its id, which two calls have to    *)
(* agree on although the commits the first one wrote are gone.             *)
(***************************************************************************)
EXTENDS ThreeWayMerge, Integers, Sequences

CONSTANTS
    MaxSources,    \* bound on the commits to replay
    AnswerAtOnce   \* the caller answers every reported conflict before it calls again

VARIABLES
    boundary,      \* the version where the chain leaves the history of onto
    sources,       \* the versions of the commits to replay, oldest first
    onto,          \* the version the branch is moved onto
    disk,          \* the branch as other connections see it, from the boundary or from onto
    call,          \* the running call
    resolutions,   \* what the caller supplies: a choice for each id
    answer,        \* the result of the last call
    clock          \* whether an even number of calls was made: the ids of rewritten commits differ

vars == <<boundary, sources, onto, disk, call, resolutions, answer, clock>>
history == <<boundary, sources, onto>>

Idle == [running |-> FALSE]
NoAnswer == [status |-> "none", conflicts |-> {}]
Empty == [id \in {} |-> "ours"]

Init ==
    /\ boundary \in Version /\ onto \in Version
    /\ sources \in UNION {[1..n -> Version] : n \in 0..MaxSources}
    /\ disk = [from |-> "boundary", commits |-> sources] /\ call = Idle /\ resolutions = Empty /\ answer = NoAnswer /\ clock = TRUE

-----------------------------------------------------------------------------
(* The state a source commit was made on.                                  *)
SourceParent(i) == IF i = 1 THEN boundary ELSE sources[i - 1]
ReplayHead == IF call.rewritten = <<>> THEN onto ELSE call.rewritten[Len(call.rewritten)]
Step == Len(call.rewritten) + 1

(* The id of a conflict: the source commit, the logical state it is        *)
(* replayed on, the slot and the values there.                             *)
ConflictId(i, head, s) == <<i, head, s>>

(* Mutant: only the conflicts of the last commit take resolutions.         *)
SuppliedToLast(i, head) ==
    [s \in {t \in Slot : i = Len(sources) /\ i > 1 /\ ConflictId(i, head, t) \in DOMAIN resolutions} |->
        resolutions[ConflictId(i, head, s)]]

(* The supplied resolutions, by the slot of the conflict they are for.     *)
Supplied(i, head) ==
    [s \in {t \in Slot : ConflictId(i, head, t) \in DOMAIN resolutions} |->
        resolutions[ConflictId(i, head, s)]]

(* three_way_from_base on the next source commit.                          *)
Replayed == FullMerge(SourceParent(Step), ReplayHead, sources[Step], Supplied(Step, ReplayHead))

Seen(outcome) == call.seen \cup {ConflictId(Step, ReplayHead, s) : s \in outcome.conflicts}

OnOnto(versions) == [from |-> "onto", commits |-> versions]

Return(status, conflicts) ==
    /\ call' = Idle
    /\ answer' = [status |-> status, conflicts |-> conflicts]
    /\ UNCHANGED <<history, resolutions, clock>>

-----------------------------------------------------------------------------
(* rebase and the SAVEPOINT of execute_rebase_sequence; the branch moves   *)
(* to onto inside the transaction.                                         *)
Call ==
    /\ ~ call.running /\ answer.status \in {"none", "resolved"} /\ sources # <<>>
    /\ call' = [running |-> TRUE, rewritten |-> <<>>, seen |-> {}]
    /\ clock' = ~ clock /\ answer' = NoAnswer
    /\ UNCHANGED <<history, disk, resolutions>>

(* finish_up_to_date_rebase: there is nothing to replay.                   *)
UpToDate ==
    /\ ~ call.running /\ answer.status = "none" /\ sources = <<>>
    /\ disk' = OnOnto(<<>>)
    /\ Return("up_to_date", {})

(* replay_rebase_commit and apply_rebase_candidate.                        *)
ReplayCommit ==
    /\ call.running /\ Step <= Len(sources)
    /\ \E outcome \in {Replayed} :
           /\ Ready(outcome)
           /\ call' = [call EXCEPT !.rewritten = Append(@, outcome.candidate), !.seen = Seen(outcome)]
    /\ UNCHANGED <<history, disk, resolutions, answer, clock>>

(* Mutant: RELEASE without ROLLBACK TO.                                    *)
ConflictKeepsReplayed ==
    /\ call.running /\ Step <= Len(sources)
    /\ Replayed.accepted /\ Replayed.unresolved # {}
    /\ disk' = OnOnto(call.rewritten)
    /\ Return("conflicted", {ConflictId(Step, ReplayHead, s) : s \in Replayed.unresolved})

(* The first commit with open conflicts ends the call: the resolutions     *)
(* supplied must all have been met, and nothing replayed is kept.          *)
Conflict ==
    /\ call.running /\ Step <= Len(sources)
    /\ disk' = disk
    /\ \E outcome \in {Replayed} :
           /\ outcome.accepted /\ outcome.unresolved # {}
           /\ IF DOMAIN resolutions \subseteq Seen(outcome)
              THEN Return("conflicted", {ConflictId(Step, ReplayHead, s) : s \in outcome.unresolved})
              ELSE Return("unknown", {})

(* A resolution the merge does not accept, a cancelled cursor or a crash.  *)
Fail ==
    /\ call.running
    /\ disk' = disk
    /\ \/ Step <= Len(sources) /\ ~ Replayed.accepted /\ Return("invalid", {})
       \/ Return("cancelled", {})

(* RELEASE: every commit was replayed.                                     *)
Release ==
    /\ call.running /\ Step > Len(sources)
    /\ IF DOMAIN resolutions \subseteq call.seen
       THEN disk' = OnOnto(call.rewritten) /\ Return("rebased", {})
       ELSE disk' = disk /\ Return("unknown", {})

-----------------------------------------------------------------------------
(* The caller: the reported conflicts it answers before the next call.     *)
Answered(reported) ==
    IF AnswerAtOnce THEN reported
    ELSE {id \in reported : \A other \in reported : other[3] \notin Owners[id[3]]}

Resolve ==
    /\ ~ call.running /\ answer.status = "conflicted"
    /\ LET ids == Answered(answer.conflicts)
       IN  \E choices \in [ids -> UNION {Choice(id[3]) : id \in ids}] :
               /\ \A id \in ids : choices[id] \in Choice(id[3])
               /\ resolutions' = [id \in DOMAIN resolutions \cup ids |->
                                     IF id \in ids THEN choices[id] ELSE resolutions[id]]
    /\ answer' = [answer EXCEPT !.status = "resolved", !.conflicts = {}]
    /\ UNCHANGED <<history, disk, call, clock>>

Retry ==
    /\ ~ call.running /\ answer.status = "cancelled"
    /\ answer' = [answer EXCEPT !.status = "resolved"]
    /\ UNCHANGED <<history, disk, call, resolutions, clock>>

Progress == Call \/ UpToDate \/ ReplayCommit \/ Conflict \/ Release \/ Resolve
Next == Progress \/ Fail \/ Retry

Spec == Init /\ [][Next]_vars

(* A call that is not cancelled goes on, and the caller answers.           *)
NextUncancelled == Progress \/ (Fail /\ answer'.status = "invalid")
LiveSpec == Init /\ [][NextUncancelled]_vars /\ WF_vars(NextUncancelled)

-----------------------------------------------------------------------------
(* Properties                                                              *)

(* No half-finished rebase is ever seen: the branch is as before, or every *)
(* source commit has its rewritten one; a call that stops at a conflict or *)
(* fails leaves the branch alone, whatever it had committed.               *)
AllOrNothing ==
    /\ IF disk.from = "boundary" THEN disk.commits = sources ELSE Len(disk.commits) = Len(sources)
    /\ answer.status \in {"conflicted", "unknown", "invalid", "cancelled"} => disk.from = "boundary"

(* The sources' last word on a slot, or onto's where they have none.       *)
LastWord(s) ==
    LET changes == {i \in DOMAIN sources : sources[i][s] # SourceParent(i)[s]}
    IN  IF changes = {} THEN onto[s] ELSE sources[Len(sources)][s]

Asked(s) == \E id \in DOMAIN resolutions : id[3] \in Around(s)

(* Nothing is lost silently over the whole sequence: a slot nobody was     *)
(* asked about has the value the source commits gave it last, or onto's    *)
(* if they did not touch it.                                               *)
NothingLostInReplay ==
    answer.status = "rebased" =>
        \A s \in Slot : ~ Asked(s) =>
            disk.commits[Len(disk.commits)][s] = LastWord(s)

(* What a running call holds, which makes these inductive: a prefix of the *)
(* rewritten commits, each a version and each resolved, whose last has the *)
(* sources' word so far on the slots nobody was asked about.               *)
Word(k, s) ==
    IF \E i \in 1..k : sources[i][s] # SourceParent(i)[s] THEN sources[k][s] ELSE onto[s]

Running ==
    /\ call = [running |-> TRUE, rewritten |-> call.rewritten, seen |-> call.seen]
    /\ disk.from = "boundary" /\ answer = NoAnswer /\ sources # <<>>
    /\ call.rewritten \in Seq(Version) /\ Len(call.rewritten) <= Len(sources)
    /\ call.seen \subseteq DOMAIN resolutions
    /\ \A s \in Slot : ~ Asked(s) => ReplayHead[s] = Word(Len(call.rewritten), s)

Sound ==
    /\ boundary \in Version /\ onto \in Version /\ sources \in Seq(Version)
    /\ \A id \in DOMAIN resolutions : resolutions[id] \in Choice(id[3])
    /\ call = Idle \/ Running
    /\ answer = [status |-> answer.status, conflicts |-> answer.conflicts]
    /\ \/ disk.from = "boundary" /\ disk.commits = sources /\ answer.status \notin {"rebased", "up_to_date"}
       \/ /\ disk.from = "onto" /\ Len(disk.commits) = Len(sources)
          /\ call = Idle /\ answer.status \in {"rebased", "up_to_date"}
    /\ NothingLostInReplay

(* docs/design/versioning.md: the id does not depend on what an earlier    *)
(* attempt committed, so conflicts in several commits are resolved over    *)
(* several calls.  No resolution the caller was asked for is refused       *)
(* later as unknown.                                                       *)
ResolutionsStayKnown == answer.status # "unknown"

(* A caller that answers what it is asked comes to an end: the branch is   *)
(* rebased, or one of its answers is refused.                              *)
Ended == answer.status \in {"rebased", "up_to_date", "invalid", "unknown"}
RebaseEnds == <>Ended

=============================================================================
