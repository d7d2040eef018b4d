-------------------------- MODULE MergeResolution --------------------------
(***************************************************************************)
(* A merge session between two diverged versions: conflicts are resolved,  *)
(* in any order and any number at a time, until the merge is ready.        *)
(***************************************************************************)
EXTENDS ThreeWayMerge

CONSTANT Crossed  \* whether the history is a criss-cross, with several best common ancestors

VARIABLES ancestors, base, ours, theirs, resolutions

vars == <<ancestors, base, ours, theirs, resolutions>>

(* The merge bases: the best common ancestors and what stands for them.    *)
OneBase == {[of |-> {g}, virtual |-> g] : g \in Version}
(* Two best common ancestors and their own base, or a third one besides.   *)
TwoBases ==
    {[of |-> {first, second}, virtual |-> VirtualMerge(root, first, second)] :
        root, first, second \in Version}
ManyBases ==
    TwoBases \cup {[of |-> two.of \cup {third}, virtual |-> Narrow(two.virtual, third)] :
                       two \in TwoBases, third \in Version}
Bases == IF Crossed THEN ManyBases ELSE OneBase

Current == Merge(base, ours, theirs, resolutions)

Init ==
    /\ \E merged \in Bases : ancestors = merged.of /\ base = merged.virtual
    /\ ours \in Version /\ theirs \in Version
    /\ resolutions = [s \in {} |-> "ours"]

(* Any number of conflicts with a choice for each.                         *)
Incoming(conflicts) ==
    UNION {{choices \in [slots -> UNION {Choice(s) : s \in slots}] : \A s \in slots : choices[s] \in Choice(s)} :
              slots \in SUBSET conflicts \ {{}}}

Proposed(incoming) ==
    [s \in DOMAIN resolutions \cup DOMAIN incoming |->
        IF s \in DOMAIN incoming THEN incoming[s] ELSE resolutions[s]]

(* lithograph.merge.resolve: the ids must be conflicts under the stored    *)
(* resolutions, and the proposal must compute.                             *)
Resolve ==
    \E incoming \in Incoming(Current.conflicts) :
        /\ Merge(base, ours, theirs, Proposed(incoming)).accepted
        /\ resolutions' = Proposed(incoming)

Next == Resolve /\ UNCHANGED <<ancestors, base, ours, theirs>>

Spec == Init /\ [][Next]_vars

-----------------------------------------------------------------------------
(* Properties                                                              *)

(* A merge that reports ready, after whatever conflicts were resolved in   *)
(* whatever order, has a candidate whose relationships, labels and         *)
(* properties have their owners and which satisfies its own constraints:   *)
(* finalize commits it without another look.                               *)
ReadyIsValid ==
    \A merge \in {Current} :
        Ready(merge) => WellFormed(merge.candidate) /\ Violated(merge.candidate) = {}

(* The user was asked about the slot.                                      *)
Asked(conflicts, s) == Around(s) \cap conflicts # {}

(* No change is lost silently: what one side changed since the base is in  *)
(* a ready candidate, unless the user resolved a conflict about it.        *)
NoSilentLoss ==
    \A merge \in {Current} :
        Ready(merge) =>
            \A side \in {ours, theirs} : \A s \in Slot :
                base[s] \notin {Unknown, side[s]} /\ ~ Asked(merge.conflicts, s)
                    => merge.candidate[s] = side[s]

(* A virtual base never hides a change: it knows a value only from one of  *)
(* the best common ancestors, knows what they agree on, and a slot that    *)
(* both sides gave different values no ancestor has is asked about.        *)
VirtualBaseSafe ==
    \A merge \in {Current}, s \in Slot :
        LET values == {g[s] : g \in ancestors}
        IN  /\ base[s] \in values \cup {Unknown}
            /\ \A v \in values : values = {v} => base[s] = v
            /\ ours[s] # theirs[s] /\ {ours[s], theirs[s]} \cap values = {}
                   => Asked(merge.conflicts, s)

(* What makes these inductive: the sides are versions, the base holds what *)
(* its ancestors hold, and the resolutions are choices.                    *)
Typed ==
    /\ Mergeable(base, ours, theirs, resolutions)
    /\ ~ Crossed => base \in Version
    /\ \A s \in Slot :
           LET values == {g[s] : g \in ancestors}
           IN  /\ base[s] \in values \cup {Unknown}
               /\ \A v \in values : values = {v} => base[s] = v

(* The merge does not favour a side: once every conflict is resolved,      *)
(* merging the other way round with the mirrored choices is ready too and  *)
(* gives the same candidate.                                               *)
MergeSymmetric ==
    \A merge \in {Current} :
        Ready(merge) =>
            \E swapped \in {Merge(base, theirs, ours, Mirrored(resolutions))} :
                Ready(swapped) /\ swapped.candidate = merge.candidate

(* The sparse path is only an optimisation: where it applies it reports    *)
(* the conflicts and the candidate of the full scan.                       *)
SparseAgrees ==
    SparseApplies(base, ours, theirs) =>
        FullMerge(base, ours, theirs, resolutions) = SparseMerge(base, ours, theirs, resolutions)

(* A session never gets stuck, with the exception DeleteModifyReported is  *)
(* about: keeping the nodes in conflict and taking null for relationship   *)
(* properties and violated constraints is always accepted.                 *)
AlwaysResolvable ==
    AddedToDeletedRelationship(base, ours, theirs) \/ Ready(Merge(base, ours, theirs, Escape))

(* The base without one relationship and its properties.                   *)
WithoutRelationship(r) == [s \in Slot |-> IF s = r \/ r \in Owners[s] THEN Absent ELSE base[s]]

(* docs/design/versioning.md: "delete-vs-modify -> conflict".  Where one   *)
(* side did nothing but delete a relationship, whose end nodes stay, and   *)
(* the other one nothing but set a property of it, the merge reports a     *)
(* conflict, or at the least has a candidate: it is not refused with       *)
(* nothing to resolve.                                                     *)
DeleteModifyReported ==
    \A merge \in {Current}, s \in Slot, v \in Value : \A r \in Owners[s] :
        /\ Kind[s] = "relationshipProperty" /\ base[r] \in Value /\ base[s] # v
        /\ {ours, theirs} = {WithoutRelationship(r), [base EXCEPT ![s] = v]}
        => merge.conflicts # {} \/ merge.accepted

=============================================================================
