--------------------------- MODULE ThreeWayMerge ---------------------------
(***************************************************************************)
(* The three-way merge of query/version/merge.rs and the resolutions of a  *)
(* merge session: what a session computes from the slots of its base, ours *)
(* and theirs.  A version is a function from the logical slots to their    *)
(* values, the schema's constraints among them.                            *)
(*                                                                         *)
(* merge_slots walks the slots in the order of their names.  A node sorts  *)
(* before its labels and properties and before every relationship, and a   *)
(* slot's result depends on no other earlier slot, so the walk is written  *)
(* here as one expression per slot.                                        *)
(*                                                                         *)
(* A conflict's id is the hash of the versions, the slot and the three     *)
(* values at the slot.  Within a session one slot has one id, so the slot  *)
(* stands for it and a session's resolutions are a partial function from   *)
(* slots to choices.                                                       *)
(***************************************************************************)
EXTENDS GraphLayers, FiniteSets, TLAPS

CONSTANTS
    Kind,           \* Kind[s]: node, label, property, relationship, relationshipProperty or schema
    SlotValues,     \* SlotValues[s]: the values s may hold
    Conforms,       \* Conforms[c]: the versions that satisfy constraint slot c
    ConstrainedBy,  \* ConstrainedBy[c]: the property slots c is about
    Unknown         \* VirtualValue::Unknown

Constraints == {s \in Slot : Kind[s] = "schema"}

-----------------------------------------------------------------------------
(* Merge bases (merge/virtual_base.rs).                                    *)

(* Mutant: two sides that made the same change are not seen to agree.      *)
SelectWithoutAgreement(base, ours, theirs) ==
    IF base = theirs THEN ours ELSE IF base = ours THEN theirs ELSE Unknown

(* select_value: the three-way rule on one slot; without an answer the     *)
(* value of the base is unknown.                                           *)
SelectValue(base, ours, theirs) ==
    IF ours = theirs \/ base = theirs THEN ours ELSE IF base = ours THEN theirs ELSE Unknown

(* virtual_merge_commits on the slots of two bases and of their base.      *)
VirtualMerge(base, first, second) ==
    [s \in Slot |-> SelectValue(base[s], first[s], second[s])]

(* virtual_base from the third base on: only what all agree on is known.   *)
Narrow(virtual, next) == [s \in Slot |-> IF virtual[s] = next[s] THEN next[s] ELSE Unknown]

-----------------------------------------------------------------------------
(* One slot of the merge.                                                  *)

(* node_child_owner: labels and properties belong to a node.               *)
IsNodeChild(s) == Kind[s] \in {"label", "property"}
NodeOf(s) == CHOOSE o \in Owners[s] : TRUE

(* effective_slot_value: a side that deleted a node of the base has no     *)
(* say about the node's labels and properties.                             *)
EffectiveValue(base, side, s) ==
    IF /\ IsNodeChild(s)
       /\ base[NodeOf(s)] \in Value /\ side[NodeOf(s)] = Absent
       /\ base[s] # Unknown
    THEN base[s] ELSE side[s]

(* direct_slot_decision: both sides changed the slot, differently.         *)
DirectConflict(base, ours, theirs) == ours # theirs /\ base # ours /\ base # theirs

SlotChanged(base, side, s) == base[s] # side[s]

(* Mutant: relationships are not dependents of their end nodes.            *)
ChildrenChanged(base, side, n) ==
    \E c \in Slot : IsNodeChild(c) /\ n \in Owners[c] /\ SlotChanged(base, side, c)

(* node_dependents_changed: a label or property of the node, or a          *)
(* relationship at the node with its properties, differs from the base.    *)
NodeDependentsChanged(base, side, n) ==
    \E d \in Slot : n \in Owners[d] /\
        \/ IsNodeChild(d) /\ SlotChanged(base, side, d)
        \/ /\ Kind[d] = "relationship" /\ side[d] # Absent
           /\ \/ SlotChanged(base, side, d)
              \/ \E p \in Slot : d \in Owners[p] /\ SlotChanged(base, side, p)

(* node_delete_modify_conflict.                                            *)
DeleteModifyConflict(base, ours, theirs, s) ==
    /\ Kind[s] = "node" /\ base[s] \in Value
    /\ \/ ours[s] = Absent /\ theirs[s] # Absent /\ NodeDependentsChanged(base, theirs, s)
       \/ theirs[s] = Absent /\ ours[s] # Absent /\ NodeDependentsChanged(base, ours, s)

Choice(s) == {"ours", "theirs", Absent} \cup SlotValues[s]

(* resolve_value: an unresolved conflict shows ours; an explicit null      *)
(* removes the slot.                                                       *)
ResolveValue(resolutions, s, ours, theirs) ==
    CASE s \notin DOMAIN resolutions \/ resolutions[s] = "ours" -> ours
      [] resolutions[s] = "theirs" -> theirs
      [] OTHER -> resolutions[s]

-----------------------------------------------------------------------------
(* The candidate before the schema is validated.                           *)

(* The conflicts that the values of a slot and of its dependents make.     *)
SlotConflict(base, ours, theirs, s) ==
    \/ DirectConflict(base[s], EffectiveValue(base, ours, s), EffectiveValue(base, theirs, s))
    \/ DeleteModifyConflict(base, ours, theirs, s)

(* prepare_slot_decision and the resolution in apply_slot_candidate, from  *)
(* the effective values of the two sides.                                  *)
SlotDecision(conflicts, resolutions, s, base, ours, theirs) ==
    IF s \in conflicts THEN ResolveValue(resolutions, s, ours, theirs)
    ELSE SelectValue(base, ours, theirs)

Decided(base, ours, theirs, conflicts, resolutions) ==
    [s \in Slot |-> SlotDecision(conflicts, resolutions, s, base[s],
                                 EffectiveValue(base, ours, s), EffectiveValue(base, theirs, s))]

(* A label or property of a node the candidate lacks is dropped.           *)
Placed(decided) ==
    [s \in Slot |-> IF IsNodeChild(s) /\ decided[NodeOf(s)] = Absent THEN Absent ELSE decided[s]]

(* invalid_relationship_conflict: a relationship without conflict whose    *)
(* end nodes are not both in the candidate.                                *)
DanglingRelationships(conflicts, placed) ==
    {s \in Slot : /\ Kind[s] = "relationship" /\ placed[s] # Absent
                  /\ s \notin conflicts
                  /\ \E n \in Owners[s] : placed[n] = Absent}

(* apply_slot_candidate of the relationships left without an end node.     *)
Connected(ours, theirs, resolutions, conflicts, placed) ==
    LET dangling == DanglingRelationships(conflicts, placed)
    IN  [candidate |-> [s \in Slot |-> IF s \in dangling
                                       THEN ResolveValue(resolutions, s, ours[s], theirs[s])
                                       ELSE placed[s]],
         conflicts |-> dangling \cup conflicts]

(* populate_candidate: every slot set, with the conflicts met on the way.  *)
Populated(base, ours, theirs, resolutions, conflicts) ==
    Connected(ours, theirs, resolutions, conflicts,
              Placed(Decided(base, ours, theirs, conflicts, resolutions)))

SlotMerge(base, ours, theirs, resolutions) ==
    Populated(base, ours, theirs, resolutions, {s \in Slot : SlotConflict(base, ours, theirs, s)})

-----------------------------------------------------------------------------
(* Validation of the candidate.                                            *)

Violated(g) == {c \in Constraints : g[c] # Absent /\ g \notin Conforms[c]}

(* What a commit holds.                                                    *)
Version ==
    {g \in Graph : /\ \A s \in Slot : g[s] \in SlotValues[s] \cup {Absent}
                   /\ WellFormed(g) /\ Violated(g) = {}}

(* The candidate with the resolutions of some constraints in place.        *)
WithApplied(g, ours, theirs, resolutions, applied) ==
    [s \in Slot |-> IF s \in applied THEN ResolveValue(resolutions, s, ours[s], theirs[s]) ELSE g[s]]

(* The loop of add_schema_validation_conflicts: resolved[applied] are the  *)
(* violated constraints that have a resolution; it is applied unless it    *)
(* was before, and the candidate is validated again.  These are the sets   *)
(* applied that the loop comes to from the empty one.                      *)
Rounds(resolved) ==
    {applied \in SUBSET Constraints : \A passed \in SUBSET SUBSET Constraints :
        /\ {} \in passed
        /\ \A a \in passed : resolved[a] \cap a = {} => a \cup resolved[a] \in passed
        => applied \in passed}

(* add_schema_validation_conflicts: a violated constraint is a conflict at *)
(* its own slot.  The loop ends when no violated constraint has a          *)
(* resolution, and fails when one that was applied is violated still.      *)
DerivedConflicts(g, ours, theirs, resolutions) ==
    LET violated == [applied \in SUBSET Constraints |->
                        Violated(WithApplied(g, ours, theirs, resolutions, applied))]
        resolved == [applied \in SUBSET Constraints |-> violated[applied] \cap DOMAIN resolutions]
        last     == {applied \in Rounds(resolved) : resolved[applied] = {}}
    IN  IF last = {}
        THEN [candidate |-> g, conflicts |-> {}, unresolved |-> {}, accepted |-> FALSE]
        ELSE LET applied == CHOOSE a \in last : TRUE
             IN  [candidate  |-> WithApplied(g, ours, theirs, resolutions, applied),
                  conflicts  |-> applied \cup violated[applied],
                  unresolved |-> violated[applied], accepted |-> TRUE]

(* Mutant: the graph invariants of a finished candidate are not checked.   *)
ScanUnchecked(merged, ours, theirs, resolutions) ==
    IF merged.conflicts \subseteq DOMAIN resolutions
    THEN [DerivedConflicts(merged.candidate, ours, theirs, resolutions) EXCEPT
             !.conflicts = @ \cup merged.conflicts]
    ELSE [candidate |-> merged.candidate, conflicts |-> merged.conflicts,
          unresolved |-> merged.conflicts \ DOMAIN resolutions, accepted |-> TRUE]

(* prepare_conflict_scan_from_base: the schema is looked at only when no   *)
(* slot conflict is left; accepted is FALSE when the computation fails.    *)
Scan(merged, ours, theirs, resolutions) ==
    IF merged.conflicts \subseteq DOMAIN resolutions
    THEN LET derived == DerivedConflicts(merged.candidate, ours, theirs, resolutions)
         IN  [candidate |-> derived.candidate, conflicts |-> derived.conflicts \cup merged.conflicts,
              unresolved |-> derived.unresolved,
              accepted |-> derived.accepted /\ WellFormed(merged.candidate)]
    ELSE [candidate |-> merged.candidate, conflicts |-> merged.conflicts,
          unresolved |-> merged.conflicts \ DOMAIN resolutions, accepted |-> TRUE]

FullMerge(base, ours, theirs, resolutions) ==
    Scan(SlotMerge(base, ours, theirs, resolutions), ours, theirs, resolutions)

-----------------------------------------------------------------------------
(* The sparse property merge (merge/sparse.rs), tried before the full one. *)

IsProperty(s) == Kind[s] \in {"property", "relationshipProperty"}

Touched(base, ours, theirs) == {s \in Slot : ours[s] # base[s] \/ theirs[s] # base[s]}

(* try_sparse_property_merge: one base, the three schemas equal, only      *)
(* properties changed, none under a key a constraint is about.             *)
SparseApplies(base, ours, theirs) ==
    /\ \A s \in Slot : base[s] # Unknown
    /\ \A s \in Touched(base, ours, theirs) :
           IsProperty(s) /\ \A c \in Constraints : ours[c] # Absent => s \notin ConstrainedBy[c]

(* sparse_candidate_layer and unresolved_count.                            *)
SparseMerge(base, ours, theirs, resolutions) ==
    LET touched   == Touched(base, ours, theirs)
        conflicts == {s \in touched : DirectConflict(base[s], ours[s], theirs[s])}
    IN  [candidate  |-> [s \in Slot |-> CASE s \in conflicts -> ResolveValue(resolutions, s, ours[s], theirs[s])
                                          [] s \in touched \ conflicts -> SelectValue(base[s], ours[s], theirs[s])
                                          [] OTHER -> ours[s]],
         conflicts  |-> conflicts,
         unresolved |-> conflicts \ DOMAIN resolutions,
         accepted   |-> TRUE]

(* compute_summary once the versions are known to have diverged.           *)
Merge(base, ours, theirs, resolutions) ==
    IF SparseApplies(base, ours, theirs) THEN SparseMerge(base, ours, theirs, resolutions)
    ELSE FullMerge(base, ours, theirs, resolutions)

Ready(merge) == merge.accepted /\ merge.unresolved = {}

(* The slots that a conflict about s is reported at: s, its owners and     *)
(* their owners.                                                           *)
Around(s) == {s} \cup Owners[s] \cup UNION {Owners[o] : o \in Owners[s]}

(* The same choices of a user who merges the other way round.              *)
Mirror(choice) == IF choice = "ours" THEN "theirs" ELSE IF choice = "theirs" THEN "ours" ELSE choice
Mirrored(resolutions) == [s \in DOMAIN resolutions |-> Mirror(resolutions[s])]

(* The choices that keep the nodes in conflict and take null for           *)
(* relationship properties and violated constraints.                       *)
Escape ==
    [s \in Slot |-> IF Kind[s] = "node" THEN CHOOSE v \in SlotValues[s] : TRUE
                    ELSE IF Kind[s] \in {"schema", "relationshipProperty"} THEN Absent
                    ELSE "ours"]

(* One side deleted a relationship to which the other added a property.    *)
AddedToDeletedRelationship(base, ours, theirs) ==
    \E s \in Slot : \E relationship \in Owners[s] : \E deleter, other \in {ours, theirs} :
        /\ Kind[s] = "relationshipProperty" /\ base[relationship] # Absent
        /\ deleter[relationship] = Absent
        /\ base[s] = Absent /\ other[s] # Absent

-----------------------------------------------------------------------------
(* Theorems about every merge, for any slots, values and constraints.      *)

(* The kinds of slots: who owns what, what marks an unknown base, and that *)
(* a choice is told from a value.                                          *)
Shaped ==
    /\ \A s \in Slot :
           /\ Kind[s] \in {"node", "label", "property", "relationship", "relationshipProperty", "schema"}
           /\ Kind[s] \in {"node", "schema"} => Owners[s] = {}
           /\ IsNodeChild(s) => \E n \in Slot : Owners[s] = {n} /\ Kind[n] = "node"
           /\ Kind[s] = "relationship" => \A n \in Owners[s] : Kind[n] = "node"
           /\ Kind[s] = "relationshipProperty" =>
                  \E r \in Slot : Owners[s] = {r} /\ Kind[r] = "relationship"
           /\ SlotValues[s] \subseteq Value /\ (Kind[s] = "node" => SlotValues[s] # {})
    /\ \A c \in Constraints : \A s \in ConstrainedBy[c] : IsProperty(s)
    /\ Unknown \notin Value \cup {Absent}
    /\ {"ours", "theirs"} \cap (Value \cup {Absent}) = {}

(* A constraint looks at the labels, nodes and relationships and at the    *)
(* properties it is about; not at other properties or constraints.         *)
Looked(c) == {s \in Slot : s \in ConstrainedBy[c] \/ ~ (IsProperty(s) \/ s \in Constraints)}
Local ==
    \A c \in Constraints : \A g, h \in Graph :
        (\A s \in Looked(c) : g[s] = h[s]) => (g \in Conforms[c] <=> h \in Conforms[c])

(* What a merge session or a rebase merges.                                *)
Mergeable(base, ours, theirs, resolutions) ==
    /\ base \in [Slot -> Value \cup {Absent, Unknown}]
    /\ \A s \in Slot : base[s] \in SlotValues[s] \cup {Absent, Unknown}
    /\ ours \in Version /\ theirs \in Version
    /\ DOMAIN resolutions \subseteq Slot
    /\ \A s \in DOMAIN resolutions : resolutions[s] \in Choice(s)

LEMMA NodeOfChild ==
    ASSUME Shaped, NEW s \in Slot, IsNodeChild(s)
    PROVE  NodeOf(s) \in Slot /\ Owners[s] = {NodeOf(s)} /\ Kind[NodeOf(s)] = "node"
<1>1. PICK n \in Slot : Owners[s] = {n} /\ Kind[n] = "node"
  BY DEF Shaped
<1>2. NodeOf(s) = n
  BY <1>1 DEF NodeOf
<1> QED
  BY <1>1, <1>2

LEMMA ResolvedTyped ==
    ASSUME NEW base, NEW ours, NEW theirs, NEW resolutions,
           Mergeable(base, ours, theirs, resolutions), NEW s \in Slot,
           NEW x \in SlotValues[s] \cup {Absent}, NEW y \in SlotValues[s] \cup {Absent}
    PROVE  ResolveValue(resolutions, s, x, y) \in SlotValues[s] \cup {Absent}
<1>1. CASE s \in DOMAIN resolutions
  <2>1. resolutions[s] \in {"ours", "theirs", Absent} \cup SlotValues[s]
    BY <1>1 DEF Mergeable, Choice
  <2> QED
    BY <2>1, <1>1 DEF ResolveValue
<1>2. CASE s \notin DOMAIN resolutions
  BY <1>2 DEF ResolveValue
<1> QED
  BY <1>1, <1>2

(* What a slot of the candidate can hold.                                  *)
LEMMA EffectiveTyped ==
    ASSUME Shaped, NEW base, NEW ours, NEW theirs, NEW resolutions,
           Mergeable(base, ours, theirs, resolutions), NEW s \in Slot, NEW side \in {ours, theirs}
    PROVE  EffectiveValue(base, side, s) \in SlotValues[s] \cup {Absent}
<1>1. side[s] \in SlotValues[s] \cup {Absent}
  BY DEF Mergeable, Version
<1>2. base[s] \in SlotValues[s] \cup {Absent, Unknown}
  BY DEF Mergeable
<1> QED
  BY <1>1, <1>2 DEF EffectiveValue

LEMMA DecidedTyped ==
    ASSUME Shaped, NEW base, NEW ours, NEW theirs, NEW resolutions,
           Mergeable(base, ours, theirs, resolutions), NEW s \in Slot,
           NEW conflicts, conflicts = {t \in Slot : SlotConflict(base, ours, theirs, t)}
    PROVE  Decided(base, ours, theirs, conflicts, resolutions)[s] \in SlotValues[s] \cup {Absent}
<1> DEFINE x == EffectiveValue(base, ours, s)
           y == EffectiveValue(base, theirs, s)
<1>1. x \in SlotValues[s] \cup {Absent} /\ y \in SlotValues[s] \cup {Absent}
  BY EffectiveTyped
<1>2. Decided(base, ours, theirs, conflicts, resolutions)[s]
        = SlotDecision(conflicts, resolutions, s, base[s], x, y)
  BY DEF Decided
<1>3. CASE s \in conflicts
  BY <1>1, <1>2, <1>3, ResolvedTyped DEF SlotDecision
<1>4. CASE s \notin conflicts
  <2>1. ~ DirectConflict(base[s], x, y)
    BY <1>4 DEF SlotConflict
  <2>2. SelectValue(base[s], x, y) \in {x, y}
    BY <2>1 DEF DirectConflict, SelectValue
  <2> QED
    BY <1>1, <1>2, <1>4, <2>2 DEF SlotDecision
<1> QED
  BY <1>3, <1>4

LEMMA MergedTyped ==
    ASSUME Shaped, NEW base, NEW ours, NEW theirs, NEW resolutions,
           Mergeable(base, ours, theirs, resolutions)
    PROVE  LET merged == SlotMerge(base, ours, theirs, resolutions)
           IN  /\ merged.candidate \in Graph
               /\ \A s \in Slot : merged.candidate[s] \in SlotValues[s] \cup {Absent}
<1> DEFINE conflicts == {s \in Slot : SlotConflict(base, ours, theirs, s)}
           decided == Decided(base, ours, theirs, conflicts, resolutions)
           placed == Placed(decided)
           dangling == DanglingRelationships(conflicts, placed)
           candidate == SlotMerge(base, ours, theirs, resolutions).candidate
<1>1. candidate = [s \in Slot |-> IF s \in dangling THEN ResolveValue(resolutions, s, ours[s], theirs[s])
                                 ELSE placed[s]]
  BY DEF SlotMerge, Populated, Connected
<1>2. ASSUME NEW s \in Slot PROVE candidate[s] \in SlotValues[s] \cup {Absent}
  <2>1. decided[s] \in SlotValues[s] \cup {Absent}
    BY DecidedTyped
  <2>2. placed[s] \in SlotValues[s] \cup {Absent}
    BY <2>1 DEF Placed
  <2>3. ours[s] \in SlotValues[s] \cup {Absent} /\ theirs[s] \in SlotValues[s] \cup {Absent}
    BY DEF Mergeable, Version
  <2>4. ResolveValue(resolutions, s, ours[s], theirs[s]) \in SlotValues[s] \cup {Absent}
    BY <2>3, ResolvedTyped
  <2> HIDE DEF placed, dangling, decided, candidate
  <2> QED
    BY <1>1, <2>2, <2>4
<1>3. candidate \in Graph
  <2> HIDE DEF placed, dangling, decided, candidate
  <2> QED
    BY <1>1, <1>2 DEF Graph, Shaped
<1> QED
  BY <1>2, <1>3

(* The loop over the violated constraints applies resolutions only.        *)
LEMMA RoundsResolved ==
    ASSUME NEW resolved \in [SUBSET Constraints -> SUBSET Constraints], NEW D,
           \A a \in SUBSET Constraints : resolved[a] \subseteq D
    PROVE  \A a \in Rounds(resolved) : a \in SUBSET Constraints /\ a \subseteq D
<1> DEFINE passed == {a \in SUBSET Constraints : a \subseteq D}
<1>1. passed \in SUBSET SUBSET Constraints /\ {} \in passed
  OBVIOUS
<1>2. ASSUME NEW a \in passed PROVE a \cup resolved[a] \in passed
  OBVIOUS
<1> HIDE DEF passed
<1>3. \A a \in Rounds(resolved) : a \in passed
  BY <1>1, <1>2 DEF Rounds
<1> QED
  BY <1>3 DEF passed

(* What add_schema_validation_conflicts leaves when it succeeds.           *)
LEMMA DerivedAccepted ==
    ASSUME NEW g, NEW ours, NEW theirs, NEW resolutions,
           DerivedConflicts(g, ours, theirs, resolutions).accepted
    PROVE  \E applied \in SUBSET Constraints :
               LET derived == DerivedConflicts(g, ours, theirs, resolutions)
               IN  /\ applied \subseteq DOMAIN resolutions
                   /\ derived.candidate = WithApplied(g, ours, theirs, resolutions, applied)
                   /\ derived.conflicts = applied \cup Violated(derived.candidate)
                   /\ derived.unresolved = Violated(derived.candidate)
<1> DEFINE violated == [applied \in SUBSET Constraints |->
                           Violated(WithApplied(g, ours, theirs, resolutions, applied))]
           resolved == [applied \in SUBSET Constraints |-> violated[applied] \cap DOMAIN resolutions]
           last == {applied \in Rounds(resolved) : resolved[applied] = {}}
           applied == CHOOSE a \in last : TRUE
           derived == DerivedConflicts(g, ours, theirs, resolutions)
<1>1. derived = IF last = {}
        THEN [candidate |-> g, conflicts |-> {}, unresolved |-> {}, accepted |-> FALSE]
        ELSE [candidate  |-> WithApplied(g, ours, theirs, resolutions, applied),
              conflicts  |-> applied \cup violated[applied],
              unresolved |-> violated[applied], accepted |-> TRUE]
  BY DEF DerivedConflicts
<1>2. \A a \in SUBSET Constraints : violated[a] \in SUBSET Constraints
  BY DEF Violated
<1>3. resolved \in [SUBSET Constraints -> SUBSET Constraints]
      /\ \A a \in SUBSET Constraints : resolved[a] \subseteq DOMAIN resolutions
  BY <1>2
<1>4. last # {}
  <2> HIDE DEF last
  <2> QED
    BY <1>1
<1>5. applied \in last
  BY <1>4
<1>6. applied \in SUBSET Constraints /\ applied \subseteq DOMAIN resolutions
  <2> HIDE DEF resolved, applied
  <2> QED
    BY <1>3, <1>5, RoundsResolved
<1>7. violated[applied] = Violated(WithApplied(g, ours, theirs, resolutions, applied))
  BY <1>6
<1> HIDE DEF last, violated, resolved, applied
<1>8. /\ derived.candidate = WithApplied(g, ours, theirs, resolutions, applied)
      /\ derived.conflicts = applied \cup violated[applied]
      /\ derived.unresolved = violated[applied]
  BY <1>1, <1>4
<1> QED
  BY <1>6, <1>7, <1>8

(* Resolving constraints takes no owner away and adds nothing that needs   *)
(* one.                                                                    *)
LEMMA AppliedWellFormed ==
    ASSUME Shaped, NEW g \in Graph, WellFormed(g), NEW ours, NEW theirs, NEW resolutions,
           NEW applied \in SUBSET Constraints
    PROVE  WellFormed(WithApplied(g, ours, theirs, resolutions, applied))
<1> DEFINE h == WithApplied(g, ours, theirs, resolutions, applied)
<1>1. \A s \in Slot : s \notin Constraints => h[s] = g[s]
  BY DEF WithApplied
<1>2. \A s \in Slot : s \in Constraints => Owners[s] = {}
  BY DEF Shaped, Constraints
<1>3. \A s \in Slot : \A o \in Owners[s] : o \in Slot /\ o \notin Constraints
  BY OwnersAssumption DEF Shaped, Constraints, IsNodeChild
<1> HIDE DEF h
<1>4. WellFormed(h)
  BY <1>1, <1>2, <1>3 DEF WellFormed
<1> QED
  BY <1>4 DEF h

LEMMA AppliedTyped ==
    ASSUME Shaped, NEW base, NEW ours, NEW theirs, NEW resolutions,
           Mergeable(base, ours, theirs, resolutions), NEW g \in Graph,
           \A s \in Slot : g[s] \in SlotValues[s] \cup {Absent},
           NEW applied \in SUBSET Constraints
    PROVE  LET h == WithApplied(g, ours, theirs, resolutions, applied)
           IN  h \in Graph /\ \A s \in Slot : h[s] \in SlotValues[s] \cup {Absent}
<1> DEFINE h == WithApplied(g, ours, theirs, resolutions, applied)
<1>1. ASSUME NEW s \in Slot PROVE h[s] \in SlotValues[s] \cup {Absent}
  <2>1. ours[s] \in SlotValues[s] \cup {Absent} /\ theirs[s] \in SlotValues[s] \cup {Absent}
    BY DEF Mergeable, Version
  <2>2. ResolveValue(resolutions, s, ours[s], theirs[s]) \in SlotValues[s] \cup {Absent}
    BY <2>1, ResolvedTyped
  <2> QED
    BY <2>2 DEF WithApplied
<1>2. h = [s \in Slot |-> h[s]]
  BY DEF WithApplied
<1> HIDE DEF h
<1>3. h \in Graph
  BY <1>1, <1>2 DEF Graph, Shaped
<1> QED
  BY <1>1, <1>3 DEF h

(* A full merge that is ready.                                             *)
LEMMA FullReady ==
    ASSUME NEW base, NEW ours, NEW theirs, NEW resolutions,
           Ready(FullMerge(base, ours, theirs, resolutions))
    PROVE  LET merged == SlotMerge(base, ours, theirs, resolutions)
               merge  == FullMerge(base, ours, theirs, resolutions)
           IN  /\ merged.conflicts \subseteq DOMAIN resolutions /\ WellFormed(merged.candidate)
               /\ Violated(merge.candidate) = {}
               /\ \E applied \in SUBSET Constraints :
                      /\ applied \subseteq DOMAIN resolutions
                      /\ merge.candidate = WithApplied(merged.candidate, ours, theirs, resolutions, applied)
                      /\ merge.conflicts = applied \cup merged.conflicts
<1> DEFINE merged == SlotMerge(base, ours, theirs, resolutions)
           merge == FullMerge(base, ours, theirs, resolutions)
           derived == DerivedConflicts(merged.candidate, ours, theirs, resolutions)
<1>1. merge = IF merged.conflicts \subseteq DOMAIN resolutions
              THEN [candidate |-> derived.candidate, conflicts |-> derived.conflicts \cup merged.conflicts,
                    unresolved |-> derived.unresolved,
                    accepted |-> derived.accepted /\ WellFormed(merged.candidate)]
              ELSE [candidate |-> merged.candidate, conflicts |-> merged.conflicts,
                    unresolved |-> merged.conflicts \ DOMAIN resolutions, accepted |-> TRUE]
  BY DEF FullMerge, Scan
<1>2. merge.accepted /\ merge.unresolved = {}
  BY DEF Ready
<1> HIDE DEF merged, merge, derived
<1>4. merged.conflicts \subseteq DOMAIN resolutions
  BY <1>1, <1>2
<1>6. /\ merge.candidate = derived.candidate /\ merge.conflicts = derived.conflicts \cup merged.conflicts
      /\ merge.unresolved = derived.unresolved
      /\ merge.accepted = (derived.accepted /\ WellFormed(merged.candidate))
  BY <1>1, <1>4
<1>7. derived.accepted /\ WellFormed(merged.candidate)
  BY <1>6, <1>2
<1>8. PICK applied \in SUBSET Constraints :
          /\ applied \subseteq DOMAIN resolutions
          /\ derived.candidate = WithApplied(merged.candidate, ours, theirs, resolutions, applied)
          /\ derived.conflicts = applied \cup Violated(derived.candidate)
          /\ derived.unresolved = Violated(derived.candidate)
  BY <1>7, DerivedAccepted DEF derived
<1> QED
  BY <1>2, <1>4, <1>6, <1>7, <1>8 DEF merged, merge

(* A full merge that is ready gives a version that can be committed.       *)
THEOREM FullReadyIsVersion ==
    ASSUME Shaped, NEW base, NEW ours, NEW theirs, NEW resolutions,
           Mergeable(base, ours, theirs, resolutions),
           Ready(FullMerge(base, ours, theirs, resolutions))
    PROVE  FullMerge(base, ours, theirs, resolutions).candidate \in Version
<1> DEFINE merged == SlotMerge(base, ours, theirs, resolutions)
           merge == FullMerge(base, ours, theirs, resolutions)
<1>1. /\ WellFormed(merged.candidate) /\ Violated(merge.candidate) = {}
      /\ \E applied \in SUBSET Constraints :
             merge.candidate = WithApplied(merged.candidate, ours, theirs, resolutions, applied)
  BY FullReady
<1>2. merged.candidate \in Graph /\ \A s \in Slot : merged.candidate[s] \in SlotValues[s] \cup {Absent}
  BY MergedTyped
<1> HIDE DEF merged, merge
<1>3. WellFormed(merge.candidate)
  BY <1>1, <1>2, AppliedWellFormed
<1>4. merge.candidate \in Graph /\ \A s \in Slot : merge.candidate[s] \in SlotValues[s] \cup {Absent}
  BY <1>1, <1>2, AppliedTyped
<1> QED
  BY <1>1, <1>3, <1>4 DEF Version, merge

(* The owners of a slot are no properties.                                 *)
LEMMA OwnersNoProperties ==
    ASSUME Shaped, NEW s \in Slot, NEW o \in Owners[s]
    PROVE  o \in Slot /\ ~ IsProperty(o)
  BY OwnersAssumption DEF Shaped, IsProperty, IsNodeChild

(* The sparse merge on one slot.                                           *)
LEMMA SparseSlot ==
    ASSUME Shaped, NEW base, NEW ours, NEW theirs, NEW resolutions,
           Mergeable(base, ours, theirs, resolutions), SparseApplies(base, ours, theirs),
           NEW s \in Slot
    PROVE  LET candidate == SparseMerge(base, ours, theirs, resolutions).candidate
           IN  /\ candidate[s] \in SlotValues[s] \cup {Absent}
               /\ s \notin Touched(base, ours, theirs) => candidate[s] = ours[s] /\ ours[s] = theirs[s]
               /\ candidate[s] # Absent => ours[s] # Absent \/ theirs[s] # Absent
<1> DEFINE touched == Touched(base, ours, theirs)
           conflicts == {t \in touched : DirectConflict(base[t], ours[t], theirs[t])}
           candidate == SparseMerge(base, ours, theirs, resolutions).candidate
<1>1. candidate[s] = IF s \in conflicts THEN ResolveValue(resolutions, s, ours[s], theirs[s])
                     ELSE IF s \in touched THEN SelectValue(base[s], ours[s], theirs[s])
                     ELSE ours[s]
  BY DEF SparseMerge
<1>2. ours[s] \in SlotValues[s] \cup {Absent} /\ theirs[s] \in SlotValues[s] \cup {Absent}
  BY DEF Mergeable, Version
<1>3. CASE s \in conflicts
  <2>1. ours[s] # theirs[s] /\ s \in touched
    BY <1>3 DEF DirectConflict
  <2>2. ResolveValue(resolutions, s, ours[s], theirs[s]) \in SlotValues[s] \cup {Absent}
    BY <1>2, ResolvedTyped
  <2> HIDE DEF candidate, touched, conflicts
  <2>3. candidate[s] \in SlotValues[s] \cup {Absent}
    BY <1>1, <1>3, <2>2
  <2> QED
    BY <2>1, <2>3 DEF candidate, touched
<1>4. CASE s \in touched \ conflicts
  <2>1. SelectValue(base[s], ours[s], theirs[s]) \in {ours[s], theirs[s]}
    BY <1>4 DEF SelectValue, DirectConflict
  <2> HIDE DEF candidate, touched, conflicts
  <2>2. candidate[s] \in {ours[s], theirs[s]}
    BY <1>1, <1>4, <2>1
  <2> QED
    BY <1>2, <1>4, <2>2 DEF candidate, touched
<1>5. CASE s \notin touched
  <2>1. ours[s] = theirs[s]
    BY <1>5 DEF Touched
  <2>2. candidate[s] = ours[s]
    BY <1>1, <1>5
  <2> HIDE DEF candidate, conflicts
  <2> QED
    BY <1>2, <1>5, <2>1, <2>2 DEF candidate
<1> QED
  BY <1>3, <1>4, <1>5

(* The sparse merge is always a version: it needs no look at the graph or  *)
(* at the constraints.                                                     *)
THEOREM SparseIsVersion ==
    ASSUME Shaped, Local, NEW base, NEW ours, NEW theirs, NEW resolutions,
           Mergeable(base, ours, theirs, resolutions), SparseApplies(base, ours, theirs)
    PROVE  SparseMerge(base, ours, theirs, resolutions).candidate \in Version
<1> DEFINE touched == Touched(base, ours, theirs)
           candidate == SparseMerge(base, ours, theirs, resolutions).candidate
<1>1. \A s \in Slot : /\ candidate[s] \in SlotValues[s] \cup {Absent}
                      /\ s \notin touched => candidate[s] = ours[s] /\ ours[s] = theirs[s]
                      /\ candidate[s] # Absent => ours[s] # Absent \/ theirs[s] # Absent
  BY SparseSlot
<1>2. candidate = [s \in Slot |-> candidate[s]]
  BY DEF SparseMerge
<1>3. \A s \in touched : IsProperty(s) /\ \A c \in Constraints : ours[c] # Absent => s \notin ConstrainedBy[c]
  BY DEF SparseApplies
<1>4. ours \in Version /\ theirs \in Version
  BY DEF Mergeable
<1> HIDE DEF candidate, touched
<1>5. candidate \in Graph
  BY <1>1, <1>2 DEF Graph, Shaped
<1>6. WellFormed(candidate)
  <2> SUFFICES ASSUME NEW s \in Slot, candidate[s] # Absent, NEW o \in Owners[s]
               PROVE  candidate[o] # Absent
    BY DEF WellFormed
  <2>1. o \in Slot /\ o \notin touched
    BY <1>3, OwnersNoProperties
  <2>2. ours[o] # Absent \/ theirs[o] # Absent
    BY <1>1, <1>4 DEF Version, WellFormed
  <2> QED
    BY <1>1, <2>1, <2>2
<1>7. Violated(candidate) = {}
  <2> SUFFICES ASSUME NEW c \in Constraints, candidate[c] # Absent PROVE candidate \in Conforms[c]
    BY DEF Violated
  <2>1. c \in Slot /\ c \notin touched
    BY <1>3 DEF Constraints, IsProperty
  <2>2. ours[c] # Absent /\ ours \in Conforms[c] /\ ours \in Graph
    BY <1>1, <1>4, <2>1 DEF Version, Violated
  <2>3. \A s \in Looked(c) : s \in Slot /\ s \notin touched
    BY <1>3, <2>2 DEF Looked
  <2>4. \A s \in Looked(c) : candidate[s] = ours[s]
    BY <1>1, <2>3
  <2> QED
    BY <1>5, <2>2, <2>4 DEF Local
<1> QED
  BY <1>1, <1>5, <1>6, <1>7 DEF Version, candidate

(* A merge that is ready, whichever way it was computed, gives a version   *)
(* that can be committed without another look.                             *)
THEOREM ReadyIsVersion ==
    ASSUME Shaped, Local, NEW base, NEW ours, NEW theirs, NEW resolutions,
           Mergeable(base, ours, theirs, resolutions),
           Ready(Merge(base, ours, theirs, resolutions))
    PROVE  Merge(base, ours, theirs, resolutions).candidate \in Version
  BY SparseIsVersion, FullReadyIsVersion DEF Merge

(* A node without conflict is merged by its own values alone.              *)
LEMMA NodeDecided ==
    ASSUME NEW base, NEW ours, NEW theirs, NEW resolutions, NEW n \in Slot, Kind[n] = "node",
           NEW conflicts, conflicts = {t \in Slot : SlotConflict(base, ours, theirs, t)},
           n \notin conflicts
    PROVE  /\ Decided(base, ours, theirs, conflicts, resolutions)[n]
                  = SelectValue(base[n], ours[n], theirs[n])
           /\ SelectValue(base[n], ours[n], theirs[n]) \in {ours[n], theirs[n]}
<1>1. EffectiveValue(base, ours, n) = ours[n] /\ EffectiveValue(base, theirs, n) = theirs[n]
  BY DEF EffectiveValue, IsNodeChild
<1>2. ~ DirectConflict(base[n], ours[n], theirs[n])
  BY <1>1 DEF SlotConflict
<1> QED
  BY <1>1, <1>2 DEF Decided, SlotDecision, SelectValue, DirectConflict

(* A slot without conflict whose node, if it has one, is without conflict  *)
(* has the value that a side gave it, or the one all agree on.             *)
LEMMA PlacedKeeps ==
    ASSUME Shaped, NEW base, NEW ours, NEW theirs, NEW resolutions,
           Mergeable(base, ours, theirs, resolutions), NEW s \in Slot,
           NEW conflicts, conflicts = {t \in Slot : SlotConflict(base, ours, theirs, t)},
           Around(s) \cap conflicts = {}
    PROVE  LET placed == Placed(Decided(base, ours, theirs, conflicts, resolutions))
           IN  /\ \A side \in {ours, theirs} : base[s] \notin {Unknown, side[s]} => placed[s] = side[s]
               /\ ours[s] = theirs[s] => placed[s] = ours[s]
<1> DEFINE decided == Decided(base, ours, theirs, conflicts, resolutions)
           placed == Placed(decided)
           x == EffectiveValue(base, ours, s)
           y == EffectiveValue(base, theirs, s)
           n == NodeOf(s)
<1>1. s \notin conflicts
  BY DEF Around
<1>2. ~ DirectConflict(base[s], x, y)
  BY <1>1 DEF SlotConflict
<1>3. decided[s] = SelectValue(base[s], x, y)
  BY <1>1 DEF Decided, SlotDecision
<1>4. placed[s] = IF IsNodeChild(s) /\ decided[n] = Absent THEN Absent ELSE decided[s]
  BY DEF Placed
<1>5. CASE ~ IsNodeChild(s)
  <2>1. x = ours[s] /\ y = theirs[s]
    BY <1>5 DEF EffectiveValue
  <2>2. placed[s] = SelectValue(base[s], ours[s], theirs[s])
    BY <1>3, <1>4, <1>5, <2>1
  <2> HIDE DEF placed
  <2> QED
    BY <1>2, <2>1, <2>2 DEF SelectValue, DirectConflict, placed
<1>6. CASE IsNodeChild(s)
  <2>1. n \in Slot /\ Owners[s] = {n} /\ Kind[n] = "node"
    BY <1>6, NodeOfChild
  <2>2. n \notin conflicts
    BY <2>1 DEF Around
  <2>3. /\ decided[n] = SelectValue(base[n], ours[n], theirs[n])
        /\ decided[n] \in {ours[n], theirs[n]}
    BY <2>1, <2>2, NodeDecided
  <2>4. /\ ours[n] = Absent => ours[s] = Absent
        /\ theirs[n] = Absent => theirs[s] = Absent
    BY <2>1 DEF Mergeable, Version, WellFormed
  <2>5. base[n] \in Value /\ ours[n] = Absent /\ theirs[n] # Absent => base[s] = theirs[s]
    <3> SUFFICES ASSUME base[n] \in Value, ours[n] = Absent, theirs[n] # Absent, base[s] # theirs[s]
                 PROVE  FALSE
      OBVIOUS
    <3>1. NodeDependentsChanged(base, theirs, n)
      BY <1>6, <2>1 DEF NodeDependentsChanged, SlotChanged
    <3> QED
      BY <2>1, <2>2, <3>1 DEF SlotConflict, DeleteModifyConflict
  <2>6. base[n] \in Value /\ theirs[n] = Absent /\ ours[n] # Absent => base[s] = ours[s]
    <3> SUFFICES ASSUME base[n] \in Value, theirs[n] = Absent, ours[n] # Absent, base[s] # ours[s]
                 PROVE  FALSE
      OBVIOUS
    <3>1. NodeDependentsChanged(base, ours, n)
      BY <1>6, <2>1 DEF NodeDependentsChanged, SlotChanged
    <3> QED
      BY <2>1, <2>2, <3>1 DEF SlotConflict, DeleteModifyConflict
  <2>7. base[n] \in Value \cup {Absent, Unknown} /\ ours[n] \in Value \cup {Absent}
        /\ theirs[n] \in Value \cup {Absent} /\ Unknown \notin Value \cup {Absent}
    BY <2>1 DEF Mergeable, Version, Graph, Shaped
  <2>8. ~ DirectConflict(base[n], ours[n], theirs[n])
    <3>1. EffectiveValue(base, ours, n) = ours[n] /\ EffectiveValue(base, theirs, n) = theirs[n]
      BY <2>1 DEF EffectiveValue, IsNodeChild
    <3> QED
      BY <2>1, <2>2, <3>1 DEF SlotConflict
  <2>9. /\ x = IF base[n] \in Value /\ ours[n] = Absent /\ base[s] # Unknown THEN base[s] ELSE ours[s]
        /\ y = IF base[n] \in Value /\ theirs[n] = Absent /\ base[s] # Unknown THEN base[s] ELSE theirs[s]
    BY <1>6 DEF EffectiveValue
  <2> HIDE DEF x, y, decided, n
  <2>10. CASE decided[n] = Absent
    <3>1. placed[s] = Absent
      BY <1>4, <1>6, <2>10
    <3>2. base[s] \notin {Unknown, ours[s]} => ours[s] = Absent
      BY <2>3, <2>4, <2>5, <2>6, <2>7, <2>8, <2>10 DEF SelectValue, DirectConflict
    <3>3. base[s] \notin {Unknown, theirs[s]} => theirs[s] = Absent
      BY <2>3, <2>4, <2>5, <2>6, <2>7, <2>8, <2>10 DEF SelectValue, DirectConflict
    <3>4. ours[s] = theirs[s] => ours[s] = Absent
      BY <2>3, <2>4, <2>10
    <3> HIDE DEF placed
    <3> QED
      BY <3>1, <3>2, <3>3, <3>4 DEF placed, decided
  <2>11. CASE decided[n] # Absent
    <3>1. placed[s] = SelectValue(base[s], x, y)
      BY <1>3, <1>4, <2>11
    <3>2. ~ (base[n] \in Value /\ ours[n] = Absent) /\ ~ (base[n] \in Value /\ theirs[n] = Absent)
      BY MarkersAssumption, <2>3, <2>7, <2>8, <2>11 DEF SelectValue, DirectConflict
    <3>3. x = ours[s] /\ y = theirs[s]
      BY <2>9, <3>2
    <3> HIDE DEF placed
    <3> QED
      BY <1>2, <3>1, <3>3 DEF SelectValue, DirectConflict, placed, decided
  <2> QED
    BY <2>10, <2>11
<1> QED
  BY <1>5, <1>6

(* A ready merge loses no change that nobody was asked about, and changes  *)
(* nothing that both sides agree on.                                       *)
THEOREM FullMergeKeeps ==
    ASSUME Shaped, NEW base, NEW ours, NEW theirs, NEW resolutions,
           Mergeable(base, ours, theirs, resolutions),
           Ready(FullMerge(base, ours, theirs, resolutions)), NEW s \in Slot,
           Around(s) \cap FullMerge(base, ours, theirs, resolutions).conflicts = {}
    PROVE  LET candidate == FullMerge(base, ours, theirs, resolutions).candidate
           IN  /\ \A side \in {ours, theirs} : base[s] \notin {Unknown, side[s]} => candidate[s] = side[s]
               /\ ours[s] = theirs[s] => candidate[s] = ours[s]
<1> DEFINE merged == SlotMerge(base, ours, theirs, resolutions)
           merge == FullMerge(base, ours, theirs, resolutions)
           conflicts == {t \in Slot : SlotConflict(base, ours, theirs, t)}
           placed == Placed(Decided(base, ours, theirs, conflicts, resolutions))
           dangling == DanglingRelationships(conflicts, placed)
<1>1. PICK applied \in SUBSET Constraints :
          /\ merge.candidate = WithApplied(merged.candidate, ours, theirs, resolutions, applied)
          /\ merge.conflicts = applied \cup merged.conflicts
  BY FullReady
<1>2. /\ merged.conflicts = dangling \cup conflicts
      /\ merged.candidate = [t \in Slot |-> IF t \in dangling
                                            THEN ResolveValue(resolutions, t, ours[t], theirs[t])
                                            ELSE placed[t]]
  BY DEF SlotMerge, Populated, Connected
<1>3. s \in Around(s)
  BY DEF Around
<1>4. Around(s) \cap conflicts = {}
  <2> HIDE DEF merge, merged, conflicts, dangling
  <2> QED
    BY <1>1, <1>2 DEF merge
<1>5. s \notin applied /\ s \notin dangling
  <2> HIDE DEF merge, merged, conflicts, dangling
  <2> QED
    BY <1>1, <1>2, <1>3 DEF merge
<1>6. /\ \A side \in {ours, theirs} : base[s] \notin {Unknown, side[s]} => placed[s] = side[s]
      /\ ours[s] = theirs[s] => placed[s] = ours[s]
  BY <1>4, PlacedKeeps
<1>7. merge.candidate[s] = merged.candidate[s]
  <2> HIDE DEF merge, merged
  <2> QED
    BY <1>1, <1>5 DEF WithApplied
<1>8. merged.candidate[s] = placed[s]
  <2> HIDE DEF merged, placed, dangling
  <2> QED
    BY <1>2, <1>5
<1> HIDE DEF merge, merged, placed
<1> QED
  BY <1>6, <1>7, <1>8 DEF merge

(* A candidate that violates nothing is left as it is.                     *)
LEMMA DerivedNone ==
    ASSUME NEW g, g = [s \in Slot |-> g[s]], Violated(g) = {}, NEW ours, NEW theirs, NEW resolutions
    PROVE  DerivedConflicts(g, ours, theirs, resolutions)
               = [candidate |-> g, conflicts |-> {}, unresolved |-> {}, accepted |-> TRUE]
<1> DEFINE violated == [applied \in SUBSET Constraints |->
                           Violated(WithApplied(g, ours, theirs, resolutions, applied))]
           resolved == [applied \in SUBSET Constraints |-> violated[applied] \cap DOMAIN resolutions]
           last == {applied \in Rounds(resolved) : resolved[applied] = {}}
           applied == CHOOSE a \in last : TRUE
<1>1. DerivedConflicts(g, ours, theirs, resolutions) = IF last = {}
        THEN [candidate |-> g, conflicts |-> {}, unresolved |-> {}, accepted |-> FALSE]
        ELSE [candidate  |-> WithApplied(g, ours, theirs, resolutions, applied),
              conflicts  |-> applied \cup violated[applied],
              unresolved |-> violated[applied], accepted |-> TRUE]
  BY DEF DerivedConflicts
<1>2. WithApplied(g, ours, theirs, resolutions, {}) = g
  BY DEF WithApplied
<1>3. violated[{}] = {}
  BY <1>2
<1>4. resolved[{}] = {}
  <2> HIDE DEF violated
  <2> QED
    BY <1>3
<1> HIDE DEF violated, resolved
<1>5. Rounds(resolved) = {{}}
  <2>1. {} \in Rounds(resolved)
    BY DEF Rounds
  <2>2. {{}} \in SUBSET SUBSET Constraints /\ \A a \in {{}} : a \cup resolved[a] \in {{}}
    BY <1>4
  <2>3. \A a \in Rounds(resolved) : a \in {{}}
    BY <2>2 DEF Rounds
  <2> QED
    BY <2>1, <2>3
<1>6. last = {{}}
  BY <1>4, <1>5
<1>7. applied = {} /\ last # {}
  BY <1>6
<1> HIDE DEF last, applied
<1> QED
  BY <1>1, <1>2, <1>3, <1>7

(* Where the sparse property merge applies it reports exactly the          *)
(* conflicts and the candidate of the full scan.                           *)
THEOREM SparseIsFull ==
    ASSUME Shaped, Local, NEW base \in Version, NEW ours, NEW theirs, NEW resolutions,
           Mergeable(base, ours, theirs, resolutions), SparseApplies(base, ours, theirs)
    PROVE  FullMerge(base, ours, theirs, resolutions) = SparseMerge(base, ours, theirs, resolutions)
<1> DEFINE touched == Touched(base, ours, theirs)
           sparse == SparseMerge(base, ours, theirs, resolutions)
           conflicts == {s \in Slot : SlotConflict(base, ours, theirs, s)}
           decided == Decided(base, ours, theirs, conflicts, resolutions)
           placed == Placed(decided)
           dangling == DanglingRelationships(conflicts, placed)
           merged == SlotMerge(base, ours, theirs, resolutions)
<1>1. \A s \in Slot : s \notin touched => ours[s] = base[s] /\ theirs[s] = base[s]
  BY DEF Touched
<1>2. \A s \in touched : IsProperty(s)
  BY DEF SparseApplies
<1>3. \A s \in Slot : ~ IsProperty(s) => ours[s] = base[s] /\ theirs[s] = base[s]
  BY <1>1, <1>2
<1>4. ASSUME NEW s \in Slot, NEW side \in {ours, theirs} PROVE EffectiveValue(base, side, s) = side[s]
  <2>1. CASE IsNodeChild(s)
    <3>1. NodeOf(s) \in Slot /\ ~ IsProperty(NodeOf(s))
      BY <2>1, NodeOfChild DEF IsProperty
    <3>2. side[NodeOf(s)] = base[NodeOf(s)]
      BY <1>3, <3>1
    <3> QED
      BY <3>2, MarkersAssumption DEF EffectiveValue
  <2> QED
    BY <2>1 DEF EffectiveValue
<1>5. \A s \in Slot : s \in conflicts <=> s \in touched /\ DirectConflict(base[s], ours[s], theirs[s])
  <2> SUFFICES ASSUME NEW s \in Slot
               PROVE  SlotConflict(base, ours, theirs, s)
                          <=> s \in touched /\ DirectConflict(base[s], ours[s], theirs[s])
    OBVIOUS
  <2>1. ~ DeleteModifyConflict(base, ours, theirs, s)
    BY <1>3, MarkersAssumption DEF DeleteModifyConflict, IsProperty
  <2>2. DirectConflict(base[s], ours[s], theirs[s]) => s \in touched
    BY DEF DirectConflict, Touched
  <2> QED
    BY <1>4, <2>1, <2>2 DEF SlotConflict
<1>6. /\ sparse.conflicts = {s \in touched : DirectConflict(base[s], ours[s], theirs[s])}
      /\ sparse.candidate = [s \in Slot |->
             IF s \in sparse.conflicts THEN ResolveValue(resolutions, s, ours[s], theirs[s])
             ELSE IF s \in touched THEN SelectValue(base[s], ours[s], theirs[s])
             ELSE ours[s]]
      /\ sparse = [candidate |-> sparse.candidate, conflicts |-> sparse.conflicts,
                   unresolved |-> sparse.conflicts \ DOMAIN resolutions, accepted |-> TRUE]
  BY DEF SparseMerge
<1>7. touched \subseteq Slot
  BY DEF Touched
<1>8. conflicts = sparse.conflicts
  <2> HIDE DEF sparse, touched
  <2> QED
    BY <1>5, <1>6, <1>7
<1>9. decided = sparse.candidate
  <2>1. decided = [s \in Slot |-> IF s \in conflicts THEN ResolveValue(resolutions, s, ours[s], theirs[s])
                                 ELSE SelectValue(base[s], ours[s], theirs[s])]
    BY <1>4 DEF Decided, SlotDecision
  <2>2. \A s \in Slot : s \notin touched => SelectValue(base[s], ours[s], theirs[s]) = ours[s]
    BY <1>1 DEF SelectValue
  <2> HIDE DEF decided, sparse, conflicts, touched
  <2> QED
    BY <1>6, <1>8, <2>1, <2>2
<1>10. \A s \in Slot : s \notin touched => decided[s] = ours[s]
  <2> HIDE DEF decided, sparse, conflicts, touched
  <2> QED
    BY <1>6, <1>9
<1>11. placed = decided
  <2>1. ASSUME NEW s \in Slot, IsNodeChild(s), decided[NodeOf(s)] = Absent PROVE decided[s] = Absent
    <3>1. NodeOf(s) \in Slot /\ Owners[s] = {NodeOf(s)} /\ ~ IsProperty(NodeOf(s))
      BY <2>1, NodeOfChild DEF IsProperty
    <3>2. ours[NodeOf(s)] = Absent /\ theirs[NodeOf(s)] = Absent /\ base[NodeOf(s)] = Absent
      BY <1>2, <1>3, <1>10, <2>1, <3>1
    <3>3. ours[s] = Absent /\ theirs[s] = Absent /\ base[s] = Absent
      BY <3>1, <3>2 DEF Mergeable, Version, WellFormed
    <3>4. s \notin touched
      BY <3>3 DEF Touched
    <3> QED
      BY <1>10, <3>3, <3>4
  <2>2. decided = [s \in Slot |-> decided[s]]
    BY DEF Decided
  <2> HIDE DEF decided
  <2> QED
    BY <2>1, <2>2 DEF Placed
<1>12. dangling = {}
  <2> SUFFICES ASSUME NEW s \in Slot, Kind[s] = "relationship", placed[s] # Absent, NEW n \in Owners[s]
               PROVE  placed[n] # Absent
    BY DEF DanglingRelationships
  <2>1. n \in Slot /\ ~ IsProperty(n) /\ ~ IsProperty(s)
    BY OwnersNoProperties DEF IsProperty
  <2>2. decided[s] = ours[s] /\ decided[n] = ours[n]
    BY <1>2, <1>10, <2>1
  <2> HIDE DEF decided
  <2> QED
    BY <1>11, <2>2 DEF Mergeable, Version, WellFormed
<1>13. merged.candidate = sparse.candidate /\ merged.conflicts = sparse.conflicts
  <2>1. merged = [candidate |-> [s \in Slot |-> IF s \in dangling
                                   THEN ResolveValue(resolutions, s, ours[s], theirs[s]) ELSE placed[s]],
                  conflicts |-> dangling \cup conflicts]
    BY DEF SlotMerge, Populated, Connected
  <2>2. placed = [s \in Slot |-> placed[s]]
    BY DEF Placed
  <2> HIDE DEF merged, dangling, placed, conflicts, sparse, decided
  <2>3. merged.candidate = placed /\ merged.conflicts = conflicts
    BY <1>12, <2>1, <2>2
  <2> QED
    BY <1>8, <1>9, <1>11, <2>3
<1>14. sparse.candidate \in Version
  BY SparseIsVersion
<1>15. WellFormed(sparse.candidate) /\ Violated(sparse.candidate) = {} /\ sparse.candidate \in Graph
  BY <1>14 DEF Version
<1>16. DerivedConflicts(sparse.candidate, ours, theirs, resolutions)
         = [candidate |-> sparse.candidate, conflicts |-> {}, unresolved |-> {}, accepted |-> TRUE]
  <2>1. sparse.candidate = [s \in Slot |-> sparse.candidate[s]]
    BY <1>15 DEF Graph
  <2> QED
    BY <1>15, <2>1, DerivedNone
<1> HIDE DEF sparse, merged
<1>17. FullMerge(base, ours, theirs, resolutions) = Scan(merged, ours, theirs, resolutions)
  BY DEF FullMerge, merged
<1>18. CASE sparse.conflicts \subseteq DOMAIN resolutions
  <2>1. Scan(merged, ours, theirs, resolutions)
          = [candidate |-> sparse.candidate, conflicts |-> sparse.conflicts, unresolved |-> {}, accepted |-> TRUE]
    <3>1. DerivedConflicts(merged.candidate, ours, theirs, resolutions)
            = [candidate |-> sparse.candidate, conflicts |-> {}, unresolved |-> {}, accepted |-> TRUE]
      BY <1>13, <1>16
    <3>2. Scan(merged, ours, theirs, resolutions)
            = [candidate |-> sparse.candidate, conflicts |-> {} \cup sparse.conflicts, unresolved |-> {},
               accepted |-> TRUE /\ WellFormed(sparse.candidate)]
      BY <1>13, <1>18, <3>1 DEF Scan
    <3>3. (TRUE /\ WellFormed(sparse.candidate)) = TRUE
      BY <1>15
    <3> QED
      BY <3>2, <3>3
  <2>2. sparse.conflicts \ DOMAIN resolutions = {}
    BY <1>18
  <2> QED
    BY <1>6, <1>17, <2>1, <2>2 DEF sparse
<1>19. CASE ~ (sparse.conflicts \subseteq DOMAIN resolutions)
  <2>1. Scan(merged, ours, theirs, resolutions)
          = [candidate |-> sparse.candidate, conflicts |-> sparse.conflicts,
             unresolved |-> sparse.conflicts \ DOMAIN resolutions, accepted |-> TRUE]
    BY <1>13, <1>19 DEF Scan
  <2> QED
    BY <1>6, <1>17, <2>1 DEF sparse
<1> QED
  BY <1>18, <1>19

(* What one side changed since the base is in a ready candidate, unless a  *)
(* conflict about it was reported.                                         *)
THEOREM MergeKeeps ==
    ASSUME Shaped, NEW base, NEW ours, NEW theirs, NEW resolutions,
           Mergeable(base, ours, theirs, resolutions),
           Ready(Merge(base, ours, theirs, resolutions)), NEW s \in Slot, NEW side \in {ours, theirs},
           Around(s) \cap Merge(base, ours, theirs, resolutions).conflicts = {},
           base[s] \notin {Unknown, side[s]}
    PROVE  Merge(base, ours, theirs, resolutions).candidate[s] = side[s]
<1>1. CASE SparseApplies(base, ours, theirs)
  <2> DEFINE sparse == SparseMerge(base, ours, theirs, resolutions)
             touched == Touched(base, ours, theirs)
  <2>1. /\ sparse.conflicts = {t \in touched : DirectConflict(base[t], ours[t], theirs[t])}
        /\ sparse.candidate[s] =
             IF s \in sparse.conflicts THEN ResolveValue(resolutions, s, ours[s], theirs[s])
             ELSE IF s \in touched THEN SelectValue(base[s], ours[s], theirs[s])
             ELSE ours[s]
    BY DEF SparseMerge
  <2>2. Merge(base, ours, theirs, resolutions) = sparse
    BY <1>1 DEF Merge
  <2> HIDE DEF sparse
  <2>3. s \notin sparse.conflicts
    BY <2>2 DEF Around
  <2>4. s \in touched
    BY DEF Touched
  <2>5. ~ DirectConflict(base[s], ours[s], theirs[s])
    BY <2>1, <2>3, <2>4
  <2>6. SelectValue(base[s], ours[s], theirs[s]) = side[s]
    BY <2>5 DEF SelectValue, DirectConflict
  <2> QED
    BY <2>1, <2>2, <2>3, <2>4, <2>6
<1>2. CASE ~ SparseApplies(base, ours, theirs)
  BY <1>2, FullMergeKeeps DEF Merge
<1> QED
  BY <1>1, <1>2

(* The loop over violated constraints starts with none applied and goes    *)
(* from round to round.                                                    *)
LEMMA RoundsClosed ==
    ASSUME NEW resolved \in [SUBSET Constraints -> SUBSET Constraints]
    PROVE  /\ {} \in Rounds(resolved)
           /\ \A a \in Rounds(resolved) : resolved[a] \cap a = {} => a \cup resolved[a] \in Rounds(resolved)
  BY DEF Rounds

LEMMA RoundsWithin ==
    ASSUME NEW first \in [SUBSET Constraints -> SUBSET Constraints],
           NEW second \in [SUBSET Constraints -> SUBSET Constraints], NEW D,
           \A a \in SUBSET Constraints : first[a] \subseteq D /\ second[a] \subseteq D,
           \A a \in SUBSET Constraints : a \subseteq D => first[a] = second[a]
    PROVE  Rounds(first) \subseteq Rounds(second)
<1>1. Rounds(second) \in SUBSET SUBSET Constraints /\ {} \in Rounds(second)
  BY RoundsClosed DEF Rounds
<1>2. \A a \in Rounds(second) : a \in SUBSET Constraints /\ a \subseteq D
  BY RoundsResolved
<1>3. \A a \in Rounds(second) : first[a] \cap a = {} => a \cup first[a] \in Rounds(second)
  BY <1>2, RoundsClosed
<1>4. \A a \in Rounds(first) : a \in Rounds(second)
  <2> SUFFICES ASSUME NEW a \in Rounds(first) PROVE a \in Rounds(second)
    OBVIOUS
  <2>1. \A passed \in SUBSET SUBSET Constraints :
            /\ {} \in passed
            /\ \A b \in passed : first[b] \cap b = {} => b \cup first[b] \in passed
            => a \in passed
    BY DEF Rounds
  <2> QED
    BY <1>1, <1>3, <2>1
<1> QED
  BY <1>4

LEMMA ResolveMirrored ==
    ASSUME NEW resolutions, NEW s \in DOMAIN resolutions, NEW x, NEW y
    PROVE  ResolveValue(Mirrored(resolutions), s, y, x) = ResolveValue(resolutions, s, x, y)
<1>1. s \in DOMAIN Mirrored(resolutions) /\ Mirrored(resolutions)[s] = Mirror(resolutions[s])
  BY DEF Mirrored
<1>2. CASE resolutions[s] = "ours"
  <2>1. Mirrored(resolutions)[s] = "theirs" /\ "theirs" # "ours"
    BY <1>1, <1>2 DEF Mirror
  <2> QED
    BY <1>1, <1>2, <2>1 DEF ResolveValue
<1>3. CASE resolutions[s] = "theirs"
  <2>1. Mirrored(resolutions)[s] = "ours" /\ "theirs" # "ours"
    BY <1>1, <1>3 DEF Mirror
  <2> QED
    BY <1>1, <1>3, <2>1 DEF ResolveValue
<1>4. CASE resolutions[s] # "ours" /\ resolutions[s] # "theirs"
  <2>1. Mirrored(resolutions)[s] = resolutions[s]
    BY <1>1, <1>4 DEF Mirror
  <2> QED
    BY <1>1, <1>4, <2>1 DEF ResolveValue
<1> QED
  BY <1>2, <1>3, <1>4

(* Validation treats the two sides alike.                                  *)
LEMMA DerivedMirrored ==
    ASSUME NEW g, NEW ours, NEW theirs, NEW resolutions
    PROVE  DerivedConflicts(g, theirs, ours, Mirrored(resolutions))
               = DerivedConflicts(g, ours, theirs, resolutions)
<1> DEFINE D == DOMAIN resolutions
           With(a) == WithApplied(g, ours, theirs, resolutions, a)
           WithM(a) == WithApplied(g, theirs, ours, Mirrored(resolutions), a)
           violated == [a \in SUBSET Constraints |-> Violated(With(a))]
           violatedM == [a \in SUBSET Constraints |-> Violated(WithM(a))]
           resolved == [a \in SUBSET Constraints |-> violated[a] \cap D]
           resolvedM == [a \in SUBSET Constraints |-> violatedM[a] \cap DOMAIN Mirrored(resolutions)]
           last == {a \in Rounds(resolved) : resolved[a] = {}}
           lastM == {a \in Rounds(resolvedM) : resolvedM[a] = {}}
           applied == CHOOSE a \in last : TRUE
           appliedM == CHOOSE a \in lastM : TRUE
<1>1. DOMAIN Mirrored(resolutions) = D
  BY DEF Mirrored
<1>2. ASSUME NEW a \in SUBSET Constraints, a \subseteq D PROVE With(a) = WithM(a)
  <2>1. \A s \in a : ResolveValue(Mirrored(resolutions), s, theirs[s], ours[s])
                      = ResolveValue(resolutions, s, ours[s], theirs[s])
    BY <1>2, ResolveMirrored
  <2> QED
    BY <2>1 DEF WithApplied
<1>3. \A a \in SUBSET Constraints : a \subseteq D => violated[a] = violatedM[a]
  BY <1>2
<1>4. \A a \in SUBSET Constraints : violated[a] \in SUBSET Constraints /\ violatedM[a] \in SUBSET Constraints
  BY DEF Violated
<1>5. /\ resolved \in [SUBSET Constraints -> SUBSET Constraints]
      /\ resolvedM \in [SUBSET Constraints -> SUBSET Constraints]
      /\ \A a \in SUBSET Constraints : resolved[a] \subseteq D /\ resolvedM[a] \subseteq D
      /\ \A a \in SUBSET Constraints : a \subseteq D => resolved[a] = resolvedM[a]
  <2> HIDE DEF violated, violatedM
  <2> QED
    BY <1>1, <1>3, <1>4
<1>6. DerivedConflicts(g, ours, theirs, resolutions) = IF last = {}
        THEN [candidate |-> g, conflicts |-> {}, unresolved |-> {}, accepted |-> FALSE]
        ELSE [candidate  |-> With(applied), conflicts  |-> applied \cup violated[applied],
              unresolved |-> violated[applied], accepted |-> TRUE]
  BY DEF DerivedConflicts
<1>7. DerivedConflicts(g, theirs, ours, Mirrored(resolutions)) = IF lastM = {}
        THEN [candidate |-> g, conflicts |-> {}, unresolved |-> {}, accepted |-> FALSE]
        ELSE [candidate  |-> WithM(appliedM), conflicts  |-> appliedM \cup violatedM[appliedM],
              unresolved |-> violatedM[appliedM], accepted |-> TRUE]
  BY DEF DerivedConflicts
<1> HIDE DEF resolved, resolvedM, violated, violatedM
<1>8. Rounds(resolved) = Rounds(resolvedM)
  <2>1. Rounds(resolved) \subseteq Rounds(resolvedM)
    BY <1>5, RoundsWithin
  <2>2. Rounds(resolvedM) \subseteq Rounds(resolved)
    <3>1. /\ \A a \in SUBSET Constraints : resolvedM[a] \subseteq D /\ resolved[a] \subseteq D
          /\ \A a \in SUBSET Constraints : a \subseteq D => resolvedM[a] = resolved[a]
      BY <1>5
    <3> QED
      BY <1>5, <3>1, RoundsWithin
  <2> QED
    BY <2>1, <2>2
<1>9. \A a \in Rounds(resolved) : a \in SUBSET Constraints /\ a \subseteq D
  BY <1>5, RoundsResolved
<1>10. last = lastM
  BY <1>5, <1>8, <1>9
<1>11. CASE last = {}
  <2> HIDE DEF last, lastM, applied, appliedM, With, WithM
  <2> QED
    BY <1>6, <1>7, <1>10, <1>11
<1>12. CASE last # {}
  <2>1. applied = appliedM
    <3> HIDE DEF last, lastM
    <3> QED
      BY <1>10
  <2>2. applied \in last
    BY <1>12
  <2>3. applied \in SUBSET Constraints /\ applied \subseteq D
    <3> HIDE DEF applied
    <3> QED
      BY <1>9, <2>2
  <2>4. With(applied) = WithM(applied) /\ violated[applied] = violatedM[applied]
    <3> HIDE DEF applied
    <3> QED
      BY <1>2, <1>3, <2>3
  <2> HIDE DEF last, lastM, applied, appliedM, With, WithM
  <2> QED
    BY <1>6, <1>7, <1>10, <1>12, <2>1, <2>4
<1> QED
  BY <1>11, <1>12

LEMMA ConflictMirrored ==
    ASSUME NEW base, NEW ours, NEW theirs, NEW s \in Slot
    PROVE  SlotConflict(base, theirs, ours, s) <=> SlotConflict(base, ours, theirs, s)
  BY DEF SlotConflict, DirectConflict, DeleteModifyConflict

LEMMA SelectMirrored ==
    ASSUME NEW base, NEW x, NEW y
    PROVE  ~ DirectConflict(base, x, y) => SelectValue(base, y, x) = SelectValue(base, x, y)
  BY DEF SelectValue, DirectConflict

(* The candidate does not depend on which side is called ours, once every  *)
(* conflict is resolved.                                                   *)
LEMMA SlotsMirrored ==
    ASSUME NEW base, NEW ours, NEW theirs, NEW resolutions,
           SlotMerge(base, ours, theirs, resolutions).conflicts \subseteq DOMAIN resolutions
    PROVE  SlotMerge(base, theirs, ours, Mirrored(resolutions)) = SlotMerge(base, ours, theirs, resolutions)
<1> DEFINE M == Mirrored(resolutions)
           conflicts == {s \in Slot : SlotConflict(base, ours, theirs, s)}
           conflictsM == {s \in Slot : SlotConflict(base, theirs, ours, s)}
           placed == Placed(Decided(base, ours, theirs, conflicts, resolutions))
           placedM == Placed(Decided(base, theirs, ours, conflictsM, M))
           dangling == DanglingRelationships(conflicts, placed)
           danglingM == DanglingRelationships(conflictsM, placedM)
<1>1. conflicts = conflictsM
  BY ConflictMirrored
<1>2. SlotMerge(base, ours, theirs, resolutions) =
        [candidate |-> [s \in Slot |-> IF s \in dangling THEN ResolveValue(resolutions, s, ours[s], theirs[s])
                                       ELSE placed[s]],
         conflicts |-> dangling \cup conflicts]
  BY DEF SlotMerge, Populated, Connected
<1>3. SlotMerge(base, theirs, ours, M) =
        [candidate |-> [s \in Slot |-> IF s \in danglingM THEN ResolveValue(M, s, theirs[s], ours[s])
                                       ELSE placedM[s]],
         conflicts |-> danglingM \cup conflictsM]
  BY DEF SlotMerge, Populated, Connected
<1>4. conflicts \subseteq DOMAIN resolutions /\ dangling \subseteq DOMAIN resolutions
  <2> HIDE DEF conflicts, placed, dangling
  <2> QED
    BY <1>2
<1>5. placedM = placed
  <2>1. Decided(base, theirs, ours, conflictsM, M) = Decided(base, ours, theirs, conflicts, resolutions)
    <3>1. ASSUME NEW s \in Slot
          PROVE  SlotDecision(conflictsM, M, s, base[s], EffectiveValue(base, theirs, s), EffectiveValue(base, ours, s))
                   = SlotDecision(conflicts, resolutions, s, base[s],
                                  EffectiveValue(base, ours, s), EffectiveValue(base, theirs, s))
      <4>1. CASE s \in conflicts
        <5>1. s \in DOMAIN resolutions /\ s \in conflictsM
          BY <1>1, <1>4, <4>1
        <5> HIDE DEF conflicts, conflictsM
        <5> QED
          BY <4>1, <5>1, ResolveMirrored DEF SlotDecision
      <4>2. CASE s \notin conflicts
        <5>1. ~ DirectConflict(base[s], EffectiveValue(base, ours, s), EffectiveValue(base, theirs, s))
          BY <4>2 DEF SlotConflict
        <5>2. s \notin conflictsM
          BY <1>1, <4>2
        <5> HIDE DEF conflicts, conflictsM
        <5> QED
          BY <4>2, <5>1, <5>2, SelectMirrored DEF SlotDecision
      <4> QED
        BY <4>1, <4>2
    <3> HIDE DEF conflicts, conflictsM, M
    <3> QED
      BY <3>1 DEF Decided
  <2> HIDE DEF conflicts, conflictsM, M
  <2> QED
    BY <2>1
<1>6. danglingM = dangling
  <2> HIDE DEF conflicts, conflictsM, placed, placedM
  <2> QED
    BY <1>1, <1>5
<1>7. \A s \in dangling : ResolveValue(M, s, theirs[s], ours[s]) = ResolveValue(resolutions, s, ours[s], theirs[s])
  <2> HIDE DEF dangling
  <2> QED
    BY <1>4, ResolveMirrored
<1> HIDE DEF conflicts, conflictsM, placed, placedM, dangling, danglingM, M
<1> QED
  BY <1>1, <1>2, <1>3, <1>5, <1>6, <1>7 DEF M

(* A merge does not favour a side: the same user who merges the other way  *)
(* round is ready with the same candidate.                                 *)
THEOREM MergeIsMirrored ==
    ASSUME Shaped, NEW base, NEW ours, NEW theirs, NEW resolutions,
           Ready(Merge(base, ours, theirs, resolutions))
    PROVE  LET swapped == Merge(base, theirs, ours, Mirrored(resolutions))
           IN  Ready(swapped) /\ swapped.candidate = Merge(base, ours, theirs, resolutions).candidate
<1> DEFINE M == Mirrored(resolutions)
<1>1. DOMAIN M = DOMAIN resolutions
  BY DEF Mirrored
<1>2. Touched(base, theirs, ours) = Touched(base, ours, theirs)
  BY DEF Touched
<1>3. SparseApplies(base, theirs, ours) <=> SparseApplies(base, ours, theirs)
  <2>1. ASSUME \A s \in Touched(base, ours, theirs) : IsProperty(s), NEW c \in Constraints
        PROVE  ours[c] = theirs[c]
    BY <2>1 DEF Touched, Constraints, IsProperty
  <2> QED
    BY <1>2, <2>1 DEF SparseApplies
<1>4. CASE SparseApplies(base, ours, theirs)
  <2> DEFINE touched == Touched(base, ours, theirs)
             sparse == SparseMerge(base, ours, theirs, resolutions)
             swapped == SparseMerge(base, theirs, ours, M)
             conflicts == {s \in touched : DirectConflict(base[s], ours[s], theirs[s])}
  <2>1. conflicts = {s \in touched : DirectConflict(base[s], theirs[s], ours[s])}
    BY DEF DirectConflict
  <2>2. /\ sparse.conflicts = conflicts /\ sparse.unresolved = conflicts \ DOMAIN resolutions
        /\ sparse.accepted = TRUE
        /\ sparse.candidate = [s \in Slot |->
             IF s \in conflicts THEN ResolveValue(resolutions, s, ours[s], theirs[s])
             ELSE IF s \in touched THEN SelectValue(base[s], ours[s], theirs[s])
             ELSE ours[s]]
    BY DEF SparseMerge
  <2>3. /\ swapped.unresolved = conflicts \ DOMAIN resolutions
        /\ swapped.accepted = TRUE
        /\ swapped.candidate = [s \in Slot |->
             IF s \in conflicts THEN ResolveValue(M, s, theirs[s], ours[s])
             ELSE IF s \in touched THEN SelectValue(base[s], theirs[s], ours[s])
             ELSE theirs[s]]
    BY <1>1, <1>2, <2>1 DEF SparseMerge
  <2>4. Merge(base, ours, theirs, resolutions) = sparse /\ Merge(base, theirs, ours, M) = swapped
    BY <1>3, <1>4 DEF Merge
  <2>5. \A s \in Slot : s \notin touched => ours[s] = theirs[s]
    BY DEF Touched
  <2>6. \A s \in touched : s \notin conflicts => ~ DirectConflict(base[s], ours[s], theirs[s])
    OBVIOUS
  <2> HIDE DEF sparse, swapped, conflicts, touched
  <2>7. sparse.unresolved = {}
    BY <2>4 DEF Ready
  <2>8. conflicts \subseteq DOMAIN resolutions
    BY <2>2, <2>7
  <2>9. \A s \in conflicts : ResolveValue(M, s, theirs[s], ours[s]) = ResolveValue(resolutions, s, ours[s], theirs[s])
    BY <2>8, ResolveMirrored
  <2>10. \A s \in touched : s \notin conflicts =>
             SelectValue(base[s], theirs[s], ours[s]) = SelectValue(base[s], ours[s], theirs[s])
    BY <2>6, SelectMirrored
  <2>11. swapped.candidate = sparse.candidate
    <3> HIDE DEF M
    <3> QED
      BY <2>2, <2>3, <2>5, <2>9, <2>10
  <2>12. swapped.unresolved = {} /\ swapped.accepted
    BY <2>3, <2>8
  <2> QED
    BY <2>4, <2>11, <2>12 DEF Ready
<1>5. CASE ~ SparseApplies(base, ours, theirs)
  <2>1. /\ Merge(base, ours, theirs, resolutions) = FullMerge(base, ours, theirs, resolutions)
        /\ Merge(base, theirs, ours, M) = FullMerge(base, theirs, ours, M)
    BY <1>3, <1>5 DEF Merge
  <2>2. Ready(FullMerge(base, ours, theirs, resolutions))
    BY <2>1
  <2>3. SlotMerge(base, ours, theirs, resolutions).conflicts \subseteq DOMAIN resolutions
    BY <2>2, FullReady
  <2>4. SlotMerge(base, theirs, ours, M) = SlotMerge(base, ours, theirs, resolutions)
    BY <2>3, SlotsMirrored
  <2> DEFINE merged == SlotMerge(base, ours, theirs, resolutions)
  <2>5. DerivedConflicts(merged.candidate, theirs, ours, M)
          = DerivedConflicts(merged.candidate, ours, theirs, resolutions)
    BY DerivedMirrored
  <2>6. FullMerge(base, theirs, ours, M) = FullMerge(base, ours, theirs, resolutions)
    <3> HIDE DEF M
    <3> QED
      BY <1>1, <2>4, <2>5 DEF FullMerge, Scan
  <2> QED
    BY <2>1, <2>2, <2>6
<1> QED
  BY <1>4, <1>5

(* Two sides that gave a slot different values, neither of them known from *)
(* the base, are asked about it.                                           *)
THEOREM DifferenceIsAsked ==
    ASSUME Shaped, NEW base, NEW ours, NEW theirs, NEW resolutions,
           Mergeable(base, ours, theirs, resolutions), NEW s \in Slot,
           ours[s] # theirs[s], base[s] # ours[s], base[s] # theirs[s]
    PROVE  Around(s) \cap Merge(base, ours, theirs, resolutions).conflicts # {}
<1> DEFINE conflicts == {t \in Slot : SlotConflict(base, ours, theirs, t)}
<1>1. DirectConflict(base[s], ours[s], theirs[s])
  BY DEF DirectConflict
<1>2. CASE SparseApplies(base, ours, theirs)
  <2>1. s \in Touched(base, ours, theirs)
    BY DEF Touched
  <2>2. s \in SparseMerge(base, ours, theirs, resolutions).conflicts
    BY <1>1, <2>1 DEF SparseMerge
  <2> QED
    BY <1>2, <2>2 DEF Merge, Around
<1>3. CASE ~ SparseApplies(base, ours, theirs)
  <2>1. conflicts \subseteq Merge(base, ours, theirs, resolutions).conflicts
    <3>1. conflicts \subseteq SlotMerge(base, ours, theirs, resolutions).conflicts
      BY DEF SlotMerge, Populated, Connected
    <3>2. SlotMerge(base, ours, theirs, resolutions).conflicts
            \subseteq FullMerge(base, ours, theirs, resolutions).conflicts
      <4> DEFINE merged == SlotMerge(base, ours, theirs, resolutions)
      <4>1. FullMerge(base, ours, theirs, resolutions) = Scan(merged, ours, theirs, resolutions)
        BY DEF FullMerge
      <4> HIDE DEF merged
      <4>2. merged.conflicts \subseteq Scan(merged, ours, theirs, resolutions).conflicts
        BY DEF Scan
      <4> QED
        BY <4>1, <4>2 DEF merged
    <3> QED
      BY <1>3, <3>1, <3>2 DEF Merge
  <2>2. CASE ~ IsNodeChild(s)
    <3>1. SlotConflict(base, ours, theirs, s)
      BY <1>1, <2>2 DEF SlotConflict, EffectiveValue
    <3> QED
      BY <2>1, <3>1 DEF Around
  <2>3. CASE IsNodeChild(s)
    <3> DEFINE n == NodeOf(s)
    <3>1. n \in Slot /\ Owners[s] = {n} /\ Kind[n] = "node"
      BY <2>3, NodeOfChild
    <3>2. /\ ours[n] = Absent => ours[s] = Absent
          /\ theirs[n] = Absent => theirs[s] = Absent
      BY <3>1 DEF Mergeable, Version, WellFormed
    <3>3. CASE base[n] \in Value /\ ours[n] = Absent
      <4>1. theirs[n] # Absent
        BY <3>2, <3>3
      <4>2. NodeDependentsChanged(base, theirs, n)
        BY <2>3, <3>1 DEF NodeDependentsChanged, SlotChanged
      <4>3. SlotConflict(base, ours, theirs, n)
        BY <3>1, <3>3, <4>1, <4>2 DEF SlotConflict, DeleteModifyConflict
      <4> QED
        BY <2>1, <3>1, <4>3 DEF Around
    <3>4. CASE base[n] \in Value /\ theirs[n] = Absent
      <4>1. ours[n] # Absent
        BY <3>2, <3>4
      <4>2. NodeDependentsChanged(base, ours, n)
        BY <2>3, <3>1 DEF NodeDependentsChanged, SlotChanged
      <4>3. SlotConflict(base, ours, theirs, n)
        BY <3>1, <3>4, <4>1, <4>2 DEF SlotConflict, DeleteModifyConflict
      <4> QED
        BY <2>1, <3>1, <4>3 DEF Around
    <3>5. CASE ~ (base[n] \in Value /\ (ours[n] = Absent \/ theirs[n] = Absent))
      <4>1. SlotConflict(base, ours, theirs, s)
        BY <1>1, <3>5 DEF SlotConflict, EffectiveValue
      <4> QED
        BY <2>1, <4>1 DEF Around
    <3> QED
      BY <3>3, <3>4, <3>5
  <2> QED
    BY <2>2, <2>3
<1> QED
  BY <1>2, <1>3

LEMMA EscapeTyped ==
    ASSUME Shaped, NEW base \in Version, NEW ours \in Version, NEW theirs \in Version
    PROVE  /\ Mergeable(base, ours, theirs, Escape) /\ DOMAIN Escape = Slot
           /\ \A s \in Slot : Kind[s] = "node" =>
                  \A x, y : ResolveValue(Escape, s, x, y) \in SlotValues[s]
           /\ \A s \in Slot : Kind[s] \in {"schema", "relationshipProperty"} =>
                  \A x, y : ResolveValue(Escape, s, x, y) = Absent
           /\ \A s \in Slot : Kind[s] = "relationship" =>
                  \A x, y : ResolveValue(Escape, s, x, y) = x
<1>1. DOMAIN Escape = Slot
  BY DEF Escape
<1>2. ASSUME NEW s \in Slot, Kind[s] = "node" PROVE Escape[s] \in SlotValues[s]
  BY <1>2 DEF Escape, Shaped
<1>3. ASSUME NEW s \in Slot, Kind[s] \in {"schema", "relationshipProperty"} PROVE Escape[s] = Absent
  BY <1>3 DEF Escape
<1>4. ASSUME NEW s \in Slot, Kind[s] \notin {"node", "schema", "relationshipProperty"} PROVE Escape[s] = "ours"
  BY <1>4 DEF Escape
<1>5. \A s \in Slot : SlotValues[s] \subseteq Value
  BY DEF Shaped
<1>6. \A v \in Value \cup {Absent} : v # "ours" /\ v # "theirs"
  BY DEF Shaped
<1>7. ASSUME NEW s \in Slot, NEW x, NEW y
      PROVE  ResolveValue(Escape, s, x, y) = IF Escape[s] = "ours" THEN x
                                             ELSE IF Escape[s] = "theirs" THEN y ELSE Escape[s]
  BY <1>1 DEF ResolveValue
<1>8. ASSUME NEW s \in Slot PROVE Escape[s] \in Choice(s)
  BY <1>2, <1>3, <1>4 DEF Choice
<1>9. Mergeable(base, ours, theirs, Escape)
  BY <1>1, <1>8 DEF Mergeable, Version, Graph
<1>10. ASSUME NEW s \in Slot, Kind[s] = "node", NEW x, NEW y PROVE ResolveValue(Escape, s, x, y) \in SlotValues[s]
  BY <1>2, <1>5, <1>6, <1>7, <1>10
<1>11. ASSUME NEW s \in Slot, Kind[s] \in {"schema", "relationshipProperty"}, NEW x, NEW y
       PROVE  ResolveValue(Escape, s, x, y) = Absent
  BY <1>3, <1>6, <1>7, <1>11
<1>12. ASSUME NEW s \in Slot, Kind[s] = "relationship", NEW x, NEW y PROVE ResolveValue(Escape, s, x, y) = x
  BY <1>4, <1>7, <1>12
<1> QED
  BY <1>1, <1>9, <1>10, <1>11, <1>12

(* With those choices every relationship, label and property that is left  *)
(* has its owners.                                                         *)
LEMMA EscapeWellFormed ==
    ASSUME Shaped, NEW base \in Version, NEW ours \in Version, NEW theirs \in Version,
           ~ AddedToDeletedRelationship(base, ours, theirs)
    PROVE  WellFormed(SlotMerge(base, ours, theirs, Escape).candidate)
<1> DEFINE conflicts == {s \in Slot : SlotConflict(base, ours, theirs, s)}
           decided == Decided(base, ours, theirs, conflicts, Escape)
           placed == Placed(decided)
           dangling == DanglingRelationships(conflicts, placed)
           candidate == SlotMerge(base, ours, theirs, Escape).candidate
<1>1. candidate = [s \in Slot |-> IF s \in dangling THEN ResolveValue(Escape, s, ours[s], theirs[s])
                                 ELSE placed[s]]
  BY DEF SlotMerge, Populated, Connected
<1>2. \A s \in dangling : s \in Slot /\ Kind[s] = "relationship" /\ placed[s] # Absent /\ s \notin conflicts
  BY DEF DanglingRelationships
<1>3. \A s \in Slot : base[s] \in Value \cup {Absent} /\ ours[s] \in Value \cup {Absent}
                      /\ theirs[s] \in Value \cup {Absent}
  BY DEF Version, Graph
<1>4. \A s \in Slot : placed[s] = IF IsNodeChild(s) /\ decided[NodeOf(s)] = Absent THEN Absent ELSE decided[s]
  BY DEF Placed
<1>5. ASSUME NEW n \in Slot, Kind[n] = "node"
      PROVE  /\ n \in conflicts => placed[n] # Absent
             /\ n \notin conflicts => /\ placed[n] = SelectValue(base[n], ours[n], theirs[n])
                                      /\ ~ DirectConflict(base[n], ours[n], theirs[n])
             /\ candidate[n] = placed[n]
  <2>1. ~ IsNodeChild(n) /\ placed[n] = decided[n]
    BY <1>4, <1>5 DEF IsNodeChild
  <2>2. candidate[n] = placed[n]
    <3>1. n \notin dangling
      BY <1>2, <1>5
    <3> HIDE DEF candidate, placed, dangling
    <3> QED
      BY <1>1, <3>1
  <2>3. n \in conflicts => decided[n] # Absent
    <3> SUFFICES ASSUME n \in conflicts PROVE decided[n] # Absent
      OBVIOUS
    <3>1. decided[n] = ResolveValue(Escape, n, EffectiveValue(base, ours, n), EffectiveValue(base, theirs, n))
      BY DEF Decided, SlotDecision
    <3>2. decided[n] \in SlotValues[n]
      BY <1>5, <3>1, EscapeTyped
    <3> QED
      BY <3>2, MarkersAssumption DEF Shaped
  <2>4. EffectiveValue(base, ours, n) = ours[n] /\ EffectiveValue(base, theirs, n) = theirs[n]
    BY <2>1 DEF EffectiveValue
  <2>5. n \notin conflicts => decided[n] = SelectValue(base[n], ours[n], theirs[n])
                              /\ ~ DirectConflict(base[n], ours[n], theirs[n])
    BY <2>4 DEF Decided, SlotDecision, SlotConflict
  <2> HIDE DEF candidate, placed, conflicts, decided
  <2> QED
    BY <2>1, <2>2, <2>3, <2>5
<1>6. ASSUME NEW n \in Slot, Kind[n] = "node", NEW d \in Slot, n \in Owners[d], Kind[d] = "relationship",
             NEW side \in {ours, theirs}, side[d] # Absent, side[d] # base[d]
      PROVE  placed[n] # Absent
  <2>1. side[n] # Absent
    BY <1>6 DEF Version, WellFormed
  <2>2. CASE n \in conflicts
    BY <1>5, <1>6, <2>2
  <2>3. CASE n \notin conflicts
    <3>1. NodeDependentsChanged(base, side, n)
      BY <1>6 DEF NodeDependentsChanged, SlotChanged
    <3>2. ~ DeleteModifyConflict(base, ours, theirs, n)
      BY <2>3 DEF SlotConflict
    <3>3. base[n] \in Value => ours[n] # Absent /\ theirs[n] # Absent
      BY <1>6, <2>1, <3>1, <3>2 DEF DeleteModifyConflict
    <3>4. placed[n] = SelectValue(base[n], ours[n], theirs[n]) /\ ~ DirectConflict(base[n], ours[n], theirs[n])
      BY <1>5, <1>6, <2>3
    <3> HIDE DEF placed
    <3> QED
      BY <1>3, <1>6, <2>1, <3>3, <3>4 DEF SelectValue, DirectConflict
  <2> QED
    BY <2>2, <2>3
<1>7. ASSUME NEW r \in Slot, Kind[r] = "relationship"
      PROVE  /\ r \in conflicts => /\ placed[r] = ours[r] /\ ours[r] # base[r] /\ theirs[r] # base[r]
                                   /\ ours[r] # theirs[r]
             /\ r \notin conflicts => /\ placed[r] = SelectValue(base[r], ours[r], theirs[r])
                                      /\ ~ DirectConflict(base[r], ours[r], theirs[r])
  <2>1. ~ IsNodeChild(r) /\ placed[r] = decided[r]
    BY <1>4, <1>7 DEF IsNodeChild
  <2>2. EffectiveValue(base, ours, r) = ours[r] /\ EffectiveValue(base, theirs, r) = theirs[r]
    BY <2>1 DEF EffectiveValue
  <2>3. ~ DeleteModifyConflict(base, ours, theirs, r)
    BY <1>7 DEF DeleteModifyConflict
  <2>4. r \in conflicts <=> DirectConflict(base[r], ours[r], theirs[r])
    BY <2>2, <2>3 DEF SlotConflict
  <2>5. decided[r] = SlotDecision(conflicts, Escape, r, base[r], ours[r], theirs[r])
    BY <2>2 DEF Decided
  <2>6. ResolveValue(Escape, r, ours[r], theirs[r]) = ours[r]
    BY <1>7, EscapeTyped
  <2> HIDE DEF conflicts, decided, placed
  <2> QED
    BY <2>1, <2>4, <2>5, <2>6 DEF SlotDecision, DirectConflict
<1>8. ASSUME NEW r \in Slot, Kind[r] = "relationship", placed[r] # Absent, NEW n \in Owners[r]
      PROVE  placed[n] # Absent
  <2>1. n \in Slot /\ Kind[n] = "node"
    BY <1>8, OwnersAssumption DEF Shaped
  <2>2. CASE \E side \in {ours, theirs} : side[r] # Absent /\ side[r] # base[r]
    BY <1>6, <1>8, <2>1, <2>2
  <2>3. CASE \A side \in {ours, theirs} : side[r] = Absent \/ side[r] = base[r]
    <3>1. r \notin conflicts
      BY <1>7, <1>8, <2>3
    <3>2. placed[r] = SelectValue(base[r], ours[r], theirs[r])
      BY <1>7, <1>8, <3>1
    <3>3. ours[r] # Absent /\ theirs[r] # Absent
      <4> HIDE DEF placed, conflicts
      <4> QED
        BY <1>8, <2>3, <3>2 DEF SelectValue
    <3>4. ours[n] # Absent /\ theirs[n] # Absent
      BY <3>3 DEF Version, WellFormed
    <3> HIDE DEF placed, conflicts
    <3>5. n \notin conflicts => placed[n] = SelectValue(base[n], ours[n], theirs[n])
                                /\ ~ DirectConflict(base[n], ours[n], theirs[n])
      BY <1>5, <2>1
    <3>6. n \in conflicts => placed[n] # Absent
      BY <1>5, <2>1
    <3> QED
      BY <3>4, <3>5, <3>6 DEF SelectValue, DirectConflict
  <2> QED
    BY <2>2, <2>3
<1>9. dangling = {}
  BY <1>8 DEF DanglingRelationships
<1>10. candidate = placed
  <2>1. placed = [s \in Slot |-> placed[s]]
    BY DEF Placed
  <2> HIDE DEF candidate, placed, dangling
  <2> QED
    BY <1>1, <1>9, <2>1
<1>11. ASSUME NEW s \in Slot, placed[s] # Absent, NEW o \in Owners[s] PROVE placed[o] # Absent
  <2>1. CASE Kind[s] \in {"node", "schema"}
    BY <2>1 DEF Shaped
  <2>2. CASE IsNodeChild(s)
    <3>1. o = NodeOf(s) /\ o \in Slot /\ Kind[o] = "node"
      BY <2>2, NodeOfChild
    <3>2. decided[o] # Absent
      BY <1>4, <1>11, <2>2, <3>1
    <3>3. placed[o] = decided[o]
      BY <1>4, <3>1 DEF IsNodeChild
    <3> QED
      BY <3>2, <3>3
  <2>3. CASE Kind[s] = "relationship"
    BY <1>8, <1>11, <2>3
  <2>4. CASE Kind[s] = "relationshipProperty"
    <3>1. o \in Slot /\ Kind[o] = "relationship"
      BY <2>4 DEF Shaped
    <3>2. ~ IsNodeChild(s) /\ placed[s] = decided[s]
      BY <1>4, <2>4 DEF IsNodeChild
    <3>3. EffectiveValue(base, ours, s) = ours[s] /\ EffectiveValue(base, theirs, s) = theirs[s]
      BY <3>2 DEF EffectiveValue
    <3>4. decided[s] = SlotDecision(conflicts, Escape, s, base[s], ours[s], theirs[s])
      BY <3>3 DEF Decided
    <3>5. ResolveValue(Escape, s, ours[s], theirs[s]) = Absent
      BY <2>4, EscapeTyped
    <3>6. s \notin conflicts
      <4> HIDE DEF conflicts, decided, placed
      <4> QED
        BY <1>11, <3>2, <3>4, <3>5 DEF SlotDecision
    <3>7. ~ DirectConflict(base[s], ours[s], theirs[s])
      BY <3>3, <3>6 DEF SlotConflict
    <3>8. placed[s] = SelectValue(base[s], ours[s], theirs[s])
      <4> HIDE DEF conflicts, decided, placed
      <4> QED
        BY <3>2, <3>4, <3>6 DEF SlotDecision
    <3>9. /\ ours[o] = Absent => ours[s] = Absent
          /\ theirs[o] = Absent => theirs[s] = Absent
          /\ base[o] = Absent => base[s] = Absent
      BY <3>1 DEF Version, WellFormed
    <3>10. /\ base[o] # Absent /\ ours[o] = Absent /\ base[s] = Absent => theirs[s] = Absent
           /\ base[o] # Absent /\ theirs[o] = Absent /\ base[s] = Absent => ours[s] = Absent
      BY <2>4 DEF AddedToDeletedRelationship
    <3>11. /\ o \in conflicts => placed[o] = ours[o] /\ ours[o] # base[o] /\ theirs[o] # base[o]
                                 /\ ours[o] # theirs[o]
           /\ o \notin conflicts => placed[o] = SelectValue(base[o], ours[o], theirs[o])
                                    /\ ~ DirectConflict(base[o], ours[o], theirs[o])
      BY <1>7, <3>1
    <3> HIDE DEF placed, conflicts, decided
    <3> QED
      BY <1>11, <3>7, <3>8, <3>9, <3>10, <3>11 DEF SelectValue, DirectConflict
  <2> QED
    BY <2>1, <2>2, <2>3, <2>4 DEF Shaped, IsNodeChild
<1> HIDE DEF candidate, placed
<1>12. WellFormed(candidate)
  BY <1>10, <1>11 DEF WellFormed
<1> QED
  BY <1>12 DEF candidate

(* Taking null for every violated constraint is accepted after one round.  *)
LEMMA EscapeDerived ==
    ASSUME Shaped, Local, NEW base \in Version, NEW ours \in Version, NEW theirs \in Version,
           NEW g \in Graph
    PROVE  LET derived == DerivedConflicts(g, ours, theirs, Escape)
           IN  derived.accepted /\ derived.unresolved = {}
<1> DEFINE With(a) == WithApplied(g, ours, theirs, Escape, a)
           violated == [a \in SUBSET Constraints |-> Violated(With(a))]
           resolved == [a \in SUBSET Constraints |-> violated[a] \cap DOMAIN Escape]
           last == {a \in Rounds(resolved) : resolved[a] = {}}
           applied == CHOOSE a \in last : TRUE
           first == Violated(g)
<1>1. DerivedConflicts(g, ours, theirs, Escape) = IF last = {}
        THEN [candidate |-> g, conflicts |-> {}, unresolved |-> {}, accepted |-> FALSE]
        ELSE [candidate  |-> With(applied), conflicts  |-> applied \cup violated[applied],
              unresolved |-> violated[applied], accepted |-> TRUE]
  BY DEF DerivedConflicts
<1>2. DOMAIN Escape = Slot /\ Constraints \subseteq Slot
  BY EscapeTyped DEF Constraints
<1>3. \A a \in SUBSET Constraints : violated[a] \in SUBSET Constraints
  BY DEF Violated
<1>4. \A a \in SUBSET Constraints : resolved[a] = violated[a]
  <2> HIDE DEF violated
  <2> QED
    BY <1>2, <1>3
<1>5. resolved \in [SUBSET Constraints -> SUBSET Constraints]
  <2> HIDE DEF violated
  <2> QED
    BY <1>3
<1>6. With({}) = g
  BY DEF WithApplied, Graph
<1>7. first \in SUBSET Constraints /\ violated[{}] = first
  BY <1>6 DEF Violated
<1>8. Violated(With(first)) = {}
  <2> SUFFICES ASSUME NEW c \in Constraints, With(first)[c] # Absent PROVE With(first) \in Conforms[c]
    BY DEF Violated
  <2>1. c \in Slot /\ Kind[c] = "schema"
    BY DEF Constraints
  <2>2. c \notin first
    <3> SUFFICES ASSUME c \in first PROVE FALSE
      OBVIOUS
    <3>1. With(first)[c] = ResolveValue(Escape, c, ours[c], theirs[c])
      BY <2>1 DEF WithApplied
    <3>2. ResolveValue(Escape, c, ours[c], theirs[c]) = Absent
      BY <2>1, EscapeTyped
    <3> QED
      BY <3>1, <3>2
  <2>3. With(first)[c] = g[c]
    BY <2>1, <2>2 DEF WithApplied
  <2>4. g \in Conforms[c]
    BY <2>2, <2>3 DEF Violated
  <2>5. With(first) \in Graph
    <3>1. \A s \in Slot : s \in first => With(first)[s] = Absent
      <4> SUFFICES ASSUME NEW s \in Slot, s \in first PROVE With(first)[s] = Absent
        OBVIOUS
      <4>1. Kind[s] = "schema"
        BY <1>7 DEF Constraints
      <4>2. ResolveValue(Escape, s, ours[s], theirs[s]) = Absent
        BY <4>1, EscapeTyped
      <4> QED
        BY <4>2 DEF WithApplied
    <3>2. \A s \in Slot : s \notin first => With(first)[s] = g[s]
      BY DEF WithApplied
    <3>3. With(first) = [s \in Slot |-> With(first)[s]]
      BY DEF WithApplied
    <3> HIDE DEF With, first
    <3> QED
      BY <3>1, <3>2, <3>3 DEF Graph
  <2>6. \A s \in Looked(c) : s \in Slot /\ s \notin Constraints
    BY DEF Looked, Shaped, IsProperty, Constraints
  <2>7. \A s \in Looked(c) : With(first)[s] = g[s]
    BY <1>7, <2>6 DEF WithApplied
  <2> HIDE DEF With, first
  <2> QED
    BY <2>4, <2>5, <2>7 DEF Local
<1>9. violated[first] = {}
  BY <1>7, <1>8
<1> HIDE DEF violated, first, With
<1>10. first \in Rounds(resolved)
  <2>1. resolved[{}] = first /\ {} \cup first = first /\ {} \in Rounds(resolved)
    BY <1>4, <1>5, <1>7, RoundsClosed
  <2> HIDE DEF resolved
  <2>2. {} \cup resolved[{}] \in Rounds(resolved)
    BY <1>5, <2>1, RoundsClosed
  <2> QED
    BY <2>1, <2>2
<1>11. last # {}
  BY <1>4, <1>7, <1>9, <1>10
<1>12. applied \in last
  BY <1>11
<1>13. violated[applied] = {}
  <2>1. applied \in SUBSET Constraints /\ resolved[applied] = {}
    <3> HIDE DEF applied, resolved
    <3> QED
      BY <1>12 DEF Rounds
  <2> HIDE DEF applied, resolved
  <2> QED
    BY <1>4, <2>1
<1> HIDE DEF applied, last
<1> QED
  BY <1>1, <1>11, <1>13

(* A session is never stuck: keeping nodes and taking null for             *)
(* relationship properties and violated constraints makes it ready, unless *)
(* one side added a property to a relationship the other deleted.          *)
THEOREM EscapeIsReady ==
    ASSUME Shaped, Local, NEW base \in Version, NEW ours \in Version, NEW theirs \in Version,
           ~ AddedToDeletedRelationship(base, ours, theirs)
    PROVE  Ready(Merge(base, ours, theirs, Escape))
<1> DEFINE merged == SlotMerge(base, ours, theirs, Escape)
           derived == DerivedConflicts(merged.candidate, ours, theirs, Escape)
<1>1. DOMAIN Escape = Slot /\ Mergeable(base, ours, theirs, Escape)
  BY EscapeTyped
<1>2. CASE SparseApplies(base, ours, theirs)
  <2>1. SparseMerge(base, ours, theirs, Escape).accepted
        /\ SparseMerge(base, ours, theirs, Escape).unresolved = {}
    BY <1>1 DEF SparseMerge, Touched
  <2> QED
    BY <1>2, <2>1 DEF Merge, Ready
<1>3. CASE ~ SparseApplies(base, ours, theirs)
  <2>1. merged.conflicts \subseteq DOMAIN Escape
    BY <1>1 DEF SlotMerge, Populated, Connected, DanglingRelationships
  <2>2. WellFormed(merged.candidate)
    BY EscapeWellFormed
  <2>3. merged.candidate \in Graph
    BY <1>1, MergedTyped
  <2>4. derived.accepted /\ derived.unresolved = {}
    <3> HIDE DEF merged
    <3> QED
      BY <2>3, EscapeDerived
  <2> HIDE DEF merged
  <2>5. Ready(Scan(merged, ours, theirs, Escape))
    BY <2>1, <2>2, <2>4 DEF Scan, Ready
  <2> QED
    BY <1>3, <2>5 DEF Merge, FullMerge, merged
<1> QED
  BY <1>2, <1>3

(* Conflicts are reported at slots.                                        *)
LEMMA DerivedAreSlots ==
    ASSUME NEW g, NEW ours, NEW theirs, NEW resolutions
    PROVE  /\ DerivedConflicts(g, ours, theirs, resolutions).conflicts \subseteq Slot
           /\ DerivedConflicts(g, ours, theirs, resolutions).unresolved \subseteq Slot
<1> DEFINE violated == [applied \in SUBSET Constraints |->
                           Violated(WithApplied(g, ours, theirs, resolutions, applied))]
           resolved == [applied \in SUBSET Constraints |-> violated[applied] \cap DOMAIN resolutions]
           last     == {applied \in Rounds(resolved) : resolved[applied] = {}}
           chosen   == CHOOSE a \in last : TRUE
<1>1. \A applied \in SUBSET Constraints : violated[applied] \subseteq Slot
  BY DEF Violated, Constraints
<1>2. last # {} => chosen \in SUBSET Constraints /\ chosen \subseteq Slot
  <2>1. last \subseteq SUBSET Constraints
    BY DEF Rounds
  <2>2. last # {} => chosen \in last
    OBVIOUS
  <2> QED
    BY <2>1, <2>2 DEF Constraints
<1>3. CASE last = {}
  BY <1>3 DEF DerivedConflicts
<1>4. CASE last # {}
  <2>1. /\ DerivedConflicts(g, ours, theirs, resolutions).conflicts = chosen \cup violated[chosen]
        /\ DerivedConflicts(g, ours, theirs, resolutions).unresolved = violated[chosen]
    BY <1>4 DEF DerivedConflicts
  <2> QED
    BY <1>1, <1>2, <1>4, <2>1
<1> QED
  BY <1>3, <1>4

LEMMA ConflictsAreSlots ==
    ASSUME NEW base, NEW ours, NEW theirs, NEW resolutions
    PROVE  /\ FullMerge(base, ours, theirs, resolutions).conflicts \subseteq Slot
           /\ Merge(base, ours, theirs, resolutions).conflicts \subseteq Slot
<1> DEFINE merged == SlotMerge(base, ours, theirs, resolutions)
<1>1. merged.conflicts \subseteq Slot
  BY DEF SlotMerge, Populated, Connected, DanglingRelationships
<1> HIDE DEF merged
<1>2. FullMerge(base, ours, theirs, resolutions).conflicts \subseteq Slot
  <2>1. Scan(merged, ours, theirs, resolutions).conflicts \subseteq Slot
    BY <1>1, DerivedAreSlots DEF Scan
  <2> QED
    BY <2>1 DEF FullMerge, merged
<1>3. SparseMerge(base, ours, theirs, resolutions).conflicts \subseteq Slot
  BY DEF SparseMerge, Touched
<1> QED
  BY <1>2, <1>3 DEF Merge

(* Further resolutions of slots leave a merge that can be computed.        *)
LEMMA ResolvedMergeable ==
    ASSUME NEW base, NEW ours, NEW theirs, NEW resolutions,
           Mergeable(base, ours, theirs, resolutions), NEW incoming, DOMAIN incoming \subseteq Slot,
           \A s \in DOMAIN incoming : incoming[s] \in Choice(s)
    PROVE  Mergeable(base, ours, theirs,
                     [s \in DOMAIN resolutions \cup DOMAIN incoming |->
                         IF s \in DOMAIN incoming THEN incoming[s] ELSE resolutions[s]])
  BY DEF Mergeable

(* What the virtual base of two best common ancestors knows, and of more.  *)
LEMMA VirtualMergeKnows ==
    ASSUME NEW root, NEW first, NEW second, NEW s \in Slot
    PROVE  /\ VirtualMerge(root, first, second)[s] \in {first[s], second[s], Unknown}
           /\ first[s] = second[s] => VirtualMerge(root, first, second)[s] = first[s]
  BY DEF VirtualMerge, SelectValue

LEMMA NarrowKnows ==
    ASSUME NEW virtual, NEW next, NEW s \in Slot
    PROVE  /\ Narrow(virtual, next)[s] \in {next[s], Unknown}
           /\ virtual[s] = next[s] => Narrow(virtual, next)[s] = next[s]
  BY DEF Narrow

(* Every conflict of a ready merge was resolved.                           *)
LEMMA ReadyIsResolved ==
    ASSUME NEW base, NEW ours, NEW theirs, NEW resolutions,
           Ready(FullMerge(base, ours, theirs, resolutions))
    PROVE  FullMerge(base, ours, theirs, resolutions).conflicts \subseteq DOMAIN resolutions
<1> DEFINE merged == SlotMerge(base, ours, theirs, resolutions)
           merge == FullMerge(base, ours, theirs, resolutions)
<1>1. /\ merged.conflicts \subseteq DOMAIN resolutions
      /\ \E applied \in SUBSET Constraints :
             applied \subseteq DOMAIN resolutions /\ merge.conflicts = applied \cup merged.conflicts
  BY FullReady
<1> HIDE DEF merged, merge
<1>2. merge.conflicts \subseteq DOMAIN resolutions
  BY <1>1
<1> QED
  BY <1>2 DEF merge

=============================================================================
