---------------------------- MODULE GraphLayers ----------------------------
(***************************************************************************)
(* The data of a Lithograph graph: a Snapshot maps logical slots to values *)
(* and a Layer maps the slots it touches to their new values.              *)
(*                                                                         *)
(* A slot is a Node, a (Node, Label) membership, a Relationship or an      *)
(* (owner, Property key) cell.  The code keeps the four kinds in four maps *)
(* of storage/layer.rs; they differ only in the slots they depend on,      *)
(* which Owners gives: a label and a property need their owner, a          *)
(* relationship needs its two end nodes.  Owners is a constant because     *)
(* the endpoints of a RelationshipId never change                          *)
(* (require_relationship_tuple_stable).                                    *)
(***************************************************************************)

CONSTANTS
    Slot,       \* the logical slots of the graph
    Value,      \* what a visible slot may hold
    Owners,     \* Owners[s]: the slots that must be visible while s is
    Absent,     \* a slot that is not visible; in a Layer, DeltaOp::Remove
    Keep        \* in a Layer, a slot the Layer has no row for

ASSUME OwnersAssumption == Owners \in [Slot -> SUBSET Slot]
ASSUME MarkersAssumption == Absent \notin Value /\ Keep \notin Value /\ Keep # Absent

Graph == [Slot -> Value \cup {Absent}]
Layer == [Slot -> Value \cup {Absent, Keep}]

EmptyGraph == [s \in Slot |-> Absent]
EmptyLayer == [s \in Slot |-> Keep]

-----------------------------------------------------------------------------

(* Overlay::apply and checkpoint apply_layer: the rows of the Layer win.   *)
Apply(g, l) == [s \in Slot |-> IF l[s] = Keep THEN g[s] ELSE l[s]]

(* validate_layer_labels/_relationships/_properties: what the Layer adds   *)
(* finds its owners after the Layer.                                       *)
AddsHaveOwners(g, l) ==
    \A s \in Slot : l[s] \in Value => \A o \in Owners[s] : Apply(g, l)[o] # Absent

(* owner_has_visible_property_after and node_has_*_dependents_after: a     *)
(* dependent survives when it was visible and the Layer does not remove    *)
(* it, or when the Layer adds it.                                          *)
SurvivesLayer(g, l, d) == (g[d] # Absent /\ l[d] # Absent) \/ l[d] \in Value

RemovesHaveNoDependents(g, l) ==
    \A s \in Slot : l[s] = Absent => \A d \in Slot : s \in Owners[d] => ~ SurvivesLayer(g, l, d)

(* Snapshot::validate_layer_invariants_checked: looks only at the slots    *)
(* the candidate Layer touches, never at the whole graph.                  *)
ValidLayer(g, l) == AddsHaveOwners(g, l) /\ RemovesHaveNoDependents(g, l)

(* What a Snapshot must satisfy: validate_visible_relationships, _labels   *)
(* and _properties over everything visible.                                *)
WellFormed(g) == \A s \in Slot : g[s] # Absent => \A o \in Owners[s] : g[o] # Absent

-----------------------------------------------------------------------------

(* Mutant: a later row does not replace an earlier one.                    *)
OldestWins(newer, older) == [s \in Slot |-> IF older[s] # Keep THEN older[s] ELSE newer[s]]

(* touched_layer_between_commits: walking from the newest Layer to the     *)
(* oldest, entry().or_insert() keeps the newest row of each slot.          *)
OrInsert(newer, older) == [s \in Slot |-> IF newer[s] # Keep THEN newer[s] ELSE older[s]]

(* normalize_touched_layer: drop the rows that leave the base unchanged.   *)
Normalize(base, l) == [s \in Slot |-> IF l[s] = base[s] THEN Keep ELSE l[s]]

(* layer_between: the difference of two materialised Snapshots.            *)
LayerBetween(before, after) ==
    [s \in Slot |-> IF after[s] = before[s] THEN Keep ELSE after[s]]

=============================================================================
