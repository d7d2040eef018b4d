--------------------------- MODULE MCVersionStore ---------------------------
(***************************************************************************)
(* VersionStore on one node, alone or with one property it owns and one    *)
(* constraint: the node, when present, has the property.                   *)
(***************************************************************************)
EXTENDS VersionStore, TLC

CONSTANTS node, property, some, none, keep, exists

OneNode == node :> {}
NodeWithProperty == (node :> {}) @@ (property :> {node})

NoConstraint == [o \in {} |-> {}]
PropertyExists == exists :> {g \in [{node, property} -> {some, none}] :
                                g[node] # none => g[property] # none}

(* A rebase may leave more than MaxCommits commits; its step is checked,   *)
(* and no further step is taken from there.                                *)
WithinBounds == Cardinality(db.commits) <= MaxCommits

=============================================================================
