---------------------------- MODULE MCExplicitTx ----------------------------
(***************************************************************************)
(* ExplicitTx on a graph of one node with a clock of a few ticks.          *)
(***************************************************************************)
EXTENDS ExplicitTx, TLC

CONSTANTS node, some, none, keep

OneNode == node :> {}
NoConstraint == [o \in {} |-> {}]
AnyGraph == [o \in SchemaObject |-> [{node} -> {some, none}]]

=============================================================================
