-------------------------- MODULE MCOwnedResources --------------------------
(* Instances of OwnedResources for TLC. *)
EXTENDS OwnedResources

CONSTANTS l1, l2, s1, s2, b1, b2, d1, d2

Cluster(budget) == [labels |-> l1, spec |-> s1, budget |-> budget, storage |-> d1]
WithBudget == {Cluster(b1)}
=============================================================================
