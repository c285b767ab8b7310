---------------------------- MODULE MCFinalizers ----------------------------
(* An instance of Finalizers for TLC: the namespace of the VarnishCluster, another *)
(* one, and one that does not exist.                                               *)
EXTENDS Finalizers

CONSTANTS Other, Ghost

\* Without the own namespace, which ends as another one does: an object without owner.
SomePlacements == {Off, Default, Other, Ghost}

\* What the user asks for at first; the changes of the spec lead to other pairs.
SomePairs == {<<Off, Default>>, <<Default, Other>>, <<Other, Off>>}

SomeInit == Init /\ <<vc.monitor, vc.dashboard>> \in SomePairs
SomeSpec == SomeInit /\ [][Next]_vars /\ Fairness
=============================================================================
