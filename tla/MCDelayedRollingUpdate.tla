----------------------- MODULE MCDelayedRollingUpdate -----------------------
(* Instances of DelayedRollingUpdate for TLC. *)
EXTENDS DelayedRollingUpdate, TLC

\* Pods are not told apart (safety runs only).
Symmetry == Permutations(Pods)
=============================================================================
