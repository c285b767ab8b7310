------------------------ MODULE MCReconcileTriggerer ------------------------
(* Instances of ReconcileTriggerer for TLC: two VarnishClusters, and a timer *)
(* that may outlive the one that replaces it.                                *)
EXTENDS ReconcileTriggerer
=============================================================================
