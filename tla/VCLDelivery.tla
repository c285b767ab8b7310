---------------------------- MODULE VCLDelivery ----------------------------
(***************************************************************************)
(* What a Varnish pod promises about the versions of its VCL ConfigMap,    *)
(* whatever fails inside the pod.  Versions are numbered in the order they *)
(* are published; 0 stands for "none": no VCL of the user is in use, no    *)
(* version has been reported.                                              *)
(*                                                                         *)
(* The promise is one of order.  A pod may be late, may skip versions and  *)
(* may lose the VCL it serves when varnishd restarts, but it never starts  *)
(* serving a version older than the one it serves or the one it reported,  *)
(* and what it reports never goes back.                                    *)
(***************************************************************************)
EXTENDS Naturals

VARIABLES
    published,    \* the newest version of the ConfigMap
    served,       \* the version the active VCL was loaded for
    reported      \* the version the pod's annotation names

dvars == <<published, served, reported>>

Init ==
    /\ published = 0
    /\ served = 0
    /\ reported = 0

\* The user (or the operator, for the first version) writes the ConfigMap.
Publish ==
    /\ published' = published + 1
    /\ UNCHANGED <<served, reported>>

\* A VCL loaded for version v becomes the active one.
Serve(v) ==
    /\ v \in 1 .. published
    /\ served <= v
    /\ reported <= v
    /\ served' = v
    /\ UNCHANGED <<published, reported>>

\* varnishd went away with everything it had loaded.
Forget ==
    /\ served' = 0
    /\ UNCHANGED <<published, reported>>

\* The pod's annotation names version v.
Report(v) ==
    /\ v \in 1 .. published
    /\ reported <= v
    /\ reported' = v
    /\ UNCHANGED <<published, served>>

Next ==
    \/ Publish
    \/ \E v \in 1 .. published : Serve(v) \/ Report(v)
    \/ Forget

Spec == Init /\ [][Next]_dvars
============================================================================
