----------------------------- MODULE MCVCLStatus -----------------------------
(* Instances of VCLStatus for TLC. *)
EXTENDS VCLStatus

CONSTANTS p1, p2
=============================================================================
