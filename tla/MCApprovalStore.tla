--------------------------- MODULE MCApprovalStore ---------------------------
(* Instances of ApprovalStore for TLC. *)
EXTENDS ApprovalStore, TLC

Symmetry == Permutations(Requests)
=============================================================================
