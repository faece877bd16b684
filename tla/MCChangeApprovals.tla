-------------------------- MODULE MCChangeApprovals --------------------------
(* ChangeApprovals for TLC: approvers, visitors and batches are alike. *)
EXTENDS ChangeApprovals, TLC

Symmetry == Permutations(Approvers) \cup Permutations(Visitors) \cup Permutations(Batches)
============================================================================
