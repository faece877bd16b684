-------------------------- MODULE MCReviewQueue --------------------------
(* Instances of ReviewQueue for TLC. *)
EXTENDS ReviewQueue, TLC

\* Administrators are interchangeable; used by runs without liveness.
Symmetry == Permutations(Admins)
==========================================================================
