--------------------------- MODULE MCPreviewRuns ---------------------------
(* Small instances of PreviewRuns for TLC. *)
EXTENDS PreviewRuns, TLC

\* Lease owners are opaque fresh strings, policies differ in nothing but name.
OwnerSymmetry == Permutations(Owners)
PreviewSymmetry == Permutations(Owners) \cup Permutations(Policies)
============================================================================
