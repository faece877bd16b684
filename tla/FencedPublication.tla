------------------------ MODULE FencedPublication ------------------------
(***************************************************************************)
(* What the preview subsystem promises about the evidence of one saved     *)
(* policy, whatever happens to workers, leases and operators: claims on a  *)
(* policy are granted in an order, only the latest claim may replace the   *)
(* policy's evidence, and it does so at most once.                         *)
(*                                                                         *)
(* The module knows nothing of runs, leases, clocks or processes.          *)
(* PreviewRuns, the detailed model, implements it.                         *)
(***************************************************************************)

CONSTANT Policies   \* the saved CI sync policies

VARIABLES
    open,       \* open[p]: the latest claim on p may still publish
    published   \* published[p]: what was published since the latest claim

fencedVars == <<open, published>>

FencedInit ==
    /\ open = [p \in Policies |-> FALSE]
    /\ published = [p \in Policies |-> "nothing"]

\* A claimant is granted the policy. An earlier claim that is still open has
\* lapsed and is shut out from this step on.
Grant(p) ==
    /\ open' = [open EXCEPT ![p] = TRUE]
    /\ published' = [published EXCEPT ![p] = "nothing"]

\* The latest claim replaces the evidence, once.
Publish(p) ==
    /\ open[p]
    /\ open' = [open EXCEPT ![p] = FALSE]
    /\ published' = [published EXCEPT ![p] = "latest"]

\* The latest claim ends without evidence: failure, cancellation, crash, or a
\* lease that was lost.
Close(p) ==
    /\ open[p]
    /\ open' = [open EXCEPT ![p] = FALSE]
    /\ UNCHANGED published

FencedNext == \E p \in Policies : Grant(p) \/ Publish(p) \/ Close(p)

FencedSpec == FencedInit /\ [][FencedNext]_fencedVars
==========================================================================
