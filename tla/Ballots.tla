------------------------------ MODULE Ballots ------------------------------
(***************************************************************************)
(* What the program promises about the answers to approval requests,       *)
(* whatever requests to the server meet, die or come twice: an approver is *)
(* asked once per batch, answers are given to whole batches and once each, *)
(* and where one process serves all requests, no batch is asked for while  *)
(* another is outstanding.                                                 *)
(*                                                                         *)
(* The module knows nothing of changes, links, locks or processes.         *)
(* ChangeApprovals, the detailed model, implements it.                     *)
(***************************************************************************)

CONSTANTS Approvers, Batches

VARIABLES
    answer,     \* answer[b][a]: what a has said to b
    exclusive   \* whether one batch is outstanding at a time

ballotVars == <<answer, exclusive>>

BallotInit ==
    /\ answer = [b \in Batches |-> [a \in Approvers |-> "none"]]
    /\ exclusive \in BOOLEAN

Outstanding(b) == \E a \in Approvers : answer[b][a] = "pending"

Ask(b, a) ==
    /\ answer[b][a] = "none"
    /\ exclusive => \A c \in Batches \ {b} : ~Outstanding(c)
    /\ answer' = [answer EXCEPT ![b][a] = "pending"]
    /\ UNCHANGED exclusive

\* Nobody answers before everybody is asked.
Answer(b, a, verdict) ==
    /\ answer[b][a] = "pending"
    /\ \A other \in Approvers : answer[b][other] # "none"
    /\ answer' = [answer EXCEPT ![b][a] = verdict]
    /\ UNCHANGED exclusive

\* One request runs out of time.
Lapse(b, a) ==
    /\ answer[b][a] = "pending"
    /\ answer' = [answer EXCEPT ![b][a] = "void"]
    /\ UNCHANGED exclusive

\* What is still pending in some batches is withdrawn.
Withdraw(batches) ==
    /\ answer' = [b \in Batches |-> [a \in Approvers |->
                    IF b \in batches /\ answer[b][a] = "pending" THEN "void"
                    ELSE answer[b][a]]]
    /\ UNCHANGED exclusive

BallotNext ==
    \/ \E b \in Batches, a \in Approvers :
          \/ Ask(b, a) \/ Lapse(b, a)
          \/ \E verdict \in {"approved", "declined"} : Answer(b, a, verdict)
    \/ \E b \in Batches : Withdraw({b})
    \/ Withdraw(Batches)

BallotSpec == BallotInit /\ [][BallotNext]_ballotVars
=============================================================================
