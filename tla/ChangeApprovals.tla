--------------------------- MODULE ChangeApprovals ---------------------------
(***************************************************************************)
(* One change package: technicians edit it, move it through its lifecycle  *)
(* and ask for sign-off; approvers answer by personal links, and the last  *)
(* answer of a batch moves the change.                                     *)
(*                                                                         *)
(* Requests read the change in one transaction and write the whole record  *)
(* back in another. Some of that happens under core.LOCK, which is a lock  *)
(* of one process: replicas do not share it. An action is one transaction. *)
(* A request that carries an outdated expectedRevision is refused without  *)
(* effect, so all of them carry that of the change they read.              *)
(***************************************************************************)
EXTENDS Naturals

CONSTANTS
    Approvers,     \* derive_change_approvers: whose sign-off the change needs
    Technicians,   \* technicians' requests, one at a time each
    Visitors,      \* requests of approvers: whoever opens a link
    Batches,       \* bound: identifiers of approval batches
    Targets,       \* bound: statuses technicians move the change to
    MaxPlan        \* bound: full edits of the change that are told apart

\* CHANGE_TRANSITIONS.
Transitions ==
    [draft |-> {"impact_review", "cancelled"},
     impact_review |-> {"draft", "awaiting_approval", "cancelled"},
     awaiting_approval |-> {"impact_review", "approved", "declined", "cancelled"},
     approved |-> {"impact_review", "scheduled", "cancelled"},
     declined |-> {"draft", "cancelled"},
     scheduled |-> {"approved", "implementing", "cancelled"},
     implementing |-> {"completed", "failed"},
     completed |-> {"post_implementation_review"},
     failed |-> {"backed_out", "post_implementation_review"},
     backed_out |-> {"post_implementation_review"},
     post_implementation_review |-> {"closed"},
     cancelled |-> {},
     closed |-> {}]

Statuses == DOMAIN Transitions

ASSUME ApprovalAssumption ==
    /\ Approvers # {} /\ Technicians \cap Visitors = {}
    /\ Targets \subseteq Statuses
    /\ MaxPlan \in Nat \ {0}

VARIABLES
    shared,      \* whether one process serves all requests, so that they share the lock
    change,      \* status, and plan: how often what is signed was edited
    request,     \* change_approval_requests of each batch
    batchPlan,   \* the plan the batch was sent out with, 0 before that
    newest,      \* the batch that was begun last
    expired,     \* batches whose links have expired
    links,       \* links that were sent to their approver
    proc         \* what each request to the server is doing

vars == <<shared, change, request, batchPlan, newest, expired, links, proc>>

----------------------------------------------------------------------------
(* Data *)

Processes == Technicians \cup Visitors
None == "none"

Change == [status : Statuses, plan : 1..MaxPlan]

Decisions == {"approved", "declined"}
RequestStatus == {None, "pending", "expired", "revoked"} \cup Decisions

\* copy: the change as it was read, and as it will be written. todo: approvers still
\* to create a request for or to write to. all: the batch was found complete.
ProcRow == [phase : {"off", "check", "write", "revoke", "replace", "create", "mail",
                     "opened", "decide", "list", "end", "apply"},
            copy : Change,
            revokes : BOOLEAN,
            batch : Batches \cup {None},
            approver : Approvers \cup {None},
            todo : SUBSET Approvers,
            verdict : Decisions \cup {None},
            all : BOOLEAN]

NewChange == [status |-> "draft", plan |-> 1]
Off == [phase |-> "off", copy |-> NewChange, revokes |-> FALSE, batch |-> None,
        approver |-> None, todo |-> {}, verdict |-> None, all |-> FALSE]

\* core.LOCK: held while a batch is created and while an answer is worked on.
Locked(p) == proc[p].phase \in {"create", "opened", "decide", "list", "end", "apply"}
LockFree(p) == shared => \A q \in Processes \ {p} : ~Locked(q)

Becomes(p, row) == proc' = [proc EXCEPT ![p] = row]
Stops(p) == Becomes(p, Off)

\* revoke_change_approval_requests: what is still pending.
Revoked(batches) ==
    [b \in Batches |-> [a \in Approvers |->
        IF b \in batches /\ request[b][a] = "pending" THEN "revoked" ELSE request[b][a]]]

----------------------------------------------------------------------------
(* Technicians *)

\* Beyond MaxPlan, edits are not told apart.
Edited(plan) == IF plan < MaxPlan THEN plan + 1 ELSE MaxPlan

\* Full edits recalculate the impact; from approval on, only the schedule is edited.
Edit(p) ==
    /\ p \in Technicians /\ proc[p].phase = "off"
    /\ \/ /\ change.status \in {"draft", "impact_review"}
          /\ Becomes(p, [Off EXCEPT !.phase = "write",
                                    !.copy = [change EXCEPT !.plan = Edited(@)]])
       \/ /\ change.status \in {"approved", "scheduled"}
          /\ Becomes(p, [Off EXCEPT !.phase = "write", !.copy = change])
    /\ UNCHANGED <<shared, change, request, batchPlan, newest, expired, links>>

Reassign(p) ==
    /\ p \in Technicians /\ proc[p].phase = "off"
    /\ change.status \notin {"cancelled", "closed"}
    /\ Becomes(p, [Off EXCEPT !.phase = "write", !.copy = change])
    /\ UNCHANGED <<shared, change, request, batchPlan, newest, expired, links>>

\* transition_change: leaving awaiting_approval revokes what is pending, afterwards.
Move(p, target) ==
    /\ p \in Technicians /\ proc[p].phase = "off"
    /\ target \in Transitions[change.status]
    /\ Becomes(p, [Off EXCEPT
         !.phase = "check",
         !.copy = [change EXCEPT !.status = target],
         !.revokes = /\ change.status = "awaiting_approval"
                     /\ target \in {"impact_review", "declined", "cancelled"}])
    /\ UNCHANGED <<shared, change, request, batchPlan, newest, expired, links>>

\* Nobody approves a change by hand that approvers were asked about.
CheckRequests(p) ==
    /\ proc[p].phase = "check"
    /\ IF /\ proc[p].copy.status = "approved"
          /\ \E b \in Batches, a \in Approvers : request[b][a] # None
       THEN Stops(p)
       ELSE Becomes(p, [proc[p] EXCEPT !.phase = "write"])
    /\ UNCHANGED <<shared, change, request, batchPlan, newest, expired, links>>

\* update_change writes the record as it was read and changed.
Write(p) ==
    /\ proc[p].phase = "write" /\ LockFree(p)
    /\ change' = proc[p].copy
    /\ IF proc[p].revokes THEN Becomes(p, [Off EXCEPT !.phase = "revoke"]) ELSE Stops(p)
    /\ UNCHANGED <<shared, request, batchPlan, newest, expired, links>>

Revoke(p) ==
    /\ proc[p].phase = "revoke"
    /\ request' = Revoked(Batches)
    /\ Stops(p)
    /\ UNCHANGED <<shared, change, batchPlan, newest, expired, links>>

----------------------------------------------------------------------------
(* A new batch of approval requests *)

\* create_change_approvals looks at the change first ...
RequestSignOff(p) ==
    /\ p \in Technicians /\ proc[p].phase = "off"
    /\ change.status = "awaiting_approval"
    /\ Becomes(p, [Off EXCEPT !.phase = "replace", !.copy = change])
    /\ UNCHANGED <<shared, change, request, batchPlan, newest, expired, links>>

\* ... then, under the lock, revokes what is pending ...
BeginBatch(p, b) ==
    /\ proc[p].phase = "replace" /\ LockFree(p)
    /\ batchPlan[b] = 0
    /\ batchPlan' = [batchPlan EXCEPT ![b] = proc[p].copy.plan]
    /\ newest' = b
    /\ request' = Revoked(Batches)
    /\ Becomes(p, [Off EXCEPT !.phase = "create", !.batch = b, !.todo = Approvers])
    /\ UNCHANGED <<shared, change, expired, links>>

\* Mutant: every request is written to its approver as soon as it exists.
CreateAndMail(p, a) ==
    LET left == proc[p].todo \ {a}
    IN  /\ proc[p].phase = "create" /\ a \in proc[p].todo
        /\ request' = [request EXCEPT ![proc[p].batch][a] = "pending"]
        /\ links' = links \cup {<<proc[p].batch, a>>}
        /\ Becomes(p, IF left = {} THEN Off ELSE [proc[p] EXCEPT !.todo = left])
        /\ UNCHANGED <<shared, change, batchPlan, newest, expired>>

\* ... and creates the requests one by one.
CreateRequest(p, a) ==
    LET left == proc[p].todo \ {a}
    IN  /\ proc[p].phase = "create" /\ a \in proc[p].todo
        /\ request' = [request EXCEPT ![proc[p].batch][a] = "pending"]
        /\ Becomes(p, IF left = {} THEN [proc[p] EXCEPT !.phase = "mail", !.todo = Approvers]
                                   ELSE [proc[p] EXCEPT !.todo = left])
        /\ UNCHANGED <<shared, change, batchPlan, newest, expired, links>>

\* A link that does not reach its approver is one that nobody opens.
MailLink(p, a) ==
    LET left == proc[p].todo \ {a}
    IN  /\ proc[p].phase = "mail" /\ a \in proc[p].todo
        /\ links' = links \cup {<<proc[p].batch, a>>}
        /\ Becomes(p, IF left = {} THEN Off ELSE [proc[p] EXCEPT !.todo = left])
        /\ UNCHANGED <<shared, change, request, batchPlan, newest, expired>>

----------------------------------------------------------------------------
(* Answers *)

Answerable(b, a) == request[b][a] = "pending" /\ b \notin expired

\* respond_to_change_approval takes the lock and looks at the request ...
OpenLink(p, b, a) ==
    /\ p \in Visitors /\ proc[p].phase = "off" /\ LockFree(p)
    /\ <<b, a>> \in links /\ Answerable(b, a)
    /\ Becomes(p, [Off EXCEPT !.phase = "opened", !.batch = b, !.approver = a])
    /\ UNCHANGED <<shared, change, request, batchPlan, newest, expired, links>>

\* ... and at the change.
ReadChange(p) ==
    /\ proc[p].phase = "opened"
    /\ IF change.status = "awaiting_approval"
       THEN Becomes(p, [proc[p] EXCEPT !.phase = "decide", !.copy = change])
       ELSE Stops(p)
    /\ UNCHANGED <<shared, change, request, batchPlan, newest, expired, links>>

\* The UPDATE of decide_change_approval_request looks again.
Accepts(b, a) == Answerable(b, a)

Decide(p, verdict) ==
    LET b == proc[p].batch
        a == proc[p].approver
    IN  /\ proc[p].phase = "decide"
        /\ IF Accepts(b, a)
           THEN /\ request' = [request EXCEPT ![b][a] = verdict]
                /\ Becomes(p, [proc[p] EXCEPT !.phase = "list", !.verdict = verdict])
           ELSE /\ request' = IF request[b][a] = "pending"
                              THEN [request EXCEPT ![b][a] = "expired"] ELSE request
                /\ Stops(p)
        /\ UNCHANGED <<shared, change, batchPlan, newest, expired, links>>

\* Mutant: nobody who was asked has declined.
NoneDeclined(b) == \A a \in Approvers : request[b][a] # "declined"

\* Every request that the batch has is approved.
Complete(b) == \A a \in Approvers : request[b][a] \in {None, "approved"}

ListBatch(p) ==
    /\ proc[p].phase = "list"
    /\ Becomes(p, [proc[p] EXCEPT
         !.phase = IF proc[p].verdict = "declined" THEN "end" ELSE "apply",
         !.all = Complete(proc[p].batch)])
    /\ UNCHANGED <<shared, change, request, batchPlan, newest, expired, links>>

\* A decline ends the batch.
EndBatch(p) ==
    /\ proc[p].phase = "end"
    /\ request' = Revoked({proc[p].batch})
    /\ Becomes(p, [proc[p] EXCEPT !.phase = "apply"])
    /\ UNCHANGED <<shared, change, batchPlan, newest, expired, links>>

\* record_external_approval on the change as it was read.
Outcome(p) ==
    IF proc[p].verdict = "declined" THEN "declined"
    ELSE IF proc[p].all THEN "approved" ELSE proc[p].copy.status

Apply(p) ==
    /\ proc[p].phase = "apply"
    /\ change' = [proc[p].copy EXCEPT !.status = Outcome(p)]
    /\ Stops(p)
    /\ UNCHANGED <<shared, request, batchPlan, newest, expired, links>>

----------------------------------------------------------------------------

\* A request dies between two transactions; what it has written stays.
Fail(p) ==
    /\ proc[p].phase # "off"
    /\ Stops(p)
    /\ UNCHANGED <<shared, change, request, batchPlan, newest, expired, links>>

\* The expiry hour of a batch passes, which matters to what is pending.
Expire(b) ==
    /\ \E a \in Approvers : request[b][a] = "pending"
    /\ expired' = expired \cup {b}
    /\ UNCHANGED <<shared, change, request, batchPlan, newest, links, proc>>

Init ==
    /\ shared \in BOOLEAN
    /\ change = NewChange
    /\ request = [b \in Batches |-> [a \in Approvers |-> None]]
    /\ batchPlan = [b \in Batches |-> 0]
    /\ newest = None
    /\ expired = {}
    /\ links = {}
    /\ proc = [p \in Processes |-> Off]

TechnicianNext(p) ==
    \/ Edit(p) \/ Reassign(p) \/ \E target \in Targets : Move(p, target)
    \/ CheckRequests(p) \/ Write(p) \/ Revoke(p)
    \/ RequestSignOff(p) \/ \E b \in Batches : BeginBatch(p, b)
    \/ \E a \in Approvers : CreateRequest(p, a) \/ MailLink(p, a)

AnswerNext(p) ==
    \/ \E b \in Batches, a \in Approvers : OpenLink(p, b, a)
    \/ ReadChange(p) \/ \E verdict \in Decisions : Decide(p, verdict)
    \/ ListBatch(p) \/ EndBatch(p) \/ Apply(p)

Next ==
    \/ \E p \in Processes : TechnicianNext(p) \/ AnswerNext(p) \/ Fail(p)
    \/ \E b \in Batches : Expire(b)

Spec == Init /\ [][Next]_vars

----------------------------------------------------------------------------
(* Properties *)

Asked(b) == \A a \in Approvers : request[b][a] # None
Approved(b) == \A a \in Approvers : request[b][a] = "approved"

\* Every variable has its type.
TypeOK ==
    /\ shared \in BOOLEAN
    /\ change \in Change
    /\ request \in [Batches -> [Approvers -> RequestStatus]]
    /\ batchPlan \in [Batches -> 0..MaxPlan]
    /\ newest \in Batches \cup {None}
    /\ expired \in SUBSET Batches
    /\ links \in SUBSET (Batches \X Approvers)
    /\ proc \in [Processes -> ProcRow]

\* Every batch has one creator, who has yet to ask exactly those whose request does
\* not exist.
BatchesHaveOneCreator ==
    /\ \A b \in Batches : batchPlan[b] = 0 => \A a \in Approvers : request[b][a] = None
    /\ \A p \in Processes : proc[p].phase = "create" =>
          LET b == proc[p].batch
          IN  /\ b \in Batches /\ batchPlan[b] # 0
              /\ \A a \in Approvers : a \in proc[p].todo <=> request[b][a] = None
              /\ \A q \in Processes \ {p} : proc[q].phase = "create" => proc[q].batch # b

\* Links exist, and are answered, only when the whole batch was asked.
LinksAreOfWholeBatches ==
    /\ \A b \in Batches, a \in Approvers : <<b, a>> \in links => Asked(b)
    /\ \A p \in Processes :
          /\ proc[p].phase \in {"mail", "opened", "decide", "list", "end", "apply"} =>
                proc[p].batch \in Batches /\ Asked(proc[p].batch)
          /\ proc[p].phase \in {"opened", "decide", "list", "end", "apply"} =>
                proc[p].approver \in Approvers

\* What an answer found out about its batch and its change is still so when it is
\* applied.
CompleteIsApproved ==
    \A p \in Processes :
        /\ proc[p].phase \in {"decide", "list", "end", "apply"} =>
              proc[p].copy.status = "awaiting_approval"
        /\ proc[p].phase \in {"end", "apply"} /\ proc[p].all => Approved(proc[p].batch)

\* "The change becomes **Approved** only when every request in the current batch is
\* approved" (docs/CHANGE_APPROVALS.md:10): whatever replicas, failures and second
\* clicks do, an answer that approves the change is the last of a batch in which
\* every approver was asked and every one approved.
ApprovalIsUnanimous ==
    [][\A p \in Visitors :
          Apply(p) /\ change'.status = "approved" =>
              Approved(proc[p].batch)]_vars

\* Links are single-use: an answer, a revocation or an expiry is final, though
\* visitors and technicians look before they write.
AnswersAreFinal ==
    [][\A b \in Batches, a \in Approvers :
          request[b][a] \notin {None, "pending"} => request'[b][a] = request[b][a]]_vars

\* The answers as approvers know them: a request that was revoked or has expired is void.
Answers ==
    [b \in Batches |-> [a \in Approvers |->
        IF request[b][a] \in {"expired", "revoked"} THEN "void" ELSE request[b][a]]]

Ballot == INSTANCE Ballots WITH answer <- Answers, exclusive <- shared

\* The answers are those of one ballot after the other: transactions of several requests
\* come to one step of an ideal ballot each, or to none.
BallotsAreKept == Ballot!BallotSpec

\* What approvers have signed stands: a change is approved by all of them, none of
\* their answers is changed, and each was given to a batch that was asked as a whole.
SignOffStands == ApprovalIsUnanimous /\ AnswersAreFinal /\ BallotsAreKept

\* "Selecting **Replace approval batch** revokes every outstanding link before new
\* links are generated" (docs/CHANGE_APPROVALS.md:13): where requests share the lock,
\* nothing is outstanding but what the newest batch asks for.
OutstandingIsNewest ==
    shared => \A b \in Batches, a \in Approvers : request[b][a] = "pending" => b = newest

\* A batch is created under the lock that all batches are begun under.
CreatedIsNewest ==
    shared => \A p \in Processes : proc[p].phase = "create" => proc[p].batch = newest

\* The inductive invariant.
IInv ==
    /\ TypeOK
    /\ BatchesHaveOneCreator
    /\ LinksAreOfWholeBatches
    /\ CompleteIsApproved
    /\ CreatedIsNewest
    /\ OutstandingIsNewest

\* "A lifecycle change or replacement batch invalidates pending links."
\* (docs/CHANGE_APPROVALS.md:31) What is approved is what was sent out. Not so: a
\* technician's move that read the change before an edit puts the old plan back while
\* links for the edited one are out.
SignedPlanIsCurrent ==
    [][\A p \in Visitors :
          Apply(p) /\ change'.status = "approved" =>
              change'.plan = batchPlan[proc[p].batch]]_vars
============================================================================
