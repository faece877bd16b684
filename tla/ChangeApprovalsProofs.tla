------------------------ MODULE ChangeApprovalsProofs ------------------------
(***************************************************************************)
(* Theorems about ChangeApprovals, for every set of approvers, technicians,*)
(* visitors and batches, with and without a shared lock. The invariant is  *)
(* IInv: a batch is complete before its first link exists, and what an     *)
(* answer found out about its batch stays so.                              *)
(***************************************************************************)
EXTENDS ChangeApprovals, TLAPS

----------------------------------------------------------------------------
(* Rows *)

Phases == {"off", "check", "write", "revoke", "replace", "create", "mail", "opened",
           "decide", "list", "end", "apply"}

\* Phases in which a process knows of no batch.
Batchless == {"off", "check", "write", "revoke", "replace"}

LEMMA OffIsRow ==
    Off \in ProcRow /\ Off.phase = "off" /\ Off.batch = None /\ Off.approver = None
  <1>1. NewChange \in Change
    BY ApprovalAssumption DEF NewChange, Change, Statuses, Transitions
  <1> QED
    BY <1>1 DEF Off, ProcRow

\* Setting the phase of a row leaves everything else alone.
LEMMA PhaseOf ==
    ASSUME NEW row \in ProcRow, NEW ph \in Phases
    PROVE  LET new == [row EXCEPT !.phase = ph]
           IN  /\ new \in ProcRow /\ new.phase = ph
               /\ new.copy = row.copy /\ new.revokes = row.revokes
               /\ new.batch = row.batch /\ new.approver = row.approver
               /\ new.todo = row.todo /\ new.verdict = row.verdict /\ new.all = row.all
  BY DEF ProcRow, Phases

\* What a process becomes is its row; the other processes stay as they are.
LEMMA RowOf ==
    ASSUME TypeOK, NEW p \in Processes, NEW row \in ProcRow, Becomes(p, row)
    PROVE  /\ proc' \in [Processes -> ProcRow]
           /\ proc'[p] = row
           /\ \A q \in Processes \ {p} : proc'[q] = proc[q]
  BY DEF TypeOK, Becomes

LEMMA ProcessRow ==
    ASSUME TypeOK, NEW p \in Processes
    PROVE  proc[p] \in ProcRow
  BY DEF TypeOK

LEMMA RowFields ==
    ASSUME NEW row \in ProcRow
    PROVE  /\ row.phase \in Phases /\ row.copy \in Change /\ row.revokes \in BOOLEAN
           /\ row.batch \in Batches \cup {None} /\ row.approver \in Approvers \cup {None}
           /\ row.todo \subseteq Approvers /\ row.verdict \in Decisions \cup {None}
           /\ row.all \in BOOLEAN
  BY DEF ProcRow, Phases

\* A request gets a new status, the others keep theirs.
LEMMA RequestOf ==
    ASSUME TypeOK, NEW b \in Batches, NEW a \in Approvers, NEW v \in RequestStatus,
           request' = [request EXCEPT ![b][a] = v]
    PROVE  /\ request' \in [Batches -> [Approvers -> RequestStatus]]
           /\ request'[b][a] = v
           /\ \A c \in Batches, d \in Approvers :
                 c # b \/ d # a => request'[c][d] = request[c][d]
  BY DEF TypeOK

LEMMA RevokedStatus ==
    ASSUME TypeOK, NEW B \in SUBSET Batches, request' = Revoked(B)
    PROVE  /\ request' \in [Batches -> [Approvers -> RequestStatus]]
           /\ \A b \in Batches, a \in Approvers :
                 request'[b][a] = IF b \in B /\ request[b][a] = "pending"
                                  THEN "revoked" ELSE request[b][a]
  BY DEF TypeOK, Revoked, RequestStatus

----------------------------------------------------------------------------
(* Steps and the invariant *)

\* A step that creates no request and no link, revokes nothing that was answered, and
\* after which its process has nothing to do with a batch, keeps the invariant.
LEMMA QuietStep ==
    ASSUME IInv, TypeOK', NEW p \in Processes, NEW row \in ProcRow, Becomes(p, row),
           row.phase \in Batchless,
           UNCHANGED <<shared, batchPlan, newest, links>>,
           \A b \in Batches, a \in Approvers :
              /\ request'[b][a] = None <=> request[b][a] = None
              /\ request'[b][a] = "pending" => request[b][a] = "pending"
              /\ request[b][a] = "approved" => request'[b][a] = "approved"
    PROVE  IInv'
  <1>1. /\ proc'[p] = row
        /\ \A q \in Processes \ {p} : proc'[q] = proc[q]
    BY RowOf DEF IInv
  <1>2. /\ row.phase # "create" /\ row.phase # "mail" /\ row.phase # "opened"
        /\ row.phase # "decide" /\ row.phase # "list" /\ row.phase # "end"
        /\ row.phase # "apply"
    BY DEF Batchless
  <1>3. BatchesHaveOneCreator'
    BY <1>1, <1>2 DEF IInv, BatchesHaveOneCreator
  <1>4. LinksAreOfWholeBatches'
    BY <1>1, <1>2 DEF IInv, LinksAreOfWholeBatches, Asked
  <1>5. CompleteIsApproved'
    <2> SUFFICES ASSUME NEW q \in Processes
                 PROVE  /\ proc'[q].phase \in {"decide", "list", "end", "apply"} =>
                              proc'[q].copy.status = "awaiting_approval"
                        /\ proc'[q].phase \in {"end", "apply"} /\ proc'[q].all =>
                              \A a \in Approvers : request'[proc'[q].batch][a] = "approved"
      BY DEF CompleteIsApproved, Approved
    <2>1. CASE q = p
      BY <2>1, <1>1, <1>2
    <2>2. CASE q # p
      BY <2>2, <1>1 DEF IInv, CompleteIsApproved, LinksAreOfWholeBatches, Approved
    <2> QED
      BY <2>1, <2>2
  <1>6. CreatedIsNewest' /\ OutstandingIsNewest'
    BY <1>1, <1>2 DEF IInv, CreatedIsNewest, OutstandingIsNewest
  <1> QED
    BY <1>3, <1>4, <1>5, <1>6 DEF IInv

----------------------------------------------------------------------------
(* Technicians *)

LEMMA ReadRow ==
    ASSUME NEW ph \in Batchless, NEW c \in Change, NEW r \in BOOLEAN
    PROVE  LET row == [Off EXCEPT !.phase = ph, !.copy = c]
               revoking == [Off EXCEPT !.phase = ph, !.copy = c, !.revokes = r]
           IN  /\ row \in ProcRow /\ row.phase = ph
               /\ revoking \in ProcRow /\ revoking.phase = ph
  BY DEF Off, ProcRow, Batchless

LEMMA EditedChange ==
    ASSUME NEW c \in Change
    PROVE  [c EXCEPT !.plan = Edited(c.plan)] \in Change
  <1>1. Edited(c.plan) \in 1..MaxPlan
    BY ApprovalAssumption DEF Change, Edited
  <1> QED
    BY <1>1 DEF Change

LEMMA MovedChange ==
    ASSUME NEW c \in Change, NEW s \in Statuses
    PROVE  [c EXCEPT !.status = s] \in Change /\ [c EXCEPT !.status = s].status = s
  BY DEF Change

\* A request that only reads, or that ends, is a quiet step.
LEMMA ReadingStep ==
    ASSUME IInv, NEW p \in Processes, NEW row \in ProcRow, Becomes(p, row),
           row.phase \in Batchless,
           UNCHANGED <<shared, change, request, batchPlan, newest, expired, links>>
    PROVE  IInv'
  <1>1. TypeOK'
    BY RowOf DEF IInv, TypeOK
  <1> QED
    BY <1>1, QuietStep

\* A technician's request that has read the change ...
LEMMA ChangeReadStep ==
    ASSUME IInv, NEW p \in Processes, NEW ph \in Batchless, NEW c \in Change,
           Becomes(p, [Off EXCEPT !.phase = ph, !.copy = c]),
           UNCHANGED <<shared, change, request, batchPlan, newest, expired, links>>
    PROVE  IInv'
  <1> DEFINE row == [Off EXCEPT !.phase = ph, !.copy = c]
  <1>1. row \in ProcRow /\ row.phase = ph /\ Becomes(p, row)
    BY ReadRow
  <1> HIDE DEF row
  <1> QED
    BY <1>1, ReadingStep

\* ... and perhaps has requests to revoke.
LEMMA RevokingReadStep ==
    ASSUME IInv, NEW p \in Processes, NEW ph \in Batchless, NEW c \in Change,
           NEW r \in BOOLEAN,
           Becomes(p, [Off EXCEPT !.phase = ph, !.copy = c, !.revokes = r]),
           UNCHANGED <<shared, change, request, batchPlan, newest, expired, links>>
    PROVE  IInv'
  <1> DEFINE row == [Off EXCEPT !.phase = ph, !.copy = c, !.revokes = r]
  <1>1. row \in ProcRow /\ row.phase = ph /\ Becomes(p, row)
    BY ReadRow
  <1> HIDE DEF row
  <1> QED
    BY <1>1, ReadingStep

LEMMA EditInv ==
    ASSUME IInv, NEW p \in Processes, Edit(p)
    PROVE  IInv'
  <1>1. change \in Change /\ [change EXCEPT !.plan = Edited(change.plan)] \in Change
    BY EditedChange DEF IInv, TypeOK
  <1>2. "write" \in Batchless
    BY DEF Batchless
  <1>3. CASE Becomes(p, [Off EXCEPT !.phase = "write",
                                    !.copy = [change EXCEPT !.plan = Edited(change.plan)]])
    BY <1>1, <1>2, <1>3, ChangeReadStep DEF Edit
  <1>4. CASE Becomes(p, [Off EXCEPT !.phase = "write", !.copy = change])
    BY <1>1, <1>2, <1>4, ChangeReadStep DEF Edit
  <1> QED
    BY <1>3, <1>4 DEF Edit

LEMMA ReassignInv ==
    ASSUME IInv, NEW p \in Processes, Reassign(p)
    PROVE  IInv'
  <1>1. change \in Change /\ "write" \in Batchless
    BY DEF IInv, TypeOK, Batchless
  <1> QED
    BY <1>1, ChangeReadStep DEF Reassign

LEMMA MoveInv ==
    ASSUME IInv, NEW p \in Processes, NEW target \in Targets, Move(p, target)
    PROVE  IInv'
  <1>1. /\ change \in Change /\ [change EXCEPT !.status = target] \in Change
        /\ "check" \in Batchless
    BY ApprovalAssumption, MovedChange DEF IInv, TypeOK, Batchless
  <1> DEFINE revokes == /\ change.status = "awaiting_approval"
                        /\ target \in {"impact_review", "declined", "cancelled"}
  <1>2. Becomes(p, [Off EXCEPT !.phase = "check",
                               !.copy = [change EXCEPT !.status = target],
                               !.revokes = revokes])
    BY DEF Move
  <1>3. revokes \in BOOLEAN
    OBVIOUS
  <1> HIDE DEF revokes
  <1> QED
    BY <1>1, <1>2, <1>3, RevokingReadStep DEF Move

LEMMA CheckRequestsInv ==
    ASSUME IInv, NEW p \in Processes, CheckRequests(p)
    PROVE  IInv'
  <1>1. /\ proc[p] \in ProcRow
        /\ "write" \in Phases /\ "write" \in Batchless /\ "off" \in Batchless
    BY ProcessRow DEF IInv, Phases, Batchless
  <1>2. CASE Stops(p)
    BY <1>1, <1>2, OffIsRow, ReadingStep DEF CheckRequests, Stops
  <1>3. CASE Becomes(p, [proc[p] EXCEPT !.phase = "write"])
    BY <1>1, <1>3, PhaseOf, ReadingStep DEF CheckRequests
  <1> QED
    BY <1>2, <1>3 DEF CheckRequests

LEMMA WriteInv ==
    ASSUME IInv, NEW p \in Processes, Write(p)
    PROVE  IInv'
  <1>1. /\ proc[p].copy \in Change
        /\ "revoke" \in Phases /\ "revoke" \in Batchless /\ "off" \in Batchless
    BY ProcessRow, RowFields DEF IInv, Phases, Batchless
  <1>2. change' \in Change /\ UNCHANGED <<shared, request, batchPlan, newest, expired, links>>
    BY <1>1 DEF Write
  <1>3. ASSUME NEW row \in ProcRow, Becomes(p, row), row.phase \in Batchless
        PROVE  IInv'
    <2>1. TypeOK'
      BY <1>2, <1>3, RowOf DEF IInv, TypeOK
    <2> QED
      BY <2>1, <1>2, <1>3, QuietStep
  <1>4. [Off EXCEPT !.phase = "revoke"] \in ProcRow
        /\ [Off EXCEPT !.phase = "revoke"].phase = "revoke"
    BY <1>1, OffIsRow, PhaseOf
  <1> QED
    BY <1>1, <1>3, <1>4, OffIsRow DEF Write, Stops

LEMMA RevokeInv ==
    ASSUME IInv, NEW p \in Processes, Revoke(p)
    PROVE  IInv'
  <1>1. TypeOK /\ request' = Revoked(Batches) /\ Becomes(p, Off)
        /\ Off \in ProcRow /\ Off.phase \in Batchless
        /\ UNCHANGED <<shared, change, batchPlan, newest, expired, links>>
    BY OffIsRow DEF IInv, Revoke, Stops, Batchless
  <1>2. TypeOK'
    BY <1>1, RowOf, RevokedStatus DEF TypeOK
  <1>3. \A b \in Batches, a \in Approvers :
           /\ request'[b][a] = None <=> request[b][a] = None
           /\ request'[b][a] = "pending" => request[b][a] = "pending"
           /\ request[b][a] = "approved" => request'[b][a] = "approved"
    BY <1>1, RevokedStatus DEF None
  <1> QED
    BY <1>1, <1>2, <1>3, QuietStep

LEMMA RequestSignOffInv ==
    ASSUME IInv, NEW p \in Processes, RequestSignOff(p)
    PROVE  IInv'
  <1>1. change \in Change /\ "replace" \in Batchless
    BY DEF IInv, TypeOK, Batchless
  <1> QED
    BY <1>1, ChangeReadStep DEF RequestSignOff

----------------------------------------------------------------------------
(* Batches *)

LEMMA CreatorRow ==
    ASSUME NEW b \in Batches
    PROVE  LET row == [Off EXCEPT !.phase = "create", !.batch = b, !.todo = Approvers]
           IN  /\ row \in ProcRow /\ row.phase = "create" /\ row.batch = b
               /\ row.todo = Approvers
  <1>1. NewChange \in Change
    BY OffIsRow DEF Off, ProcRow
  <1> QED
    BY <1>1 DEF Off, ProcRow

\* Setting what is left to do ...
LEMMA TodoOf ==
    ASSUME NEW row \in ProcRow, NEW T \in SUBSET Approvers
    PROVE  LET new == [row EXCEPT !.todo = T]
           IN  /\ new \in ProcRow /\ new.phase = row.phase /\ new.batch = row.batch
               /\ new.todo = T /\ new.approver = row.approver
  BY DEF ProcRow, Phases

\* ... and turning from creating requests to writing to approvers.
LEMMA MailerRow ==
    ASSUME NEW row \in ProcRow
    PROVE  LET new == [row EXCEPT !.phase = "mail", !.todo = Approvers]
           IN  new \in ProcRow /\ new.phase = "mail" /\ new.batch = row.batch
  BY DEF ProcRow

LEMMA BeginBatchInv ==
    ASSUME IInv, NEW p \in Processes, NEW b \in Batches, BeginBatch(p, b)
    PROVE  IInv'
  <1> DEFINE row == [Off EXCEPT !.phase = "create", !.batch = b, !.todo = Approvers]
  <1>1. /\ row \in ProcRow /\ row.phase = "create" /\ row.batch = b
        /\ row.todo = Approvers
    BY CreatorRow
  <1>2. Becomes(p, row)
    BY DEF BeginBatch
  <1> HIDE DEF row
  <1>3. /\ proc' \in [Processes -> ProcRow] /\ proc'[p] = row
        /\ \A q \in Processes \ {p} : proc'[q] = proc[q]
    BY <1>1, <1>2, RowOf DEF IInv
  <1>4. /\ LockFree(p) /\ batchPlan[b] = 0 /\ newest' = b
        /\ batchPlan' = [batchPlan EXCEPT ![b] = proc[p].copy.plan]
        /\ UNCHANGED <<shared, change, expired, links>>
    BY DEF BeginBatch
  <1>5. /\ request' \in [Batches -> [Approvers -> RequestStatus]]
        /\ \A c \in Batches, a \in Approvers :
              request'[c][a] = IF request[c][a] = "pending" THEN "revoked" ELSE request[c][a]
    BY RevokedStatus DEF BeginBatch, IInv
  <1>6. proc[p].copy.plan \in 1..MaxPlan
    BY ProcessRow, RowFields DEF IInv, Change
  <1>7. /\ batchPlan' \in [Batches -> 0..MaxPlan] /\ batchPlan'[b] # 0
        /\ \A c \in Batches : c # b => batchPlan'[c] = batchPlan[c]
    BY <1>4, <1>6, ApprovalAssumption DEF IInv, TypeOK
  <1>8. TypeOK'
    BY <1>3, <1>4, <1>5, <1>7 DEF IInv, TypeOK
  <1>9. \A q \in Processes \ {p} : proc[q].phase = "create" => proc[q].batch # b
    BY <1>4 DEF IInv, BatchesHaveOneCreator
  <1>10. BatchesHaveOneCreator'
    <2>1. \A c \in Batches : batchPlan'[c] = 0 => \A a \in Approvers : request'[c][a] = None
      BY <1>5, <1>7 DEF IInv, BatchesHaveOneCreator, None
    <2>2. ASSUME NEW q \in Processes, proc'[q].phase = "create"
          PROVE  /\ proc'[q].batch \in Batches /\ batchPlan'[proc'[q].batch] # 0
                 /\ \A a \in Approvers :
                       a \in proc'[q].todo <=> request'[proc'[q].batch][a] = None
                 /\ \A r \in Processes \ {q} : proc'[r].phase = "create" =>
                       proc'[r].batch # proc'[q].batch
      <3>1. CASE q = p
        <4>1. \A a \in Approvers : request[b][a] = None
          BY <1>4 DEF IInv, BatchesHaveOneCreator
        <4>2. \A a \in Approvers : request'[b][a] = None
          BY <4>1, <1>5 DEF None
        <4> QED
          BY <3>1, <4>2, <1>1, <1>3, <1>7, <1>9
      <3>2. CASE q # p
        <4>1. proc'[q] = proc[q] /\ proc[q].batch # b /\ proc[q].batch \in Batches
          BY <2>2, <3>2, <1>3, <1>9 DEF IInv, BatchesHaveOneCreator
        <4>2. \A a \in Approvers :
                 request'[proc[q].batch][a] = None <=> request[proc[q].batch][a] = None
          BY <4>1, <1>5 DEF None
        <4>3. \A r \in Processes \ {q} : proc'[r].phase = "create" =>
                 proc'[r].batch # proc[q].batch
          BY <4>1, <2>2, <1>1, <1>3 DEF IInv, BatchesHaveOneCreator
        <4>4. \A a \in Approvers : a \in proc[q].todo <=> request[proc[q].batch][a] = None
          BY <4>1, <2>2 DEF IInv, BatchesHaveOneCreator
        <4>5. batchPlan[proc[q].batch] # 0
          BY <4>1, <2>2 DEF IInv, BatchesHaveOneCreator
        <4> QED
          BY <4>1, <4>2, <4>3, <4>4, <4>5, <1>7
      <3> QED
        BY <3>1, <3>2
    <2> QED
      BY <2>1, <2>2 DEF BatchesHaveOneCreator
  <1>11. LinksAreOfWholeBatches'
    BY <1>1, <1>3, <1>4, <1>5 DEF IInv, LinksAreOfWholeBatches, Asked, None
  <1>12. CompleteIsApproved'
    BY <1>1, <1>3, <1>5 DEF IInv, CompleteIsApproved, LinksAreOfWholeBatches, Approved
  <1>13. CreatedIsNewest' /\ OutstandingIsNewest'
    BY <1>1, <1>3, <1>4, <1>5 DEF CreatedIsNewest, OutstandingIsNewest, LockFree, Locked
  <1> QED
    BY <1>8, <1>10, <1>11, <1>12, <1>13 DEF IInv

LEMMA CreateRequestInv ==
    ASSUME IInv, NEW p \in Processes, NEW a \in Approvers, CreateRequest(p, a)
    PROVE  IInv'
  <1> DEFINE b == proc[p].batch
             left == proc[p].todo \ {a}
             row == IF left = {} THEN [proc[p] EXCEPT !.phase = "mail", !.todo = Approvers]
                                 ELSE [proc[p] EXCEPT !.todo = left]
  <1>1. /\ proc[p] \in ProcRow /\ left \subseteq Approvers /\ proc[p].phase = "create"
        /\ a \in proc[p].todo /\ b \in Batches /\ batchPlan[b] # 0
        /\ \A d \in Approvers : d \in proc[p].todo <=> request[b][d] = None
        /\ \A q \in Processes \ {p} : proc[q].phase = "create" => proc[q].batch # b
    BY ProcessRow, RowFields DEF CreateRequest, IInv, BatchesHaveOneCreator
  <1>2. /\ row \in ProcRow /\ row.batch = b
        /\ left = {} => row.phase = "mail"
        /\ left # {} => row.phase = "create" /\ row.todo = left
    <2>1. proc[p] \in ProcRow /\ left \in SUBSET Approvers
      BY <1>1
    <2>2. CASE left = {}
      <3>1. row = [proc[p] EXCEPT !.phase = "mail", !.todo = Approvers]
        BY <2>2
      <3> HIDE DEF row, left
      <3>2. row \in ProcRow /\ row.phase = "mail" /\ row.batch = proc[p].batch
        BY <2>1, <3>1, MailerRow
      <3> QED
        BY <2>2, <3>2
    <2>3. CASE left # {}
      <3>1. row = [proc[p] EXCEPT !.todo = left]
        BY <2>3
      <3> HIDE DEF row, left
      <3>2. /\ row \in ProcRow /\ row.phase = proc[p].phase
            /\ row.batch = proc[p].batch /\ row.todo = left
        BY <2>1, <3>1, TodoOf
      <3> QED
        BY <1>1, <2>3, <3>2
    <2> QED
      BY <2>2, <2>3
  <1>3. Becomes(p, row)
    BY DEF CreateRequest
  <1> HIDE DEF row
  <1>4. /\ proc' \in [Processes -> ProcRow] /\ proc'[p] = row
        /\ \A q \in Processes \ {p} : proc'[q] = proc[q]
    BY <1>2, <1>3, RowOf DEF IInv
  <1>5. UNCHANGED <<shared, change, batchPlan, newest, expired, links>>
    BY DEF CreateRequest
  <1>6. /\ request' \in [Batches -> [Approvers -> RequestStatus]]
        /\ request'[b][a] = "pending"
        /\ \A c \in Batches, d \in Approvers :
              c # b \/ d # a => request'[c][d] = request[c][d]
    <2>1. "pending" \in RequestStatus /\ request' = [request EXCEPT ![b][a] = "pending"]
      BY DEF RequestStatus, CreateRequest
    <2>2. request \in [Batches -> [Approvers -> RequestStatus]]
      BY DEF IInv, TypeOK
    <2> HIDE DEF b
    <2> QED
      BY <1>1, <2>1, <2>2
  <1>7. request[b][a] = None
    BY <1>1
  <1>8. TypeOK'
    BY <1>4, <1>5, <1>6 DEF IInv, TypeOK
  <1> HIDE DEF b
  <1>9. BatchesHaveOneCreator'
    <2>1. \A c \in Batches : batchPlan'[c] = 0 => \A d \in Approvers : request'[c][d] = None
      BY <1>1, <1>5, <1>6 DEF IInv, BatchesHaveOneCreator
    <2>2. ASSUME NEW q \in Processes, proc'[q].phase = "create"
          PROVE  /\ proc'[q].batch \in Batches /\ batchPlan'[proc'[q].batch] # 0
                 /\ \A d \in Approvers :
                       d \in proc'[q].todo <=> request'[proc'[q].batch][d] = None
                 /\ \A r \in Processes \ {q} : proc'[r].phase = "create" =>
                       proc'[r].batch # proc'[q].batch
      <3>1. CASE q = p
        <4>1. proc'[q].batch = b /\ proc'[q].todo = left
          BY <3>1, <2>2, <1>2, <1>4
        <4>2. \A d \in Approvers : d \in left <=> request'[b][d] = None
          BY <1>1, <1>6 DEF None
        <4> QED
          BY <4>1, <4>2, <3>1, <1>1, <1>4, <1>5
      <3>2. CASE q # p
        <4>1. proc'[q] = proc[q] /\ proc[q].batch # b /\ proc[q].batch \in Batches
          BY <2>2, <3>2, <1>1, <1>4 DEF IInv, BatchesHaveOneCreator
        <4>2. \A d \in Approvers : request'[proc[q].batch][d] = request[proc[q].batch][d]
          BY <4>1, <1>6
        <4>3. \A r \in Processes \ {q} : proc'[r].phase = "create" =>
                 proc'[r].batch # proc[q].batch
          BY <4>1, <2>2, <1>2, <1>4 DEF IInv, BatchesHaveOneCreator
        <4>4. /\ \A d \in Approvers : d \in proc[q].todo <=> request[proc[q].batch][d] = None
              /\ batchPlan[proc[q].batch] # 0
          BY <4>1, <2>2 DEF IInv, BatchesHaveOneCreator
        <4> QED
          BY <4>1, <4>2, <4>3, <4>4, <1>5
      <3> QED
        BY <3>1, <3>2
    <2> QED
      BY <2>1, <2>2 DEF BatchesHaveOneCreator
  <1>10. \A c \in Batches : Asked(c) => Asked(c)'
    BY <1>6, <1>7 DEF Asked, None
  <1>11. left = {} => \A d \in Approvers : request'[b][d] # None
    BY <1>1, <1>6 DEF None
  <1>12. LinksAreOfWholeBatches'
    BY <1>1, <1>2, <1>4, <1>5, <1>10, <1>11 DEF IInv, LinksAreOfWholeBatches, Asked
  <1>13. \A c \in Batches : Approved(c) => Approved(c)'
    BY <1>6, <1>7 DEF Approved, None
  <1>14. CompleteIsApproved'
    BY <1>2, <1>4, <1>13 DEF IInv, CompleteIsApproved, LinksAreOfWholeBatches, Approved
  <1>15. CreatedIsNewest' /\ OutstandingIsNewest'
    BY <1>1, <1>2, <1>4, <1>5, <1>6 DEF IInv, CreatedIsNewest, OutstandingIsNewest, b
  <1> QED
    BY <1>8, <1>9, <1>12, <1>14, <1>15 DEF IInv

LEMMA MailLinkInv ==
    ASSUME IInv, NEW p \in Processes, NEW a \in Approvers, MailLink(p, a)
    PROVE  IInv'
  <1> DEFINE b == proc[p].batch
             left == proc[p].todo \ {a}
             row == IF left = {} THEN Off ELSE [proc[p] EXCEPT !.todo = left]
  <1>1. /\ proc[p] \in ProcRow /\ left \subseteq Approvers /\ proc[p].phase = "mail"
        /\ b \in Batches /\ Asked(b)
    BY ProcessRow, RowFields DEF MailLink, IInv, LinksAreOfWholeBatches
  <1>2. /\ row \in ProcRow
        /\ row.phase = "off" \/ (row.phase = "mail" /\ row.batch = b)
    <2>1. left \in SUBSET Approvers
      BY <1>1
    <2>2. CASE left = {}
      BY <2>2, OffIsRow
    <2>3. CASE left # {}
      <3>1. row = [proc[p] EXCEPT !.todo = left]
        BY <2>3
      <3> HIDE DEF row, left
      <3> QED
        BY <1>1, <2>1, <3>1, TodoOf
    <2> QED
      BY <2>2, <2>3
  <1>3. Becomes(p, row)
    BY DEF MailLink
  <1> HIDE DEF row
  <1>4. /\ proc' \in [Processes -> ProcRow] /\ proc'[p] = row
        /\ \A q \in Processes \ {p} : proc'[q] = proc[q]
    BY <1>2, <1>3, RowOf DEF IInv
  <1>5. /\ UNCHANGED <<shared, change, request, batchPlan, newest, expired>>
        /\ links' = links \cup {<<b, a>>}
    BY DEF MailLink
  <1>6. TypeOK'
    BY <1>1, <1>4, <1>5 DEF IInv, TypeOK
  <1>7. BatchesHaveOneCreator'
    BY <1>2, <1>4, <1>5 DEF IInv, BatchesHaveOneCreator
  <1>8. LinksAreOfWholeBatches'
    BY <1>1, <1>2, <1>4, <1>5 DEF IInv, LinksAreOfWholeBatches, Asked
  <1>9. CompleteIsApproved'
    BY <1>2, <1>4, <1>5 DEF IInv, CompleteIsApproved, Approved
  <1>10. CreatedIsNewest' /\ OutstandingIsNewest'
    BY <1>2, <1>4, <1>5 DEF IInv, CreatedIsNewest, OutstandingIsNewest
  <1> QED
    BY <1>6, <1>7, <1>8, <1>9, <1>10 DEF IInv

----------------------------------------------------------------------------
(* Answers *)

Answering == {"opened", "decide", "list", "end", "apply"}

\* A step of an answer keeps the invariant if its row says of batch and change what
\* the invariant says and it revokes nothing that was answered.
LEMMA AnswerStep ==
    ASSUME IInv, TypeOK', NEW p \in Processes, NEW row \in ProcRow, Becomes(p, row),
           row.phase \in Answering,
           row.batch \in Batches, Asked(row.batch), row.approver \in Approvers,
           row.phase # "opened" => row.copy.status = "awaiting_approval",
           row.phase \in {"end", "apply"} /\ row.all =>
               \A a \in Approvers : request'[row.batch][a] = "approved",
           UNCHANGED <<shared, batchPlan, newest, links>>,
           \A b \in Batches, a \in Approvers :
              /\ request'[b][a] = None <=> request[b][a] = None
              /\ request'[b][a] = "pending" => request[b][a] = "pending"
              /\ request[b][a] = "approved" => request'[b][a] = "approved"
    PROVE  IInv'
  <1>1. /\ proc'[p] = row
        /\ \A q \in Processes \ {p} : proc'[q] = proc[q]
    BY RowOf DEF IInv
  <1>2. row.phase # "create" /\ row.phase # "mail"
    BY DEF Answering
  <1>3. BatchesHaveOneCreator'
    BY <1>1, <1>2 DEF IInv, BatchesHaveOneCreator
  <1>4. \A b \in Batches : Asked(b) => \A a \in Approvers : request'[b][a] # None
    BY DEF Asked
  <1>5. LinksAreOfWholeBatches'
    <2>1. \A b \in Batches, a \in Approvers :
             <<b, a>> \in links' => \A d \in Approvers : request'[b][d] # None
      BY <1>4 DEF IInv, LinksAreOfWholeBatches
    <2>2. ASSUME NEW q \in Processes
          PROVE  /\ proc'[q].phase \in {"mail", "opened", "decide", "list", "end", "apply"} =>
                       /\ proc'[q].batch \in Batches
                       /\ \A d \in Approvers : request'[proc'[q].batch][d] # None
                 /\ proc'[q].phase \in {"opened", "decide", "list", "end", "apply"} =>
                       proc'[q].approver \in Approvers
      <3>1. CASE q = p
        BY <3>1, <1>1, <1>4
      <3>2. CASE q # p
        BY <3>2, <1>1, <1>4 DEF IInv, LinksAreOfWholeBatches
      <3> QED
        BY <3>1, <3>2
    <2> QED
      BY <2>1, <2>2 DEF LinksAreOfWholeBatches, Asked
  <1>6. CompleteIsApproved'
    <2> SUFFICES ASSUME NEW q \in Processes
                 PROVE  /\ proc'[q].phase \in {"decide", "list", "end", "apply"} =>
                              proc'[q].copy.status = "awaiting_approval"
                        /\ proc'[q].phase \in {"end", "apply"} /\ proc'[q].all =>
                              \A a \in Approvers : request'[proc'[q].batch][a] = "approved"
      BY DEF CompleteIsApproved, Approved
    <2>1. CASE q = p
      BY <2>1, <1>1
    <2>2. CASE q # p
      BY <2>2, <1>1 DEF IInv, CompleteIsApproved, LinksAreOfWholeBatches, Approved
    <2> QED
      BY <2>1, <2>2
  <1>7. CreatedIsNewest' /\ OutstandingIsNewest'
    BY <1>1, <1>2 DEF IInv, CreatedIsNewest, OutstandingIsNewest
  <1> QED
    BY <1>3, <1>5, <1>6, <1>7 DEF IInv

LEMMA OpenedRow ==
    ASSUME NEW b \in Batches, NEW a \in Approvers
    PROVE  LET row == [Off EXCEPT !.phase = "opened", !.batch = b, !.approver = a]
           IN  row \in ProcRow /\ row.phase = "opened" /\ row.batch = b /\ row.approver = a
  <1>1. NewChange \in Change
    BY OffIsRow DEF Off, ProcRow
  <1> QED
    BY <1>1 DEF Off, ProcRow

LEMMA OpenLinkInv ==
    ASSUME IInv, NEW p \in Processes, NEW b \in Batches, NEW a \in Approvers,
           OpenLink(p, b, a)
    PROVE  IInv'
  <1> DEFINE row == [Off EXCEPT !.phase = "opened", !.batch = b, !.approver = a]
  <1>1. /\ row \in ProcRow /\ row.phase = "opened" /\ row.batch = b /\ row.approver = a
    BY OpenedRow
  <1>2. Becomes(p, row) /\ Asked(b)
        /\ UNCHANGED <<shared, change, request, batchPlan, newest, expired, links>>
    BY DEF OpenLink, IInv, LinksAreOfWholeBatches
  <1> HIDE DEF row
  <1>3. TypeOK'
    BY <1>1, <1>2, RowOf DEF IInv, TypeOK
  <1> QED
    BY <1>1, <1>2, <1>3, AnswerStep DEF Answering

LEMMA ReadChangeInv ==
    ASSUME IInv, NEW p \in Processes, ReadChange(p)
    PROVE  IInv'
  <1> DEFINE row == [proc[p] EXCEPT !.phase = "decide", !.copy = change]
  <1>1. /\ proc[p] \in ProcRow /\ change \in Change /\ proc[p].phase = "opened"
        /\ UNCHANGED <<shared, change, request, batchPlan, newest, expired, links>>
    BY ProcessRow DEF IInv, TypeOK, ReadChange
  <1>2. /\ row \in ProcRow /\ row.phase = "decide" /\ row.copy = change
        /\ row.batch = proc[p].batch /\ row.approver = proc[p].approver
    BY <1>1 DEF ProcRow
  <1>3. /\ proc[p].batch \in Batches /\ Asked(proc[p].batch)
        /\ proc[p].approver \in Approvers
    BY <1>1 DEF IInv, LinksAreOfWholeBatches
  <1>4. CASE change.status = "awaiting_approval"
    <2>1. Becomes(p, row)
      BY <1>4 DEF ReadChange
    <2> HIDE DEF row
    <2>2. TypeOK'
      BY <1>1, <1>2, <2>1, RowOf DEF IInv, TypeOK
    <2> QED
      BY <1>1, <1>2, <1>3, <1>4, <2>1, <2>2, AnswerStep DEF Answering
  <1>5. CASE change.status # "awaiting_approval"
    BY <1>1, <1>5, OffIsRow, ReadingStep DEF ReadChange, Stops, Batchless
  <1> QED
    BY <1>4, <1>5

\* An answer changes a request from pending to something else, or nothing.
LEMMA DecideRequest ==
    ASSUME IInv, NEW p \in Processes, NEW verdict \in Decisions, Decide(p, verdict)
    PROVE  /\ request' \in [Batches -> [Approvers -> RequestStatus]]
           /\ \A b \in Batches, a \in Approvers :
                 /\ request'[b][a] = None <=> request[b][a] = None
                 /\ request'[b][a] = "pending" => request[b][a] = "pending"
                 /\ request[b][a] \notin {None, "pending"} => request'[b][a] = request[b][a]
  <1> DEFINE b == proc[p].batch
             a == proc[p].approver
  <1>1. /\ b \in Batches /\ a \in Approvers
        /\ request \in [Batches -> [Approvers -> RequestStatus]]
    BY DEF Decide, IInv, LinksAreOfWholeBatches, TypeOK
  <1>2. /\ verdict \in RequestStatus /\ "expired" \in RequestStatus
        /\ verdict # None /\ verdict # "pending"
    BY DEF Decisions, RequestStatus, None
  <1>3. \/ request' = request
        \/ request[b][a] = "pending" /\ request' = [request EXCEPT ![b][a] = verdict]
        \/ request[b][a] = "pending" /\ request' = [request EXCEPT ![b][a] = "expired"]
    BY DEF Decide, Accepts, Answerable
  <1> HIDE DEF a, b
  <1>4. CASE request' = request
    BY <1>1, <1>4
  <1>5. ASSUME NEW v \in RequestStatus, v # None, v # "pending",
               request[b][a] = "pending", request' = [request EXCEPT ![b][a] = v]
        PROVE  /\ request' \in [Batches -> [Approvers -> RequestStatus]]
               /\ \A c \in Batches, d \in Approvers :
                     /\ request'[c][d] = None <=> request[c][d] = None
                     /\ request'[c][d] = "pending" => request[c][d] = "pending"
                     /\ request[c][d] \notin {None, "pending"} =>
                           request'[c][d] = request[c][d]
    BY <1>1, <1>5 DEF None
  <1> QED
    BY <1>2, <1>3, <1>4, <1>5 DEF None

LEMMA DecideInv ==
    ASSUME IInv, NEW p \in Processes, NEW verdict \in Decisions, Decide(p, verdict)
    PROVE  IInv'
  <1> DEFINE row == [proc[p] EXCEPT !.phase = "list", !.verdict = verdict]
  <1>1. /\ proc[p] \in ProcRow /\ proc[p].phase = "decide"
        /\ UNCHANGED <<shared, change, batchPlan, newest, expired, links>>
    BY ProcessRow DEF IInv, Decide
  <1>2. /\ row \in ProcRow /\ row.phase = "list" /\ row.copy = proc[p].copy
        /\ row.batch = proc[p].batch /\ row.approver = proc[p].approver
    BY <1>1 DEF ProcRow
  <1>3. /\ proc[p].batch \in Batches /\ Asked(proc[p].batch)
        /\ proc[p].approver \in Approvers
        /\ proc[p].copy.status = "awaiting_approval"
    BY <1>1 DEF IInv, LinksAreOfWholeBatches, CompleteIsApproved
  <1>4. /\ request' \in [Batches -> [Approvers -> RequestStatus]]
        /\ \A b \in Batches, a \in Approvers :
              /\ request'[b][a] = None <=> request[b][a] = None
              /\ request'[b][a] = "pending" => request[b][a] = "pending"
              /\ request[b][a] = "approved" => request'[b][a] = "approved"
    BY DecideRequest DEF None
  <1>5. CASE Becomes(p, row)
    <2> HIDE DEF row
    <2>1. TypeOK'
      BY <1>1, <1>2, <1>4, <1>5, RowOf DEF IInv, TypeOK
    <2> QED
      BY <1>1, <1>2, <1>3, <1>4, <1>5, <2>1, AnswerStep DEF Answering
  <1>6. CASE Becomes(p, Off)
    <2>1. TypeOK'
      BY <1>1, <1>4, <1>6, RowOf, OffIsRow DEF IInv, TypeOK
    <2>2. Off \in ProcRow /\ Off.phase \in Batchless
      BY OffIsRow DEF Batchless
    <2> QED
      BY <1>1, <1>4, <1>6, <2>1, <2>2, QuietStep
  <1> QED
    BY <1>5, <1>6 DEF Decide, Stops

LEMMA ListBatchInv ==
    ASSUME IInv, NEW p \in Processes, ListBatch(p)
    PROVE  IInv'
  <1> DEFINE next == IF proc[p].verdict = "declined" THEN "end" ELSE "apply"
             all == Complete(proc[p].batch)
             row == [proc[p] EXCEPT !.phase = next, !.all = all]
  <1>1. /\ proc[p] \in ProcRow /\ proc[p].phase = "list" /\ Becomes(p, row)
        /\ UNCHANGED <<shared, change, request, batchPlan, newest, expired, links>>
    BY ProcessRow DEF IInv, ListBatch
  <1>2. next \in {"end", "apply"} /\ all \in BOOLEAN
    BY DEF Complete
  <1>3. /\ proc[p].batch \in Batches /\ Asked(proc[p].batch)
        /\ proc[p].approver \in Approvers
        /\ proc[p].copy.status = "awaiting_approval"
    BY <1>1 DEF IInv, LinksAreOfWholeBatches, CompleteIsApproved
  <1>4. all => \A a \in Approvers : request[proc[p].batch][a] = "approved"
    BY <1>3 DEF Complete, Asked
  <1> HIDE DEF next, all
  <1>5. /\ row \in ProcRow /\ row.phase = next /\ row.copy = proc[p].copy
        /\ row.batch = proc[p].batch /\ row.approver = proc[p].approver
        /\ row.all = all
    BY <1>1, <1>2 DEF ProcRow
  <1> HIDE DEF row
  <1>6. TypeOK'
    BY <1>1, <1>5, RowOf DEF IInv, TypeOK
  <1> QED
    BY <1>1, <1>2, <1>3, <1>4, <1>5, <1>6, AnswerStep DEF Answering

LEMMA EndBatchInv ==
    ASSUME IInv, NEW p \in Processes, EndBatch(p)
    PROVE  IInv'
  <1> DEFINE row == [proc[p] EXCEPT !.phase = "apply"]
             b == proc[p].batch
  <1>1. /\ proc[p] \in ProcRow /\ proc[p].phase = "end" /\ Becomes(p, row)
        /\ request' = Revoked({b})
        /\ UNCHANGED <<shared, change, batchPlan, newest, expired, links>>
    BY ProcessRow DEF IInv, EndBatch
  <1>2. /\ row \in ProcRow /\ row.phase = "apply" /\ row.copy = proc[p].copy
        /\ row.batch = b /\ row.approver = proc[p].approver /\ row.all = proc[p].all
    BY <1>1, PhaseOf DEF Phases
  <1>3. /\ b \in Batches /\ Asked(b) /\ proc[p].approver \in Approvers
        /\ proc[p].copy.status = "awaiting_approval"
        /\ proc[p].all => \A a \in Approvers : request[b][a] = "approved"
    BY <1>1 DEF IInv, LinksAreOfWholeBatches, CompleteIsApproved, Approved
  <1> HIDE DEF row, b
  <1>4. /\ request' \in [Batches -> [Approvers -> RequestStatus]]
        /\ \A c \in Batches, a \in Approvers :
              /\ request'[c][a] = None <=> request[c][a] = None
              /\ request'[c][a] = "pending" => request[c][a] = "pending"
              /\ request[c][a] = "approved" => request'[c][a] = "approved"
    BY <1>1, <1>3, RevokedStatus DEF IInv, None
  <1>5. TypeOK'
    BY <1>1, <1>2, <1>4, RowOf DEF IInv, TypeOK
  <1>6. /\ row.phase \in Answering /\ row.copy.status = "awaiting_approval"
        /\ row.batch \in Batches /\ Asked(row.batch) /\ row.approver \in Approvers
        /\ row.all => \A a \in Approvers : request'[row.batch][a] = "approved"
    BY <1>2, <1>3, <1>4 DEF Answering
  <1> QED
    BY <1>1, <1>2, <1>4, <1>5, <1>6, AnswerStep

LEMMA ApplyInv ==
    ASSUME IInv, NEW p \in Processes, Apply(p)
    PROVE  IInv'
  <1>1. /\ proc[p].copy \in Change /\ Becomes(p, Off)
        /\ Off \in ProcRow /\ Off.phase \in Batchless
        /\ UNCHANGED <<shared, request, batchPlan, newest, expired, links>>
    BY ProcessRow, RowFields, OffIsRow DEF IInv, Apply, Stops, Batchless
  <1>2. Outcome(p) \in Statuses
    BY <1>1 DEF Outcome, Statuses, Transitions, Change
  <1>3. change' \in Change
    BY <1>1, <1>2, MovedChange DEF Apply
  <1>4. TypeOK'
    BY <1>1, <1>3, RowOf DEF IInv, TypeOK
  <1> QED
    BY <1>1, <1>4, QuietStep

LEMMA FailInv ==
    ASSUME IInv, NEW p \in Processes, Fail(p)
    PROVE  IInv'
  <1>1. "off" \in Batchless
    BY DEF Batchless
  <1> QED
    BY <1>1, OffIsRow, ReadingStep DEF Fail, Stops

LEMMA ExpireInv ==
    ASSUME IInv, NEW b \in Batches, Expire(b)
    PROVE  IInv'
  <1>1. TypeOK'
    BY DEF IInv, TypeOK, Expire
  <1>2. BatchesHaveOneCreator' /\ CreatedIsNewest' /\ OutstandingIsNewest'
    BY DEF IInv, Expire, BatchesHaveOneCreator, CreatedIsNewest, OutstandingIsNewest
  <1>3. LinksAreOfWholeBatches' /\ CompleteIsApproved'
    BY DEF IInv, Expire, LinksAreOfWholeBatches, CompleteIsApproved, Asked, Approved
  <1> QED
    BY <1>1, <1>2, <1>3 DEF IInv

----------------------------------------------------------------------------
(* Theorems *)

LEMMA InitInv == Init => IInv
  <1> SUFFICES ASSUME Init PROVE IInv
    OBVIOUS
  <1>1. NewChange \in Change
    BY OffIsRow DEF Off, ProcRow
  <1>2. TypeOK
    BY <1>1, OffIsRow, ApprovalAssumption DEF Init, TypeOK, RequestStatus
  <1>3. \A p \in Processes : proc[p].phase = "off"
    BY OffIsRow DEF Init
  <1>4. BatchesHaveOneCreator /\ CreatedIsNewest /\ OutstandingIsNewest
    BY <1>3 DEF Init, BatchesHaveOneCreator, CreatedIsNewest, OutstandingIsNewest, None
  <1>5. LinksAreOfWholeBatches /\ CompleteIsApproved
    BY <1>3 DEF Init, LinksAreOfWholeBatches, CompleteIsApproved
  <1> QED
    BY <1>2, <1>4, <1>5 DEF IInv

LEMMA StutterInv ==
    ASSUME IInv, UNCHANGED vars
    PROVE  IInv'
  BY DEF vars, IInv, TypeOK, BatchesHaveOneCreator, LinksAreOfWholeBatches,
         CompleteIsApproved, CreatedIsNewest, OutstandingIsNewest, Asked, Approved

LEMMA NextInv == IInv /\ [Next]_vars => IInv'
  <1> SUFFICES ASSUME IInv, [Next]_vars PROVE IInv'
    OBVIOUS
  <1>1. ASSUME NEW p \in Processes, TechnicianNext(p) PROVE IInv'
    BY <1>1, EditInv, ReassignInv, MoveInv, CheckRequestsInv, WriteInv, RevokeInv,
       RequestSignOffInv, BeginBatchInv, CreateRequestInv, MailLinkInv DEF TechnicianNext
  <1>2. ASSUME NEW p \in Processes, AnswerNext(p) PROVE IInv'
    BY <1>2, OpenLinkInv, ReadChangeInv, DecideInv, ListBatchInv, EndBatchInv, ApplyInv
    DEF AnswerNext
  <1>3. ASSUME NEW p \in Processes, Fail(p) PROVE IInv'
    BY <1>3, FailInv
  <1>4. ASSUME NEW b \in Batches, Expire(b) PROVE IInv'
    BY <1>4, ExpireInv
  <1> QED
    BY <1>1, <1>2, <1>3, <1>4, StutterInv DEF Next

\* The inductive invariant holds, however requests fail and whether or not they
\* share the lock.
THEOREM Invariant == Spec => []IInv
  BY InitInv, NextInv, PTL DEF Spec

\* Every variable has its type.
THEOREM TypeCorrect == Spec => []TypeOK
  <1>1. IInv => TypeOK
    BY DEF IInv
  <1> QED
    BY <1>1, Invariant, PTL

\* Where requests share the lock, nothing is outstanding but what the newest batch
\* asks for.
THEOREM NewestIsOutstanding == Spec => []OutstandingIsNewest
  <1>1. IInv => OutstandingIsNewest
    BY DEF IInv
  <1> QED
    BY <1>1, Invariant, PTL

\* An answer that approves the change is the last of a batch in which every approver
\* was asked and every one approved.
THEOREM UnanimousApproval == Spec => ApprovalIsUnanimous
  <1> DEFINE A == \A p \in Visitors :
                     Apply(p) /\ change'.status = "approved" => Approved(proc[p].batch)
  <1>1. IInv /\ [Next]_vars => [A]_vars
    <2> SUFFICES ASSUME IInv, NEW p \in Visitors, Apply(p), change'.status = "approved"
                 PROVE  Approved(proc[p].batch)
      OBVIOUS
    <2>1. p \in Processes
      BY DEF Processes
    <2>2. proc[p].copy \in Change /\ proc[p].copy.status = "awaiting_approval"
      BY <2>1, ProcessRow, RowFields DEF IInv, Apply, CompleteIsApproved
    <2>3. change'.status = Outcome(p)
      <3>1. Outcome(p) \in Statuses
        BY <2>2 DEF Outcome, Statuses, Transitions
      <3> QED
        BY <2>2, <3>1, MovedChange DEF Apply
    <2>4. proc[p].all
      BY <2>2, <2>3 DEF Outcome
    <2> QED
      BY <2>1, <2>4 DEF IInv, Apply, CompleteIsApproved
  <1> QED
    BY <1>1, Invariant, PTL DEF Spec, ApprovalIsUnanimous

\* An answer, a revocation or an expiry is final.
THEOREM FinalAnswers == Spec => AnswersAreFinal
  <1> DEFINE A == \A b \in Batches, a \in Approvers :
                     request[b][a] \notin {None, "pending"} => request'[b][a] = request[b][a]
  <1>1. IInv /\ [Next]_vars => [A]_vars
    <2> SUFFICES ASSUME IInv, Next
                 PROVE  A
      OBVIOUS
    <2>1. ASSUME NEW B \in SUBSET Batches, request' = Revoked(B) PROVE A
      BY <2>1, RevokedStatus DEF IInv
    <2>2. ASSUME NEW p \in Processes, TechnicianNext(p) PROVE A
      <3>1. ASSUME NEW a \in Approvers, CreateRequest(p, a) PROVE A
        <4>1. /\ proc[p].batch \in Batches /\ request[proc[p].batch][a] = None
              /\ request \in [Batches -> [Approvers -> RequestStatus]]
              /\ request' = [request EXCEPT ![proc[p].batch][a] = "pending"]
          BY <3>1 DEF IInv, TypeOK, BatchesHaveOneCreator, CreateRequest
        <4> QED
          BY <4>1 DEF None
      <3>2. ASSUME request' = request PROVE A
        BY <3>2
      <3>3. Revoke(p) \/ (\E b \in Batches : BeginBatch(p, b)) => request' = Revoked(Batches)
        BY DEF Revoke, BeginBatch
      <3> HIDE DEF A
      <3> QED
        BY <2>2, <2>1, <3>1, <3>2, <3>3
        DEF TechnicianNext, Edit, Reassign, Move, CheckRequests, Write, RequestSignOff,
            MailLink
    <2>3. ASSUME NEW p \in Processes, AnswerNext(p) PROVE A
      <3>1. ASSUME NEW verdict \in Decisions, Decide(p, verdict) PROVE A
        BY <3>1, DecideRequest
      <3>2. ASSUME EndBatch(p) PROVE A
        <4>1. {proc[p].batch} \in SUBSET Batches /\ request' = Revoked({proc[p].batch})
          BY <3>2 DEF EndBatch, IInv, LinksAreOfWholeBatches
        <4> QED
          BY <4>1, <2>1
      <3>3. ASSUME request' = request PROVE A
        BY <3>3
      <3> HIDE DEF A
      <3> QED
        BY <2>3, <3>1, <3>2, <3>3 DEF AnswerNext, OpenLink, ReadChange, ListBatch, Apply
    <2>4. ASSUME request' = request PROVE A
      BY <2>4
    <2> HIDE DEF A
    <2> QED
      BY <2>2, <2>3, <2>4 DEF Next, Fail, Expire
  <1> QED
    BY <1>1, Invariant, PTL DEF Spec, AnswersAreFinal

----------------------------------------------------------------------------
(* Ballots *)

\* What is pending or was never asked is so in the answers, too.
LEMMA AnswersOf ==
    ASSUME NEW b \in Batches, NEW a \in Approvers
    PROVE  /\ Answers[b][a] = IF request[b][a] \in {"expired", "revoked"} THEN "void"
                              ELSE request[b][a]
           /\ Answers[b][a] = "pending" <=> request[b][a] = "pending"
           /\ Answers[b][a] = "none" <=> request[b][a] = None
  BY DEF Answers, None

\* One answer changes.
LEMMA OneAnswer ==
    ASSUME NEW b \in Batches, NEW a \in Approvers, NEW w,
           \A c \in Batches, d \in Approvers :
              Answers[c][d]' = IF c = b /\ d = a THEN w ELSE Answers[c][d]
    PROVE  Answers' = [Answers EXCEPT ![b][a] = w]
  <1> DEFINE new == [Answers EXCEPT ![b][a] = w]
  <1>1. /\ Answers = [c \in Batches |-> Answers[c]]
        /\ \A c \in Batches : Answers[c] = [d \in Approvers |-> Answers[c][d]]
    BY DEF Answers
  <1>2. Answers' = [c \in Batches |-> [d \in Approvers |-> Answers[c][d]']]
    BY DEF Answers
  <1>3. new = [c \in Batches |-> [d \in Approvers |->
                  IF c = b /\ d = a THEN w ELSE Answers[c][d]]]
    BY <1>1
  <1>4. Answers' = [c \in Batches |-> [d \in Approvers |->
                       IF c = b /\ d = a THEN w ELSE Answers[c][d]]]
    BY <1>2
  <1> QED
    BY <1>3, <1>4

\* One request gets an answer or its approver is asked; or it expires.
LEMMA StoredAnswer ==
    ASSUME IInv, NEW b \in Batches, NEW a \in Approvers, NEW v \in {"pending"} \cup Decisions,
           request' = [request EXCEPT ![b][a] = v]
    PROVE  Answers' = [Answers EXCEPT ![b][a] = v]
  <1>1. \A c \in Batches, d \in Approvers :
           request'[c][d] = IF c = b /\ d = a THEN v ELSE request[c][d]
    BY RequestOf DEF IInv, TypeOK, RequestStatus
  <1>2. v \notin {"expired", "revoked"}
    BY DEF Decisions
  <1>3. \A c \in Batches, d \in Approvers :
           Answers[c][d]' = IF c = b /\ d = a THEN v ELSE Answers[c][d]
    BY <1>1, <1>2 DEF Answers
  <1> QED
    BY <1>3, OneAnswer

LEMMA LapsedAnswer ==
    ASSUME IInv, NEW b \in Batches, NEW a \in Approvers,
           request' = [request EXCEPT ![b][a] = "expired"]
    PROVE  Answers' = [Answers EXCEPT ![b][a] = "void"]
  <1>1. \A c \in Batches, d \in Approvers :
           request'[c][d] = IF c = b /\ d = a THEN "expired" ELSE request[c][d]
    BY RequestOf DEF IInv, TypeOK, RequestStatus
  <1>2. \A c \in Batches, d \in Approvers :
           Answers[c][d]' = IF c = b /\ d = a THEN "void" ELSE Answers[c][d]
    BY <1>1 DEF Answers
  <1> QED
    BY <1>2, OneAnswer

\* The requests of some batches are revoked: what is pending in them is withdrawn.
LEMMA WithdrawnAnswers ==
    ASSUME IInv, NEW B \in SUBSET Batches, request' = Revoked(B), shared' = shared
    PROVE  Ballot!Withdraw(B)
  <1>1. \A b \in Batches, a \in Approvers :
           request'[b][a] = IF b \in B /\ request[b][a] = "pending" THEN "revoked"
                            ELSE request[b][a]
    BY RevokedStatus DEF IInv
  <1>2. \A b \in Batches, a \in Approvers :
           Answers[b][a]' = IF b \in B /\ Answers[b][a] = "pending" THEN "void"
                            ELSE Answers[b][a]
    BY <1>1 DEF Answers
  <1>3. Answers' = [b \in Batches |-> [a \in Approvers |-> Answers[b][a]']]
    BY DEF Answers
  <1> QED
    BY <1>2, <1>3 DEF Ballot!Withdraw

\* A request is created: nothing else is outstanding where the lock is shared, as what is
\* pending then is of the newest batch.
LEMMA CreateAsks ==
    ASSUME IInv, NEW p \in Processes, NEW a \in Approvers, CreateRequest(p, a)
    PROVE  \E b \in Batches : Ballot!Ask(b, a)
  <1>1. proc[p].batch \in Batches
    BY DEF CreateRequest, IInv, BatchesHaveOneCreator
  <1>2. PICK b \in Batches : b = proc[p].batch
    BY <1>1
  <1>3. /\ request[b][a] = None
        /\ request' = [request EXCEPT ![b][a] = "pending"] /\ shared' = shared
    BY <1>2 DEF CreateRequest, IInv, BatchesHaveOneCreator
  <1>4. ASSUME shared, NEW c \in Batches \ {b}, NEW d \in Approvers
        PROVE  request[c][d] # "pending"
    BY <1>2, <1>4 DEF CreateRequest, IInv, CreatedIsNewest, OutstandingIsNewest
  <1>5. Answers' = [Answers EXCEPT ![b][a] = "pending"]
    BY <1>3, StoredAnswer
  <1>6. Answers[b][a] = "none"
    BY <1>3, AnswersOf
  <1>7. shared => \A c \in Batches \ {b} : ~Ballot!Outstanding(c)
    BY <1>4, AnswersOf DEF Ballot!Outstanding
  <1> QED
    BY <1>3, <1>5, <1>6, <1>7 DEF Ballot!Ask

\* The UPDATE of an answer: it is stored in a batch that was asked as a whole, or a
\* request that was too old lapses, or nothing changes.
LEMMA DecideAnswers ==
    ASSUME IInv, NEW p \in Processes, NEW verdict \in Decisions, Decide(p, verdict)
    PROVE  \/ \E b \in Batches, a \in Approvers :
                 Ballot!Answer(b, a, verdict) \/ Ballot!Lapse(b, a)
           \/ UNCHANGED <<request, shared>>
  <1> DEFINE b == proc[p].batch
             a == proc[p].approver
  <1>1. /\ b \in Batches /\ a \in Approvers /\ shared' = shared
        /\ \A other \in Approvers : request[b][other] # None
    BY DEF Decide, IInv, LinksAreOfWholeBatches, Asked
  <1>2. \/ request' = request
        \/ request[b][a] = "pending" /\ request' = [request EXCEPT ![b][a] = verdict]
        \/ request[b][a] = "pending" /\ request' = [request EXCEPT ![b][a] = "expired"]
    BY DEF Decide, Accepts, Answerable
  <1> HIDE DEF a, b
  <1>3. /\ Answers[b][a] = "pending" <=> request[b][a] = "pending"
        /\ \A other \in Approvers : Answers[b][other] # "none"
    BY <1>1, AnswersOf
  <1>4. CASE request[b][a] = "pending" /\ request' = [request EXCEPT ![b][a] = verdict]
    <2>1. Answers' = [Answers EXCEPT ![b][a] = verdict]
      BY <1>1, <1>4, StoredAnswer
    <2>2. Ballot!Answer(b, a, verdict)
      BY <1>1, <1>3, <1>4, <2>1 DEF Ballot!Answer
    <2> QED
      BY <1>1, <2>2
  <1>5. CASE request[b][a] = "pending" /\ request' = [request EXCEPT ![b][a] = "expired"]
    <2>1. Answers' = [Answers EXCEPT ![b][a] = "void"]
      BY <1>1, <1>5, LapsedAnswer
    <2>2. Ballot!Lapse(b, a)
      BY <1>1, <1>3, <1>5, <2>1 DEF Ballot!Lapse
    <2> QED
      BY <1>1, <2>2
  <1> QED
    BY <1>1, <1>2, <1>4, <1>5

\* Every step of ChangeApprovals is a step of the ballot, or leaves it alone.
LEMMA BallotStep ==
    ASSUME IInv, [Next]_vars
    PROVE  [Ballot!BallotNext]_<<Answers, shared>>
  <1> DEFINE Goal == [Ballot!BallotNext]_<<Answers, shared>>
  <1>1. ASSUME UNCHANGED <<request, shared>> PROVE Goal
    BY <1>1 DEF Answers
  <1>2. ASSUME NEW b \in Batches, NEW a \in Approvers,
               \/ Ballot!Ask(b, a) \/ Ballot!Lapse(b, a)
               \/ \E verdict \in Decisions : Ballot!Answer(b, a, verdict)
        PROVE  Goal
    BY <1>2 DEF Ballot!BallotNext, Decisions
  <1>3. ASSUME NEW B \in SUBSET Batches, B = Batches \/ \E b \in Batches : B = {b},
               request' = Revoked(B), shared' = shared
        PROVE  Goal
    BY <1>3, WithdrawnAnswers DEF Ballot!BallotNext
  <1>4. ASSUME NEW p \in Processes, TechnicianNext(p) PROVE Goal
    <2>1. ASSUME NEW a \in Approvers, CreateRequest(p, a) PROVE Goal
      BY <2>1, <1>2, CreateAsks
    <2>2. ASSUME Revoke(p) \/ \E b \in Batches : BeginBatch(p, b) PROVE Goal
      <3>1. request' = Revoked(Batches) /\ shared' = shared /\ Batches \in SUBSET Batches
        BY <2>2 DEF Revoke, BeginBatch
      <3> HIDE DEF Goal
      <3> QED
        BY <3>1, <1>3
    <2> HIDE DEF Goal
    <2> QED
      BY <1>4, <1>1, <2>1, <2>2
      DEF TechnicianNext, Edit, Reassign, Move, CheckRequests, Write, RequestSignOff,
          MailLink
  <1>5. ASSUME NEW p \in Processes, AnswerNext(p) PROVE Goal
    <2>1. ASSUME NEW verdict \in Decisions, Decide(p, verdict) PROVE Goal
      <3> HIDE DEF Goal
      <3> QED
        BY <2>1, <1>1, <1>2, DecideAnswers
    <2>2. ASSUME EndBatch(p) PROVE Goal
      <3>1. /\ {proc[p].batch} \in SUBSET Batches /\ proc[p].batch \in Batches
            /\ request' = Revoked({proc[p].batch}) /\ shared' = shared
        BY <2>2 DEF EndBatch, IInv, LinksAreOfWholeBatches
      <3> HIDE DEF Goal
      <3> QED
        BY <3>1, <1>3
    <2> HIDE DEF Goal
    <2> QED
      BY <1>5, <1>1, <2>1, <2>2 DEF AnswerNext, OpenLink, ReadChange, ListBatch, Apply
  <1> HIDE DEF Goal
  <1>6. Goal
    BY <1>1, <1>4, <1>5 DEF Next, Fail, Expire, vars
  <1> QED
    BY <1>6 DEF Goal

\* The detailed model implements the ballot, for every set of approvers, technicians,
\* visitors and batches, with and without a shared lock (create_change_approvals,
\* respond_to_change_approval, _postgres_decide_change_approval_request).
THEOREM BallotsImplemented == Spec => BallotsAreKept
  <1>1. Init => Ballot!BallotInit
    BY DEF Init, Answers, None, Ballot!BallotInit
  <1>2. IInv /\ [Next]_vars => [Ballot!BallotNext]_Ballot!ballotVars
    BY BallotStep DEF Ballot!ballotVars
  <1> QED
    BY <1>1, <1>2, Invariant, PTL DEF Spec, BallotsAreKept, Ballot!BallotSpec

\* What approvers have signed stands, for every set of approvers, technicians, visitors
\* and batches: approval by all of them, and answers that do not change, given to whole
\* batches.
THEOREM SignOffs == Spec => SignOffStands
  BY UnanimousApproval, FinalAnswers, BallotsImplemented DEF SignOffStands

============================================================================
