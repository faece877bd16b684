------------------------- MODULE PreviewRunsProofs -------------------------
(***************************************************************************)
(* Proofs about PreviewRuns, for every number of policies, processes, runs *)
(* and attempts and for all lease durations.                               *)
(***************************************************************************)
EXTENDS PreviewRuns, TLAPS

----------------------------------------------------------------------------
(* Types *)

LEMMA PastType == Past \in Int
  BY DEF Past

LEMMA NothingType == NoRun \in RunRow /\ NoLease \in LeaseRow /\ NoTask \in TaskRow
  BY PastType, PreviewAssumption DEF NoRun, RunRow, NoLease, LeaseRow, NoTask, TaskRow

LEMMA InitTypeOK == Init => TypeOK
  BY NothingType, PreviewAssumption DEF Init, TypeOK, ScheduleRow

\* The updates of a row that the transactions make, with any values.
Statuses == {"absent"} \cup ActiveStatuses \cup TerminalStatuses

LEMMA RowFinished ==
  ASSUME NEW x \in RunRow, NEW s \in Statuses, NEW o \in Owners \cup {None},
         NEW l \in Int
  PROVE  [x EXCEPT !.status = s, !.owner = o, !.left = l] \in RunRow
  BY DEF RunRow, Statuses

LEMMA RowClaimed ==
  ASSUME NEW x \in RunRow, NEW s \in Statuses, NEW n \in 0..MaxAttempts,
         NEW o \in Owners \cup {None}, NEW l \in Int
  PROVE  [x EXCEPT !.status = s, !.attempts = n, !.owner = o, !.left = l] \in RunRow
  BY DEF RunRow, Statuses

LEMMA RowTimed ==
  ASSUME NEW x \in RunRow, NEW l \in Int
  PROVE  [x EXCEPT !.left = l] \in RunRow
  BY DEF RunRow

LEMMA RowCancelled ==
  ASSUME NEW x \in RunRow
  PROVE  [x EXCEPT !.cancel = TRUE] \in RunRow
  BY DEF RunRow

LEMMA RowQueued ==
  ASSUME NEW p \in Policies \cup {None}, NEW t \in Triggers \cup {None}
  PROVE  [NoRun EXCEPT !.status = "queued", !.policy = p, !.trigger = t] \in RunRow
  <1>2. ASSUME NEW x \in RunRow, NEW s \in Statuses
        PROVE  [x EXCEPT !.status = s, !.policy = p, !.trigger = t] \in RunRow
    BY DEF RunRow, Statuses
  <1> QED
    BY NothingType, <1>2 DEF Statuses, ActiveStatuses

LEMMA ScheduleUpdates ==
  ASSUME NEW x \in ScheduleRow, NEW p \in {"manual", "due", "later"},
         NEW n \in 0..MaxFailures
  PROVE  [x EXCEPT !.plan = p, !.failures = n] \in ScheduleRow
  BY DEF ScheduleRow

LEMMA TaskUpdates ==
  ASSUME NEW x \in TaskRow,
         NEW h \in {"claimed", "reading", "persisting", "cancelling", "failing"},
         NEW b \in BOOLEAN
  PROVE  [x EXCEPT !.phase = h] \in TaskRow /\ [x EXCEPT !.latest = b] \in TaskRow
  BY DEF TaskRow

\* Starting and finishing a task keep the types of what they change.
LEMMA BeginTaskType ==
  ASSUME TypeOK, NEW o \in Owners, NEW kind \in {"run", "direct"},
         NEW r \in Runs \cup {None}, NEW p \in Policies \cup {None},
         NEW t \in Triggers \cup {None}, BeginTask(o, kind, r, p, t)
  PROVE  /\ task' \in [Owners -> TaskRow]
         /\ published' \in [Policies -> {"nothing", "latest", "overtaken"}]
  <1>1. [kind |-> kind, run |-> r, policy |-> p, trigger |-> t,
         phase |-> "claimed", latest |-> TRUE] \in TaskRow
    BY DEF TaskRow
  <1>2. ASSUME NEW q \in Owners PROVE [task[q] EXCEPT !.latest = FALSE] \in TaskRow
    BY TaskUpdates DEF TypeOK
  <1> QED
    BY <1>1, <1>2 DEF TypeOK, BeginTask

LEMMA FinishType ==
  ASSUME TypeOK, NEW o \in Owners, Finish(o)
  PROVE  /\ task' \in [Owners -> TaskRow]
         /\ cycle' \in [Owners -> {"off", "start", "drain", "due", "request"}]
  BY DEF TypeOK, TaskRow, NoTask, Finish

LEMMA RenewType ==
  ASSUME TypeOK, NEW o \in Owners, Renew(o)
  PROVE  run' \in [Runs -> RunRow] /\ lease' \in [Policies -> LeaseRow]
  <1>1. [run[task[o].run] EXCEPT !.left = RunLease] \in RunRow \/ task[o].run \notin Runs
    BY RowTimed, PreviewAssumption DEF TypeOK
  <1>2. [owner |-> o, left |-> RunLease] \in LeaseRow
    BY PreviewAssumption DEF LeaseRow
  <1>3. \A p \in Policies : [lease[p] EXCEPT !.left = DirectLease] \in LeaseRow
    BY PreviewAssumption DEF TypeOK, LeaseRow
  <1> QED
    BY <1>1, <1>2, <1>3 DEF TypeOK, Renew

LEMMA EndedType ==
  ASSUME TypeOK, NEW r \in Runs, NEW s \in TerminalStatuses
  PROVE  Ended(r, s) \in RunRow
  BY RowFinished, PastType DEF TypeOK, Ended, Statuses

LEMMA ClaimedType ==
  ASSUME TypeOK, NEW r \in Runs, run[r].attempts < MaxAttempts, NEW o \in Owners
  PROVE  Claimed(r, o) \in RunRow
  <1> DEFINE next == run[r].attempts + 1
  <1>1. run[r] \in RunRow /\ next \in 0..MaxAttempts
    BY PreviewAssumption DEF TypeOK, RunRow
  <1>2. "running" \in Statuses /\ RunLease \in Int
    BY PreviewAssumption DEF Statuses, ActiveStatuses
  <1> HIDE DEF next
  <1>3. [run[r] EXCEPT !.status = "running", !.attempts = next,
                       !.owner = o, !.left = RunLease] \in RunRow
    BY <1>1, <1>2, RowClaimed
  <1> QED
    BY <1>3 DEF Claimed, next

LEMMA ScheduleType ==
  ASSUME TypeOK, NEW p
  PROVE  /\ AfterSuccess(p) \in [Policies -> ScheduleRow]
         /\ AfterFailure(p) \in [Policies -> ScheduleRow]
         /\ Release(p) \in [Policies -> LeaseRow]
  <1>1. \A q \in Policies : Replanned(q) \in {"manual", "due", "later"}
    BY DEF Replanned
  <1>2. AfterSuccess(p) \in [Policies -> ScheduleRow]
    <2> DEFINE none == 0
    <2>1. none \in 0..MaxFailures
      BY PreviewAssumption
    <2> HIDE DEF none
    <2>2. \A q \in Policies : [schedule[q] EXCEPT !.plan = Replanned(q), !.failures = none]
                              \in ScheduleRow
      BY <1>1, <2>1, ScheduleUpdates DEF TypeOK
    <2> QED
      BY <2>2 DEF TypeOK, AfterSuccess, none
  <1>3. AfterFailure(p) \in [Policies -> ScheduleRow]
    <2>1. \A q \in Policies : OneMoreFailure(q) \in 0..MaxFailures
      BY PreviewAssumption DEF TypeOK, ScheduleRow, OneMoreFailure
    <2>2. \A q \in Policies :
            [schedule[q] EXCEPT !.plan = Replanned(q), !.failures = OneMoreFailure(q)]
            \in ScheduleRow
      BY <1>1, <2>1, ScheduleUpdates DEF TypeOK
    <2> QED
      BY <2>2 DEF TypeOK, AfterFailure
  <1>4. Release(p) \in [Policies -> LeaseRow]
    BY NothingType DEF TypeOK, Release
  <1> QED
    BY <1>2, <1>3, <1>4

LEMMA GivenUpType ==
  ASSUME TypeOK
  PROVE  GivenUp \in [Runs -> RunRow] /\ LeasesAfterGivingUp \in [Policies -> LeaseRow]
  <1>1. ASSUME NEW r \in Runs PROVE Ended(r, Unsuccessful(r)) \in RunRow
    BY EndedType DEF Unsuccessful, TerminalStatuses
  <1> QED
    BY <1>1, NothingType DEF TypeOK, GivenUp, LeasesAfterGivingUp

LEMMA OperatorTypeOK == TypeOK /\ OperatorNext => TypeOK'
  <1> SUFFICES ASSUME TypeOK, OperatorNext PROVE TypeOK'
    OBVIOUS
  <1>1. ASSUME NEW p \in Policies \cup {None}, NEW t \in Triggers \cup {None},
               Enqueue(p, t)
        PROVE  TypeOK'
    <2>1. [NoRun EXCEPT !.status = "queued", !.policy = p, !.trigger = t] \in RunRow
      BY RowQueued
    <2>2. ASSUME NEW r \in Runs PROVE [owner |-> r, left |-> QueuedLease] \in LeaseRow
      BY PreviewAssumption DEF LeaseRow
    <2> QED
      BY <1>1, <2>1, <2>2 DEF TypeOK, Enqueue, processVars
  <1>2. ASSUME NEW p \in Policies, QueuePreview(p) PROVE TypeOK'
    BY <1>1, <1>2 DEF QueuePreview
  <1>3. ASSUME NEW p \in Policies, NEW plan \in {"manual", "due"},
               UpdatePolicy(p, plan)
        PROVE  TypeOK'
    BY <1>3 DEF TypeOK, UpdatePolicy, ScheduleRow, processVars
  <1>4. ASSUME NEW r \in Runs, RequestCancel(r) PROVE TypeOK'
    <2>1. Ended(r, "cancelled") \in RunRow
      BY EndedType DEF TerminalStatuses
    <2>2. WithoutReservation(r) \in [Policies -> LeaseRow]
      BY ScheduleType DEF TypeOK, WithoutReservation
    <2> QED
      BY <1>4, <2>1, <2>2, RowCancelled DEF TypeOK, RequestCancel, processVars
  <1>5. ASSUME NEW r \in Runs, Retry(r) PROVE TypeOK'
    <2>1. run[r].policy \in Policies \cup {None} /\ run[r].trigger \in Triggers \cup {None}
      BY DEF TypeOK, RunRow
    <2> QED
      BY <1>1, <1>5, <2>1 DEF Retry
  <1>6. CASE ChangeLifecycle
    BY <1>6 DEF TypeOK, ChangeLifecycle, policyVars, processVars
  <1> QED
    BY <1>2, <1>3, <1>4, <1>5, <1>6 DEF OperatorNext

LEMMA ClaimTypeOK == ASSUME TypeOK, NEW o \in Owners, ClaimNext(o) PROVE TypeOK'
  <1>1. CASE StartCycle(o)
    BY <1>1 DEF TypeOK, StartCycle, policyVars
  <1>2. CASE EndCycle(o)
    BY <1>2 DEF TypeOK, EndCycle, policyVars
  <1>3. CASE ClaimRun(o)
    <2>1. cycle' \in [Owners -> {"off", "start", "drain", "due", "request"}]
      BY <1>3 DEF TypeOK, ClaimRun
    <2>2. CASE Claimable = {}
      BY <1>3, <2>1, <2>2, GivenUpType DEF TypeOK, ClaimRun
    <2>3. ASSUME NEW r \in Claimable,
                 run' = [GivenUp EXCEPT ![r] = Claimed(r, o)],
                 lease' = [LeasesAfterGivingUp EXCEPT ![run[r].policy] =
                            [owner |-> o, left |-> RunLease]],
                 BeginTask(o, "run", r, run[r].policy, run[r].trigger)
          PROVE  TypeOK'
      <3>1. r \in Runs /\ run[r].attempts < MaxAttempts
        BY DEF Claimable
      <3>2. Claimed(r, o) \in RunRow
        BY <3>1, ClaimedType
      <3>3. run' \in [Runs -> RunRow]
        BY <2>3, <3>1, <3>2, GivenUpType
      <3>4. lease' \in [Policies -> LeaseRow]
        <4>1. [owner |-> o, left |-> RunLease] \in LeaseRow
          BY PreviewAssumption DEF LeaseRow
        <4> QED
          BY <2>3, <4>1, GivenUpType
      <3>5. run[r].policy \in Policies \cup {None} /\ run[r].trigger \in Triggers \cup {None}
        BY <3>1 DEF TypeOK, RunRow
      <3>6. /\ task' \in [Owners -> TaskRow]
            /\ published' \in [Policies -> {"nothing", "latest", "overtaken"}]
        BY <2>3, <3>1, <3>5, BeginTaskType
      <3> QED
        BY <1>3, <2>1, <3>3, <3>4, <3>6 DEF TypeOK, ClaimRun
    <2> QED
      BY <1>3, <2>2, <2>3 DEF ClaimRun
  <1>4. ASSUME NEW p \in Policies, NEW t \in Triggers, LeaseDirectly(o, p, t)
        PROVE  /\ task' \in [Owners -> TaskRow]
               /\ published' \in [Policies -> {"nothing", "latest", "overtaken"}]
               /\ lease' \in [Policies -> LeaseRow]
    <2>1. [owner |-> o, left |-> DirectLease] \in LeaseRow
      BY PreviewAssumption DEF LeaseRow
    <2> QED
      BY <1>4, <2>1, BeginTaskType DEF LeaseDirectly, TypeOK
  <1>5. ASSUME NEW p \in Policies, ClaimDue(o, p) PROVE TypeOK'
    BY <1>4, <1>5, TriggerAssumption DEF ClaimDue, LeaseDirectly, TypeOK
  <1>6. ASSUME NEW p \in Policies, ClaimNow(o, p) PROVE TypeOK'
    <2>1. cycle' \in [Owners -> {"off", "start", "drain", "due", "request"}]
      BY <1>6 DEF TypeOK, ClaimNow
    <2> QED
      BY <1>4, <1>6, <2>1 DEF ClaimNow, LeaseDirectly, TypeOK
  <1> QED
    BY <1>1, <1>2, <1>3, <1>5, <1>6 DEF ClaimNext

LEMMA ExecuteTypeOK == ASSUME TypeOK, NEW o \in Owners, ExecuteNext(o) PROVE TypeOK'
  <1>1. ASSUME NEW h \in {"claimed", "reading", "persisting", "cancelling", "failing"},
               task' = [task EXCEPT ![o].phase = h]
        PROVE  task' \in [Owners -> TaskRow]
    BY <1>1, TaskUpdates DEF TypeOK
  <1>2. CASE Heartbeat(o)
    <2>1. task[o].phase \in {"claimed", "reading", "persisting"}
      BY <1>2 DEF Heartbeat, Executing
    <2> QED
      BY <1>1, <1>2, <2>1, RenewType DEF Heartbeat, TypeOK
  <1>3. CASE ReadComplete(o)
    BY <1>1, <1>3, RenewType DEF ReadComplete, TypeOK
  <1>4. CASE LeaseLost(o)
    BY <1>4, FinishType DEF LeaseLost, TypeOK, policyVars
  <1>5. CASE NoticeCancel(o)
    BY <1>1, <1>5 DEF NoticeCancel, TypeOK, policyVars
  <1>6. CASE Raise(o)
    BY <1>1, <1>6 DEF Raise, TypeOK, policyVars
  <1>7. CASE PublishRun(o)
    <2> DEFINE r == task[o].run
               p == run[r].policy
    <2>1. r \in Runs => Ended(r, "cancelled") \in RunRow /\ Ended(r, "succeeded") \in RunRow
      BY EndedType DEF TerminalStatuses
    <2>2. run' \in [Runs -> RunRow]
      BY <1>7, <2>1 DEF PublishRun, TypeOK
    <2>3. lease' \in [Policies -> LeaseRow] /\ schedule' \in [Policies -> ScheduleRow]
      BY <1>7, ScheduleType DEF PublishRun, TypeOK
    <2>4. published' \in [Policies -> {"nothing", "latest", "overtaken"}]
      BY <1>7 DEF PublishRun, PublishEvidence, TypeOK
    <2> QED
      BY <1>7, <2>2, <2>3, <2>4, FinishType DEF PublishRun, TypeOK
  <1>8. CASE RecordRunFailure(o)
    <2> DEFINE r == task[o].run
               s == IF task[o].phase = "cancelling" THEN "cancelled" ELSE Unsuccessful(r)
    <2>1. r \in Runs => Ended(r, s) \in RunRow
      BY EndedType DEF TerminalStatuses, Unsuccessful
    <2>2. run' \in [Runs -> RunRow]
      BY <1>8, <2>1 DEF RecordRunFailure, TypeOK
    <2>3. lease' \in [Policies -> LeaseRow] /\ schedule' \in [Policies -> ScheduleRow]
      BY <1>8, ScheduleType DEF RecordRunFailure, TypeOK
    <2> QED
      BY <1>8, <2>2, <2>3, FinishType DEF RecordRunFailure, TypeOK
  <1>9. CASE PublishDirect(o)
    <2>1. lease' \in [Policies -> LeaseRow] /\ schedule' \in [Policies -> ScheduleRow]
      BY <1>9, ScheduleType DEF PublishDirect, TypeOK
    <2>2. published' \in [Policies -> {"nothing", "latest", "overtaken"}]
      BY <1>9 DEF PublishDirect, PublishEvidence, TypeOK
    <2> QED
      BY <1>9, <2>1, <2>2, FinishType DEF PublishDirect, TypeOK
  <1>10. CASE RecordDirectFailure(o)
    <2>1. lease' \in [Policies -> LeaseRow] /\ schedule' \in [Policies -> ScheduleRow]
      BY <1>10, ScheduleType DEF RecordDirectFailure, TypeOK
    <2> QED
      BY <1>10, <2>1, FinishType DEF RecordDirectFailure, TypeOK
  <1>11. CASE FinishUnrecorded(o)
    <2>1. lease' \in [Policies -> LeaseRow] /\ schedule' \in [Policies -> ScheduleRow]
      BY <1>11, ScheduleType DEF FinishUnrecorded, TypeOK, policyVars
    <2> QED
      BY <1>11, <2>1, FinishType DEF FinishUnrecorded, TypeOK
  <1> QED
    BY <1>2, <1>3, <1>4, <1>5, <1>6, <1>7, <1>8, <1>9, <1>10, <1>11 DEF ExecuteNext

LEMMA ElapseType == ASSUME NEW n \in Int PROVE Elapse(n) \in Int
  BY DEF Elapse

LEMMA EnvironmentTypeOK == TypeOK /\ EnvironmentNext => TypeOK'
  <1> SUFFICES ASSUME TypeOK, EnvironmentNext PROVE TypeOK'
    OBVIOUS
  <1>1. CASE Tick
    <2>1. \A r \in Runs : [run[r] EXCEPT !.left = Elapse(@)] \in RunRow
      <3>1. \A r \in Runs : run[r] \in RunRow /\ run[r].left \in Int
        BY DEF TypeOK, RunRow
      <3> QED
        BY <3>1, ElapseType, RowTimed
    <2>2. \A p \in Policies : [lease[p] EXCEPT !.left = Elapse(@)] \in LeaseRow
      BY ElapseType DEF TypeOK, LeaseRow
    <2> QED
      BY <1>1, <2>1, <2>2 DEF Tick, TypeOK, processVars
  <1>2. ASSUME NEW p \in Policies, ComesDue(p) PROVE TypeOK'
    BY <1>2 DEF ComesDue, TypeOK, ScheduleRow, processVars
  <1>3. ASSUME NEW o \in Owners, Crash(o) PROVE TypeOK'
    BY <1>3, NothingType DEF Crash, TypeOK, policyVars
  <1> QED
    BY <1>1, <1>2, <1>3 DEF EnvironmentNext

LEMMA StepTypeOK == TypeOK /\ [Next]_vars => TypeOK'
  <1> SUFFICES ASSUME TypeOK, [Next]_vars PROVE TypeOK'
    OBVIOUS
  <1>1. CASE UNCHANGED vars
    BY <1>1 DEF vars, TypeOK
  <1>2. CASE OperatorNext
    BY <1>2, OperatorTypeOK
  <1>3. ASSUME NEW o \in Owners, ClaimNext(o) \/ ExecuteNext(o) PROVE TypeOK'
    BY <1>3, ClaimTypeOK, ExecuteTypeOK
  <1>4. CASE EnvironmentNext
    BY <1>4, EnvironmentTypeOK
  <1> QED
    BY <1>1, <1>2, <1>3, <1>4 DEF Next

\* Every variable keeps its type, whatever the number of policies, processes
\* and runs.
THEOREM TypeCorrect == Spec => []TypeOK
  BY InitTypeOK, StepTypeOK, PTL DEF Spec

----------------------------------------------------------------------------
(* Rows and leases *)

RowInv == OneActiveRun /\ LeaseFollowsRun /\ NoOrphanReservation /\ RowsWellFormed

TaskInv == TasksWellFormed /\ HolderIsLatest

LEMMA EndedFields ==
  ASSUME TypeOK, NEW r \in Runs, NEW s
  PROVE  /\ Ended(r, s).status = s
         /\ Ended(r, s).policy = run[r].policy
         /\ Ended(r, s).trigger = run[r].trigger
         /\ Ended(r, s).cancel = run[r].cancel
         /\ Ended(r, s).owner = None /\ Ended(r, s).left = Past
  BY DEF TypeOK, RunRow, Ended

LEMMA ClaimedFields ==
  ASSUME TypeOK, NEW r \in Runs, NEW o
  PROVE  /\ Claimed(r, o).status = "running"
         /\ Claimed(r, o).policy = run[r].policy
         /\ Claimed(r, o).trigger = run[r].trigger
         /\ Claimed(r, o).cancel = run[r].cancel
         /\ Claimed(r, o).owner = o /\ Claimed(r, o).left = RunLease
  <1> DEFINE next == run[r].attempts + 1
  <1> HIDE DEF next
  <1> DEFINE x == [run[r] EXCEPT !.status = "running", !.attempts = next,
                                 !.owner = o, !.left = RunLease]
  <1>1. /\ x.status = "running" /\ x.policy = run[r].policy
        /\ x.trigger = run[r].trigger /\ x.cancel = run[r].cancel
        /\ x.owner = o /\ x.left = RunLease
    BY DEF TypeOK, RunRow
  <1> QED
    BY <1>1 DEF Claimed, next

\* A row that ends releases its policy, and no other row is touched.
LEMMA RowEnds ==
  ASSUME TypeOK, RowInv, NEW r \in Runs, IsActive(r), NEW s \in TerminalStatuses,
         run'[r].status = s, run'[r].policy = run[r].policy,
         run'[r].trigger = run[r].trigger,
         run'[r].owner = None, run'[r].left = Past,
         \A q \in Runs \ {r} : run'[q] = run[q],
         lease' = Release(run[r].policy)
  PROVE  RowInv'
  <1>1. ~IsActive(r)'
    BY DEF IsActive, ActiveStatuses, TerminalStatuses
  <1>2. \A q \in Runs \ {r} : IsActive(q)' = IsActive(q)
    BY DEF IsActive
  <1>3. OneActiveRun'
    BY <1>1, <1>2 DEF RowInv, OneActiveRun
  <1>4. run[r].policy \in Policies
    BY DEF RowInv, RowsWellFormed, IsActive, ActiveStatuses
  <1>5. ASSUME NEW q \in Runs, IsActive(q)' 
        PROVE  q # r /\ IsActive(q) /\ run[q].policy # run[r].policy
    BY <1>1, <1>2, <1>5 DEF RowInv, OneActiveRun
  <1>6. LeaseFollowsRun'
    BY <1>5, <1>4 DEF RowInv, LeaseFollowsRun, PolicyOwnerOf, Release, TypeOK
  <1>7. NoOrphanReservation'
    <2> SUFFICES ASSUME NEW p \in Policies, lease'[p].owner \in Runs
                 PROVE  run'[lease'[p].owner].status = "queued"
                        /\ run'[lease'[p].owner].policy = p
      BY DEF NoOrphanReservation
    <2>1. p # run[r].policy /\ lease'[p] = lease[p]
      BY PreviewAssumption, <1>4 DEF Release, NoLease, TypeOK
    <2>2. run[lease[p].owner].status = "queued" /\ run[lease[p].owner].policy = p
      BY <2>1 DEF RowInv, NoOrphanReservation
    <2>3. lease[p].owner # r
      BY <2>1, <2>2
    <2> QED
      BY <2>1, <2>2, <2>3
  <1>8. RowsWellFormed'
    BY DEF RowInv, RowsWellFormed, TerminalStatuses, IsActive, ActiveStatuses
  <1> QED
    BY <1>3, <1>6, <1>7, <1>8 DEF RowInv

\* A policy that has no active run changes hands between processes.
LEMMA FreePolicyChanges ==
  ASSUME TypeOK, RowInv, NEW p \in Policies, ~HasActiveRun(p), run' = run,
         NEW l \in LeaseRow, l.owner \notin Runs, lease' = [lease EXCEPT ![p] = l]
  PROVE  RowInv'
  <1>1. \A q \in Runs : IsActive(q)' = IsActive(q) /\ PolicyOwnerOf(q)' = PolicyOwnerOf(q)
    BY DEF IsActive, PolicyOwnerOf
  <1>2. OneActiveRun' /\ RowsWellFormed'
    BY <1>1 DEF RowInv, OneActiveRun, RowsWellFormed
  <1>3. LeaseFollowsRun'
    BY <1>1 DEF RowInv, LeaseFollowsRun, HasActiveRun, TypeOK
  <1>4. NoOrphanReservation'
    BY DEF RowInv, NoOrphanReservation, TypeOK
  <1> QED
    BY <1>2, <1>3, <1>4 DEF RowInv

LEMMA EnqueueRows ==
  ASSUME TypeOK, RowInv, NEW p \in Policies, NEW t \in Triggers, Enqueue(p, t)
  PROVE  RowInv'
  <1>1. PICK r \in Runs :
          /\ run[r].status = "absent"
          /\ run' = [run EXCEPT ![r] = [NoRun EXCEPT !.status = "queued",
                                          !.policy = p, !.trigger = t]]
          /\ lease' = [lease EXCEPT ![p] = [owner |-> r, left |-> QueuedLease]]
    BY DEF Enqueue
  <1>2. /\ run'[r].status = "queued" /\ run'[r].policy = p /\ run'[r].trigger = t
        /\ run'[r].owner = None /\ run'[r].left = Past /\ run'[r].cancel = FALSE
    BY <1>1 DEF TypeOK, NoRun
  <1>3. \A q \in Runs \ {r} : run'[q] = run[q] /\ IsActive(q)' = IsActive(q)
    BY <1>1 DEF TypeOK, IsActive
  <1>4. IsActive(r)' /\ ~IsActive(r)
    BY <1>1, <1>2 DEF IsActive, ActiveStatuses
  <1>5. \A q \in Runs : IsActive(q) => q # r /\ run[q].policy # p
    BY <1>4 DEF Enqueue, HasActiveRun
  <1>6. OneActiveRun'
    BY <1>2, <1>3, <1>5 DEF RowInv, OneActiveRun
  <1>7. lease'[p].owner = r /\ \A q \in Policies \ {p} : lease'[q] = lease[q]
    BY <1>1 DEF TypeOK
  <1>8. LeaseFollowsRun'
    <2> SUFFICES ASSUME NEW q \in Runs, IsActive(q)'
                 PROVE  /\ lease'[run'[q].policy].owner = PolicyOwnerOf(q)'
                        /\ run'[q].status = "running" =>
                              lease'[run'[q].policy].left = run'[q].left
      BY DEF LeaseFollowsRun
    <2>1. CASE q = r
      BY <1>2, <1>7, <2>1 DEF PolicyOwnerOf
    <2>2. CASE q # r
      <3>1. IsActive(q) /\ run'[q] = run[q] /\ run[q].policy \in Policies \ {p}
        BY <1>3, <1>5, <2>2 DEF RowInv, RowsWellFormed, IsActive, ActiveStatuses
      <3> QED
        BY <1>7, <3>1 DEF RowInv, LeaseFollowsRun, PolicyOwnerOf
    <2> QED
      BY <2>1, <2>2
  <1>9. NoOrphanReservation'
    BY <1>1, <1>2, <1>3, <1>7 DEF RowInv, NoOrphanReservation
  <1>10. RowsWellFormed'
    BY <1>2, <1>3 DEF RowInv, RowsWellFormed
  <1> QED
    BY <1>6, <1>8, <1>9, <1>10 DEF RowInv

LEMMA FlagRows ==
  ASSUME TypeOK, RowInv, NEW r \in Runs, run[r].status = "running",
         run' = [run EXCEPT ![r].cancel = TRUE], lease' = lease
  PROVE  RowInv'
  <1>1. \A q \in Runs :
          /\ run'[q].status = run[q].status /\ run'[q].policy = run[q].policy
          /\ run'[q].trigger = run[q].trigger
          /\ run'[q].owner = run[q].owner /\ run'[q].left = run[q].left
          /\ q # r => run'[q] = run[q]
    BY DEF TypeOK, RunRow
  <1>2. \A q \in Runs : IsActive(q)' = IsActive(q) /\ PolicyOwnerOf(q)' = PolicyOwnerOf(q)
    BY <1>1 DEF IsActive, PolicyOwnerOf
  <1>3. OneActiveRun' /\ LeaseFollowsRun' /\ NoOrphanReservation'
    BY <1>1, <1>2 DEF RowInv, OneActiveRun, LeaseFollowsRun, NoOrphanReservation
  <1>4. RowsWellFormed'
    BY <1>1 DEF RowInv, RowsWellFormed
  <1> QED
    BY <1>3, <1>4 DEF RowInv

\* The owner of a running row renews its lease and that of its policy.
LEMMA RenewRows ==
  ASSUME TypeOK, RowInv, NEW o \in Owners, NEW r \in Runs,
         run[r].status = "running", run[r].owner = o,
         run' = [run EXCEPT ![r].left = RunLease],
         lease' = [lease EXCEPT ![run[r].policy] = [owner |-> o, left |-> RunLease]]
  PROVE  RowInv'
  <1>1. /\ \A q \in Runs :
             /\ run'[q].status = run[q].status /\ run'[q].policy = run[q].policy
             /\ run'[q].trigger = run[q].trigger /\ run'[q].cancel = run[q].cancel
             /\ run'[q].owner = run[q].owner
             /\ q # r => run'[q] = run[q]
        /\ run'[r].left = RunLease
    BY DEF TypeOK, RunRow
  <1>2. \A q \in Runs : IsActive(q)' = IsActive(q) /\ PolicyOwnerOf(q)' = PolicyOwnerOf(q)
    BY <1>1 DEF IsActive, PolicyOwnerOf
  <1>3. IsActive(r) /\ run[r].policy \in Policies
    BY DEF RowInv, RowsWellFormed, IsActive, ActiveStatuses
  <1>4. /\ lease'[run[r].policy].owner = o /\ lease'[run[r].policy].left = RunLease
        /\ \A p \in Policies \ {run[r].policy} : lease'[p] = lease[p]
    BY <1>3 DEF TypeOK
  <1>5. OneActiveRun'
    BY <1>1, <1>2 DEF RowInv, OneActiveRun
  <1>6. LeaseFollowsRun'
    <2> SUFFICES ASSUME NEW q \in Runs, IsActive(q)
                 PROVE  /\ lease'[run[q].policy].owner = PolicyOwnerOf(q)
                        /\ run[q].status = "running" =>
                              lease'[run[q].policy].left = run'[q].left
      BY <1>1, <1>2 DEF LeaseFollowsRun
    <2>1. CASE q = r
      BY <1>1, <1>4, <2>1 DEF PolicyOwnerOf
    <2>2. CASE q # r
      <3>1. run[q].policy \in Policies \ {run[r].policy}
        BY <1>3, <2>2 DEF RowInv, OneActiveRun, RowsWellFormed, IsActive, ActiveStatuses
      <3> QED
        BY <1>1, <1>4, <2>2, <3>1 DEF RowInv, LeaseFollowsRun
    <2> QED
      BY <2>1, <2>2
  <1>7. NoOrphanReservation'
    BY <1>1, <1>4, PreviewAssumption DEF RowInv, NoOrphanReservation
  <1>8. RowsWellFormed'
    BY <1>1 DEF RowInv, RowsWellFormed
  <1> QED
    BY <1>5, <1>6, <1>7, <1>8 DEF RowInv

\* Time passes for a running row and for its policy alike.
LEMMA TickRows ==
  ASSUME TypeOK, RowInv, Tick
  PROVE  RowInv'
  <1>1. \A q \in Runs :
          /\ run'[q].status = run[q].status /\ run'[q].policy = run[q].policy
          /\ run'[q].trigger = run[q].trigger /\ run'[q].cancel = run[q].cancel
          /\ run'[q].owner = run[q].owner
          /\ run'[q].left = Elapse(run[q].left)
    BY DEF Tick, TypeOK, RunRow
  <1>2. \A p \in Policies : /\ lease'[p].owner = lease[p].owner
                            /\ lease'[p].left = Elapse(lease[p].left)
    BY DEF Tick, TypeOK, LeaseRow
  <1>3. \A q \in Runs : IsActive(q)' = IsActive(q) /\ PolicyOwnerOf(q)' = PolicyOwnerOf(q)
    BY <1>1 DEF IsActive, PolicyOwnerOf
  <1>4. \A q \in Runs : IsActive(q) => run[q].policy \in Policies
    BY DEF RowInv, RowsWellFormed, IsActive, ActiveStatuses
  <1>5. OneActiveRun' /\ NoOrphanReservation'
    BY <1>1, <1>2, <1>3 DEF RowInv, OneActiveRun, NoOrphanReservation
  <1>6. LeaseFollowsRun'
    BY <1>1, <1>2, <1>3, <1>4 DEF RowInv, LeaseFollowsRun
  <1>7. Elapse(Past) = Past
    BY DEF Elapse, Past
  <1>8. RowsWellFormed'
    BY <1>1, <1>7 DEF RowInv, RowsWellFormed
  <1> QED
    BY <1>5, <1>6, <1>8 DEF RowInv

\* What giving up the exhausted rows does, to rows and to leases.
LEMMA GivingUp ==
  ASSUME TypeOK, RowInv
  PROVE  /\ \A q \in Exhausted :
              /\ q \in Runs /\ IsActive(q)
              /\ GivenUp[q].status \in TerminalStatuses
              /\ GivenUp[q].policy = run[q].policy /\ GivenUp[q].trigger = run[q].trigger
              /\ GivenUp[q].cancel = run[q].cancel
              /\ GivenUp[q].owner = None /\ GivenUp[q].left = Past
              /\ LeasesAfterGivingUp[run[q].policy] = NoLease
         /\ \A q \in Runs \ Exhausted : GivenUp[q] = run[q]
         /\ \A q \in Runs \ Exhausted :
              IsActive(q) => LeasesAfterGivingUp[run[q].policy] = lease[run[q].policy]
         /\ \A p \in Policies :
              \/ LeasesAfterGivingUp[p] = lease[p]
              \/ LeasesAfterGivingUp[p] = NoLease
  <1>1. ASSUME NEW q \in Exhausted
        PROVE  /\ q \in Runs /\ IsActive(q) /\ run[q].policy \in Policies
               /\ lease[run[q].policy].owner = PolicyOwnerOf(q)
    <2>1. q \in Runs /\ IsActive(q)
      BY DEF Exhausted, Waiting, IsActive, ActiveStatuses
    <2>2. run[q].status # "absent"
      BY <2>1 DEF IsActive, ActiveStatuses
    <2> QED
      BY <2>1, <2>2 DEF RowInv, RowsWellFormed, LeaseFollowsRun
  <1>2. ASSUME NEW q \in Exhausted
        PROVE  /\ GivenUp[q].status \in TerminalStatuses
               /\ GivenUp[q].policy = run[q].policy /\ GivenUp[q].trigger = run[q].trigger
               /\ GivenUp[q].cancel = run[q].cancel
               /\ GivenUp[q].owner = None /\ GivenUp[q].left = Past
    <2>1. GivenUp[q] = Ended(q, Unsuccessful(q)) /\ Unsuccessful(q) \in TerminalStatuses
      BY <1>1 DEF GivenUp, Unsuccessful, TerminalStatuses
    <2> QED
      BY <1>1, <2>1, EndedFields
  <1>3. ASSUME NEW q \in Exhausted
        PROVE  LeasesAfterGivingUp[run[q].policy] = NoLease
    BY <1>1 DEF LeasesAfterGivingUp
  <1>4. ASSUME NEW q \in Runs \ Exhausted, IsActive(q)
        PROVE  LeasesAfterGivingUp[run[q].policy] = lease[run[q].policy]
    <2>1. run[q].policy \in Policies
      BY <1>4 DEF RowInv, RowsWellFormed, IsActive, ActiveStatuses
    <2>2. \A x \in Exhausted : run[x].policy # run[q].policy
      BY <1>1, <1>4 DEF RowInv, OneActiveRun
    <2> QED
      BY <2>1, <2>2 DEF LeasesAfterGivingUp
  <1>5. \A q \in Runs \ Exhausted : GivenUp[q] = run[q]
    BY DEF GivenUp
  <1>6. \A p \in Policies : \/ LeasesAfterGivingUp[p] = lease[p]
                            \/ LeasesAfterGivingUp[p] = NoLease
    BY DEF LeasesAfterGivingUp
  <1> QED
    BY <1>1, <1>2, <1>3, <1>4, <1>5, <1>6

LEMMA GiveUpRows ==
  ASSUME TypeOK, RowInv, run' = GivenUp, lease' = LeasesAfterGivingUp
  PROVE  RowInv'
  <1>1. \A q \in Runs : /\ run'[q].policy = run[q].policy
                        /\ IsActive(q)' => IsActive(q) /\ q \notin Exhausted
                                            /\ run'[q] = run[q]
    BY GivingUp DEF IsActive, ActiveStatuses, TerminalStatuses
  <1>2. OneActiveRun'
    BY <1>1 DEF RowInv, OneActiveRun
  <1>3. LeaseFollowsRun'
    BY <1>1, GivingUp DEF RowInv, LeaseFollowsRun, PolicyOwnerOf
  <1>4. NoOrphanReservation'
    <2> SUFFICES ASSUME NEW p \in Policies, lease'[p].owner \in Runs
                 PROVE  run'[lease'[p].owner].status = "queued"
                        /\ run'[lease'[p].owner].policy = p
      BY DEF NoOrphanReservation
    <2>1. lease'[p] = lease[p] /\ lease[p].owner \in Runs
      BY GivingUp, PreviewAssumption DEF NoLease
    <2>2. run[lease[p].owner].status = "queued" /\ run[lease[p].owner].policy = p
      BY <2>1 DEF RowInv, NoOrphanReservation
    <2>3. lease[p].owner \notin Exhausted
      BY <2>1, <2>2, GivingUp, PreviewAssumption DEF NoLease
    <2> QED
      BY <2>1, <2>2, <2>3, GivingUp
  <1>5. RowsWellFormed'
    BY GivingUp DEF RowInv, RowsWellFormed, TerminalStatuses, IsActive, ActiveStatuses
  <1> QED
    BY <1>2, <1>3, <1>4, <1>5 DEF RowInv

\* What claiming row r does: the row and its policy are owner o's, the other rows
\* stay or end, the other leases stay or are released.
RunClaimed(o, r) ==
  /\ r \in Runs /\ IsActive(r) /\ run[r].policy \in Policies
  /\ run'[r].owner = o /\ run'[r].policy = run[r].policy
  /\ run'[r].status = "running"
  /\ \A q \in Runs \ {r} :
       /\ run'[q].policy = run[q].policy
       /\ run'[q].status # "absent" <=> run[q].status # "absent"
       /\ IsActive(q)' => IsActive(q) /\ run'[q] = run[q]
  /\ \A p \in Policies \ {run[r].policy} :
       lease'[p] = lease[p] \/ lease'[p] = NoLease
  /\ lease'[run[r].policy].owner = o

LEMMA ClaimRows ==
  ASSUME TypeOK, RowInv, NEW o \in Owners, NEW r \in Claimable,
         run' = [GivenUp EXCEPT ![r] = Claimed(r, o)],
         lease' = [LeasesAfterGivingUp EXCEPT ![run[r].policy] =
                     [owner |-> o, left |-> RunLease]]
  PROVE  RowInv' /\ RunClaimed(o, r)
  <1>1. r \in Runs /\ r \notin Exhausted /\ IsActive(r)
    <2>1. run[r].attempts \in Int /\ MaxAttempts \in Int
      BY PreviewAssumption DEF Claimable, TypeOK, RunRow
    <2> QED
      BY <2>1 DEF Claimable, Exhausted, Waiting, IsActive, ActiveStatuses
  <1>2. run[r].policy \in Policies /\ run[r].trigger \in Triggers
    BY <1>1 DEF RowInv, RowsWellFormed, IsActive, ActiveStatuses
  <1>3. /\ run'[r].status = "running" /\ run'[r].policy = run[r].policy
        /\ run'[r].trigger = run[r].trigger
        /\ run'[r].owner = o /\ run'[r].left = RunLease
        /\ \A q \in Runs \ {r} : run'[q] = GivenUp[q]
    BY <1>1, ClaimedFields, GivenUpType
  <1>4. /\ lease'[run[r].policy].owner = o /\ lease'[run[r].policy].left = RunLease
        /\ \A p \in Policies \ {run[r].policy} : lease'[p] = LeasesAfterGivingUp[p]
    BY <1>2, GivenUpType
  <1>5. \A q \in Runs \ {r} :
          /\ run'[q].policy = run[q].policy
          /\ run'[q].status # "absent" <=> run[q].status # "absent"
          /\ IsActive(q)' => IsActive(q) /\ run'[q] = run[q] /\ q \notin Exhausted
    BY <1>3, GivingUp DEF IsActive, ActiveStatuses, TerminalStatuses
  <1>6. OneActiveRun'
    BY <1>1, <1>3, <1>5 DEF RowInv, OneActiveRun
  <1>7. LeaseFollowsRun'
    <2> SUFFICES ASSUME NEW q \in Runs, IsActive(q)'
                 PROVE  /\ lease'[run'[q].policy].owner = PolicyOwnerOf(q)'
                        /\ run'[q].status = "running" =>
                              lease'[run'[q].policy].left = run'[q].left
      BY DEF LeaseFollowsRun
    <2>1. CASE q = r
      BY <1>3, <1>4, <2>1 DEF PolicyOwnerOf
    <2>2. CASE q # r
      <3>1. IsActive(q) /\ run'[q] = run[q] /\ q \notin Exhausted
        BY <1>5, <2>2
      <3>2. run[q].policy \in Policies \ {run[r].policy}
        BY <1>1, <2>2, <3>1
           DEF RowInv, OneActiveRun, RowsWellFormed, IsActive, ActiveStatuses
      <3>3. lease'[run[q].policy] = lease[run[q].policy]
        BY <1>4, <3>1, <3>2, GivingUp
      <3> QED
        BY <3>1, <3>3 DEF RowInv, LeaseFollowsRun, PolicyOwnerOf
    <2> QED
      BY <2>1, <2>2
  <1>8. NoOrphanReservation'
    <2> SUFFICES ASSUME NEW p \in Policies, lease'[p].owner \in Runs
                 PROVE  run'[lease'[p].owner].status = "queued"
                        /\ run'[lease'[p].owner].policy = p
      BY DEF NoOrphanReservation
    <2>1. p # run[r].policy
      BY <1>4, PreviewAssumption
    <2>2. /\ LeasesAfterGivingUp[p] = lease[p] /\ lease'[p] = lease[p]
          /\ lease[p].owner \in Runs /\ lease[p] # NoLease
      BY <1>4, <2>1, GivingUp, PreviewAssumption DEF NoLease
    <2>3. run[lease[p].owner].status = "queued" /\ run[lease[p].owner].policy = p
      BY <2>2 DEF RowInv, NoOrphanReservation
    <2>4. lease[p].owner \notin Exhausted /\ lease[p].owner # r
      BY <2>1, <2>2, <2>3, GivingUp
    <2> QED
      BY <1>3, <2>2, <2>3, <2>4, GivingUp
  <1>9. RowsWellFormed'
    <2> SUFFICES ASSUME NEW q \in Runs
                 PROVE  /\ run'[q].status # "absent" =>
                             run'[q].policy \in Policies /\ run'[q].trigger \in Triggers
                        /\ IF run'[q].status = "running" THEN run'[q].owner \in Owners
                           ELSE run'[q].owner = None /\ run'[q].left = Past
                        /\ run'[q].status \in {"absent", "queued"} => ~run'[q].cancel
      BY DEF RowsWellFormed
    <2>1. CASE q = r
      BY <1>2, <1>3, <2>1
    <2>2. CASE q \in Exhausted
      BY <1>1, <1>3, <2>2, GivingUp
         DEF RowInv, RowsWellFormed, TerminalStatuses, IsActive, ActiveStatuses
    <2>3. CASE q # r /\ q \notin Exhausted
      BY <1>3, <2>3, GivingUp DEF RowInv, RowsWellFormed
    <2> QED
      BY <2>1, <2>2, <2>3
  <1> QED
    BY <1>1, <1>2, <1>3, <1>4, <1>5, <1>6, <1>7, <1>8, <1>9, GivingUp
       DEF RowInv, RunClaimed

----------------------------------------------------------------------------
(* Tasks *)

\* A step that grants no claim: tasks go on or are dropped, running rows keep
\* their owner or stop running, leases keep their owner or lose it to a row.
LEMMA TasksGoOn ==
  ASSUME TypeOK, TaskInv,
         \A o \in Owners :
            \/ /\ task'[o].kind = task[o].kind /\ task'[o].run = task[o].run
               /\ task'[o].policy = task[o].policy /\ task'[o].latest = task[o].latest
               /\ task[o] = NoTask => task'[o] = NoTask
               /\ ~Idle(o) => cycle'[o] # "off"
            \/ task'[o] = NoTask,
         \A r \in Runs : run[r].status # "absent" =>
            run'[r].status # "absent" /\ run'[r].policy = run[r].policy,
         \A r \in Runs : run'[r].status = "running" =>
            run[r].status = "running" /\ run'[r].owner = run[r].owner,
         \A p \in Policies : lease'[p].owner \in Owners =>
            /\ lease'[p].owner = lease[p].owner
            /\ HasActiveRun(p)' => HasActiveRun(p),
         \A o \in Owners : task'[o].latest =>
            published'[task[o].policy] \in {"nothing", published[task[o].policy]}
  PROVE  TaskInv'
  <1> USE DEF TaskInv
  <1>1. NoTask.kind = "idle" /\ NoTask.latest = FALSE
    BY DEF NoTask
  <1>2. TasksWellFormed'
    <2> SUFFICES ASSUME NEW o \in Owners
                 PROVE  /\ cycle'[o] = "off" => Idle(o)'
                        /\ IF Idle(o)' THEN task'[o] = NoTask
                           ELSE task'[o].policy \in Policies
                        /\ task'[o].kind = "run" =>
                              /\ task'[o].run \in Runs
                              /\ run'[task'[o].run].status # "absent"
                              /\ run'[task'[o].run].policy = task'[o].policy
                        /\ task'[o].latest =>
                              /\ published'[task'[o].policy] = "nothing"
                              /\ \A q \in Owners : task'[q].latest
                                   /\ task'[q].policy = task'[o].policy => q = o
      BY DEF TasksWellFormed
    <2>1. CASE task'[o] = NoTask
      BY <1>1, <2>1 DEF Idle
    <2>2. CASE task'[o] # NoTask
      <3>1. /\ task'[o].kind = task[o].kind /\ task'[o].run = task[o].run
            /\ task'[o].policy = task[o].policy /\ task'[o].latest = task[o].latest
            /\ task[o] # NoTask /\ (~Idle(o) => cycle'[o] # "off")
        BY <2>2
      <3>2. ~Idle(o) /\ ~Idle(o)' /\ cycle'[o] # "off" /\ task'[o].policy \in Policies
        BY <3>1 DEF TasksWellFormed, Idle
      <3>3. task'[o].kind = "run" => /\ task'[o].run \in Runs
                                     /\ run'[task'[o].run].status # "absent"
                                     /\ run'[task'[o].run].policy = task'[o].policy
        <4>1. task[o].kind = "run" => /\ task[o].run \in Runs
                                      /\ run[task[o].run].status # "absent"
                                      /\ run[task[o].run].policy = task[o].policy
          BY DEF TasksWellFormed
        <4> QED
          BY <3>1, <4>1
      <3>4. ASSUME task'[o].latest
            PROVE  published'[task'[o].policy] = "nothing"
        <4>1. published[task[o].policy] = "nothing"
          BY <3>1, <3>4 DEF TasksWellFormed
        <4>2. published'[task[o].policy] \in {"nothing", published[task[o].policy]}
          BY <3>4
        <4> QED
          BY <3>1, <4>1, <4>2
      <3>5. ASSUME task'[o].latest, NEW q \in Owners, task'[q].latest,
                   task'[q].policy = task'[o].policy
            PROVE  q = o
        <4>1. task[q].latest /\ task[q].policy = task[o].policy
          BY <1>1, <3>1, <3>5
        <4> QED
          BY <3>1, <3>5, <4>1 DEF TasksWellFormed
      <3> QED
        BY <3>2, <3>3, <3>4, <3>5
    <2> QED
      BY <2>1, <2>2
  <1>3. HolderIsLatest'
    <2> SUFFICES ASSUME NEW o \in Owners, task'[o] # NoTask
                 PROVE  /\ /\ task'[o].kind = "run"
                           /\ run'[task'[o].run].status = "running"
                           /\ run'[task'[o].run].owner = o
                           => task'[o].latest
                        /\ task'[o].kind = "direct" /\ lease'[task'[o].policy].owner = o =>
                             task'[o].latest /\ ~HasActiveRun(task[o].policy)'
      BY <1>1 DEF HolderIsLatest
    <2>1. /\ task'[o].kind = task[o].kind /\ task'[o].run = task[o].run
          /\ task'[o].policy = task[o].policy /\ task'[o].latest = task[o].latest
      OBVIOUS
    <2>2. task[o].kind = "run" => task[o].run \in Runs
      BY DEF TasksWellFormed
    <2>3. task[o].kind = "direct" => task[o].policy \in Policies
      BY DEF TasksWellFormed, Idle
    <2> QED
      BY <2>1, <2>2, <2>3 DEF HolderIsLatest
  <1> QED
    BY <1>2, <1>3

\* The tasks after BeginTask, field by field.
Begun(o, kind, r, p) ==
  /\ task'[o].kind = kind /\ task'[o].run = r /\ task'[o].policy = p
  /\ task'[o].latest
  /\ \A q \in Owners \ {o} :
       /\ task'[q].kind = task[q].kind /\ task'[q].run = task[q].run
       /\ task'[q].policy = task[q].policy
       /\ task'[q].latest => task[q].latest /\ task[q].policy # p
       /\ task[q].policy # p => task'[q] = task[q]
  /\ published'[p] = "nothing"
  /\ \A x \in Policies \ {p} : published'[x] = published[x]

LEMMA BeginTaskFields ==
  ASSUME TypeOK, NEW o \in Owners, NEW kind, NEW r, NEW p \in Policies, NEW t,
         BeginTask(o, kind, r, p, t)
  PROVE  Begun(o, kind, r, p)
  <1>1. \A q \in Owners : [task[q] EXCEPT !.latest = FALSE].kind = task[q].kind
                         /\ [task[q] EXCEPT !.latest = FALSE].run = task[q].run
                         /\ [task[q] EXCEPT !.latest = FALSE].policy = task[q].policy
                         /\ [task[q] EXCEPT !.latest = FALSE].latest = FALSE
    BY DEF TypeOK, TaskRow
  <1>2. \A q \in Owners \ {o} :
           task'[q] = IF task[q].policy = p THEN [task[q] EXCEPT !.latest = FALSE]
                      ELSE task[q]
    BY DEF BeginTask
  <1>3. \A q \in Owners : task[q].latest \in BOOLEAN
    BY DEF TypeOK, TaskRow
  <1>4. task'[o] = [kind |-> kind, run |-> r, policy |-> p, trigger |-> t,
                    phase |-> "claimed", latest |-> TRUE]
    BY DEF BeginTask
  <1>5. published' = [published EXCEPT ![p] = "nothing"]
    BY DEF BeginTask
  <1>6. /\ published'[p] = "nothing"
        /\ \A x \in Policies \ {p} : published'[x] = published[x]
    BY <1>5 DEF TypeOK
  <1>7. ASSUME NEW q \in Owners \ {o}
        PROVE  /\ task'[q].kind = task[q].kind /\ task'[q].run = task[q].run
               /\ task'[q].policy = task[q].policy
               /\ task'[q].latest => task[q].latest /\ task[q].policy # p
               /\ task[q].policy # p => task'[q] = task[q]
    <2>1. CASE task[q].policy = p
      BY <1>1, <1>2, <2>1
    <2>2. CASE task[q].policy # p
      BY <1>2, <1>3, <2>2
    <2> QED
      BY <2>1, <2>2
  <1> QED
    BY <1>4, <1>6, <1>7 DEF Begun

\* A step that grants a claim on policy p: the claim is the latest one, and any
\* earlier claim on p no longer is.
LEMMA ClaimTasks ==
  ASSUME TypeOK, TaskInv, NEW o \in Owners, NEW kind \in {"run", "direct"},
         NEW r, NEW p \in Policies, NEW t, BeginTask(o, kind, r, p, t),
         Idle(o), cycle'[o] # "off",
         \A q \in Owners \ {o} : cycle'[q] = cycle[q],
         \A x \in Runs : run[x].status # "absent" =>
            run'[x].status # "absent" /\ run'[x].policy = run[x].policy,
         kind = "run" => /\ r \in Runs /\ run'[r].status = "running"
                         /\ run'[r].policy = p /\ run'[r].owner = o,
         \A x \in Runs : run'[x].status = "running" /\ (kind = "run" => x # r) =>
            /\ run[x].status = "running" /\ run'[x].owner = run[x].owner
            /\ run'[x].policy # p,
         kind = "direct" => ~HasActiveRun(p)',
         lease'[p].owner = o,
         \A x \in Policies \ {p} :
            /\ lease'[x].owner \in Owners => lease'[x].owner = lease[x].owner
            /\ HasActiveRun(x)' => HasActiveRun(x)
  PROVE  TaskInv'
  <1> USE DEF TaskInv
  <1> DEFINE same(q) == /\ task'[q].kind = task[q].kind /\ task'[q].run = task[q].run
                        /\ task'[q].policy = task[q].policy
                        /\ task'[q].latest => task[q].latest /\ task[q].policy # p
                        /\ task[q].policy # p => task'[q] = task[q]
  <1>0. /\ task'[o].kind = kind /\ task'[o].run = r /\ task'[o].policy = p
        /\ task'[o].latest
        /\ \A q \in Owners \ {o} : same(q)
        /\ published'[p] = "nothing"
        /\ \A x \in Policies \ {p} : published'[x] = published[x]
    <2>1. Begun(o, kind, r, p)
      BY BeginTaskFields
    <2> QED
      BY <2>1 DEF Begun
  <1>1. /\ task'[o].kind = kind /\ task'[o].run = r /\ task'[o].policy = p
        /\ task'[o].latest /\ ~Idle(o)'
        /\ published'[p] = "nothing"
        /\ \A x \in Policies \ {p} : published'[x] = published[x]
    BY <1>0 DEF Idle
  <1>2. \A q \in Owners \ {o} : same(q)
    BY <1>0
  <1>3. NoTask.policy = None
    BY DEF NoTask
  <1>4. TasksWellFormed'
    <2> SUFFICES ASSUME NEW q \in Owners
                 PROVE  /\ cycle'[q] = "off" => Idle(q)'
                        /\ IF Idle(q)' THEN task'[q] = NoTask
                           ELSE task'[q].policy \in Policies
                        /\ task'[q].kind = "run" =>
                              /\ task'[q].run \in Runs
                              /\ run'[task'[q].run].status # "absent"
                              /\ run'[task'[q].run].policy = task'[q].policy
                        /\ task'[q].latest =>
                              /\ published'[task'[q].policy] = "nothing"
                              /\ \A x \in Owners : task'[x].latest
                                   /\ task'[x].policy = task'[q].policy => x = q
      BY DEF TasksWellFormed
    <2>1. CASE q = o
      BY <1>1, <1>2, <2>1
    <2>2. CASE q # o
      <3>1. same(q) /\ (Idle(q)' <=> Idle(q)) /\ cycle'[q] = cycle[q]
        BY <1>2, <2>2 DEF Idle
      <3>2. (cycle'[q] = "off" => Idle(q)')
        BY <3>1 DEF TasksWellFormed
      <3>3. IF Idle(q)' THEN task'[q] = NoTask ELSE task'[q].policy \in Policies
        <4>1. IF Idle(q) THEN task[q] = NoTask ELSE task[q].policy \in Policies
          BY DEF TasksWellFormed
        <4>2. Idle(q) => task[q].policy # p
          BY <1>3, <4>1, PreviewAssumption
        <4> QED
          BY <3>1, <4>1, <4>2
      <3>4. task'[q].kind = "run" => /\ task'[q].run \in Runs
                                     /\ run'[task'[q].run].status # "absent"
                                     /\ run'[task'[q].run].policy = task'[q].policy
        <4>1. task[q].kind = "run" => /\ task[q].run \in Runs
                                      /\ run[task[q].run].status # "absent"
                                      /\ run[task[q].run].policy = task[q].policy
          BY DEF TasksWellFormed
        <4> QED
          BY <3>1, <4>1
      <3>5. ASSUME task'[q].latest
            PROVE  /\ published'[task'[q].policy] = "nothing"
                   /\ \A x \in Owners : task'[x].latest
                                        /\ task'[x].policy = task'[q].policy => x = q
        <4>1. task[q].latest /\ task[q].policy # p /\ task'[q].policy = task[q].policy
          BY <3>1, <3>5
        <4>2. /\ published[task[q].policy] = "nothing"
              /\ \A x \in Owners : task[x].latest
                                   /\ task[x].policy = task[q].policy => x = q
          BY <4>1 DEF TasksWellFormed
        <4>3. task[q].policy \in Policies
          <5>1. task[q] # NoTask
            BY <4>1 DEF NoTask
          <5> QED
            BY <5>1 DEF TasksWellFormed
        <4> QED
          BY <1>1, <1>2, <4>1, <4>2, <4>3
      <3> QED
        BY <3>2, <3>3, <3>4, <3>5
    <2> QED
      BY <2>1, <2>2
  <1>5. HolderIsLatest'
    <2> SUFFICES ASSUME NEW q \in Owners
                 PROVE  /\ /\ task'[q].kind = "run"
                           /\ run'[task'[q].run].status = "running"
                           /\ run'[task'[q].run].owner = q
                           => task'[q].latest
                        /\ task'[q].kind = "direct" /\ lease'[task'[q].policy].owner = q =>
                             task'[q].latest /\ ~HasActiveRun(task[q].policy)'
      BY DEF HolderIsLatest
    <2>1. CASE q = o
      <3>1. kind = "direct" => ~HasActiveRun(task[q].policy)'
        BY <1>1, <2>1
      <3> QED
        BY <1>1, <2>1, <3>1
    <2>2. CASE q # o
      <3>1. same(q)
        BY <1>2, <2>2
      <3>2. ASSUME task'[q].kind = "run", run'[task'[q].run].status = "running",
                   run'[task'[q].run].owner = q
            PROVE  task'[q].latest
        <4>1. /\ task[q].kind = "run" /\ task[q].run \in Runs
              /\ run[task[q].run].status # "absent"
              /\ run[task[q].run].policy = task[q].policy
          <5>1. task[q].kind = "run"
            BY <3>1, <3>2
          <5> QED
            BY <5>1 DEF TasksWellFormed
        <4>2. kind = "run" => task[q].run # r
          BY <2>2, <3>1, <3>2
        <4>3. /\ run[task[q].run].status = "running" /\ run[task[q].run].owner = q
              /\ task[q].policy # p
          BY <3>1, <3>2, <4>1, <4>2
        <4> QED
          BY <3>1, <4>1, <4>3 DEF HolderIsLatest
      <3>3. ASSUME task'[q].kind = "direct", lease'[task'[q].policy].owner = q
            PROVE  task'[q].latest /\ ~HasActiveRun(task[q].policy)'
        <4>1. task[q].kind = "direct" /\ task[q].policy \in Policies \ {p}
          BY <2>2, <3>1, <3>3 DEF TasksWellFormed, Idle
        <4>2. task[q].latest /\ ~HasActiveRun(task[q].policy)
          BY <3>1, <3>3, <4>1 DEF HolderIsLatest
        <4>3. task'[q].policy = task[q].policy
          BY <3>1
        <4> QED
          BY <3>1, <4>1, <4>2, <4>3
      <3> QED
        BY <3>2, <3>3
    <2> QED
      BY <2>1, <2>2
  <1> QED
    BY <1>4, <1>5

----------------------------------------------------------------------------
(* Every step preserves the invariant *)

LEMMA InvParts == IInv <=> TypeOK /\ RowInv /\ TaskInv
  BY DEF IInv, RowInv, TaskInv

LEMMA InitInv == Init => IInv
  <1> SUFFICES ASSUME Init PROVE IInv
    OBVIOUS
  <1>1. TypeOK
    BY InitTypeOK
  <1>2. \A r \in Runs : ~IsActive(r) /\ run[r].status = "absent"
                       /\ run[r].owner = None /\ run[r].left = Past /\ ~run[r].cancel
    BY DEF Init, NoRun, IsActive, ActiveStatuses
  <1>3. RowInv
    BY <1>2, PreviewAssumption
       DEF Init, NoLease, RowInv, OneActiveRun, LeaseFollowsRun,
           NoOrphanReservation, RowsWellFormed
  <1>4. TaskInv
    BY DEF Init, NoTask, Idle, TaskInv, TasksWellFormed, HolderIsLatest
  <1> QED
    BY <1>1, <1>3, <1>4, InvParts

\* Steps that leave rows and leases alone.
LEMMA SameRows ==
  ASSUME TypeOK, RowInv, UNCHANGED <<run, lease>>
  PROVE  /\ RowInv'
         /\ \A p : HasActiveRun(p)' = HasActiveRun(p)
  BY DEF RowInv, OneActiveRun, LeaseFollowsRun, NoOrphanReservation, RowsWellFormed,
         IsActive, PolicyOwnerOf, HasActiveRun

LEMMA SameTasks ==
  ASSUME TaskInv, UNCHANGED processVars
  PROVE  \A o \in Owners :
            /\ task'[o].kind = task[o].kind /\ task'[o].run = task[o].run
            /\ task'[o].policy = task[o].policy /\ task'[o].latest = task[o].latest
            /\ task[o] = NoTask => task'[o] = NoTask
            /\ ~Idle(o) => cycle'[o] # "off"
  BY DEF TaskInv, TasksWellFormed, processVars

LEMMA OperatorInv == IInv /\ OperatorNext => IInv'
  <1> SUFFICES ASSUME TypeOK, RowInv, TaskInv, OperatorNext, TypeOK'
               PROVE  RowInv' /\ TaskInv'
    BY OperatorTypeOK DEF IInv, RowInv, TaskInv
  <1>1. ASSUME NEW p \in Policies, NEW t \in Triggers, Enqueue(p, t)
        PROVE  RowInv' /\ TaskInv'
    <2>1. RowInv'
      BY <1>1, EnqueueRows
    <2>2. PICK r \in Runs :
            /\ run[r].status = "absent"
            /\ run' = [run EXCEPT ![r] = [NoRun EXCEPT !.status = "queued",
                                            !.policy = p, !.trigger = t]]
            /\ lease' = [lease EXCEPT ![p] = [owner |-> r, left |-> QueuedLease]]
      BY <1>1 DEF Enqueue
    <2>3. /\ run'[r].status = "queued" /\ run'[r].policy = p
          /\ \A q \in Runs \ {r} : run'[q] = run[q]
          /\ lease'[p].owner = r /\ \A q \in Policies \ {p} : lease'[q] = lease[q]
      BY <2>2 DEF TypeOK, NoRun
    <2>4. \A q \in Policies \ {p} : HasActiveRun(q)' => HasActiveRun(q)
      BY <2>3 DEF HasActiveRun, IsActive
    <2>5. \A q \in Policies : lease'[q].owner \in Owners =>
            /\ lease'[q].owner = lease[q].owner
            /\ HasActiveRun(q)' => HasActiveRun(q)
      BY <2>3, <2>4, PreviewAssumption
    <2>6. UNCHANGED processVars /\ UNCHANGED published
      BY <1>1 DEF Enqueue
    <2>7. TaskInv'
      BY <2>2, <2>3, <2>5, <2>6, SameTasks, TasksGoOn
    <2> QED
      BY <2>1, <2>7
  <1>2. ASSUME NEW p \in Policies, QueuePreview(p) PROVE RowInv' /\ TaskInv'
    BY <1>1, <1>2 DEF QueuePreview
  <1>3. ASSUME NEW p \in Policies, NEW plan \in {"manual", "due"},
               UpdatePolicy(p, plan)
        PROVE  RowInv' /\ TaskInv'
    BY <1>3, SameRows, SameTasks, TasksGoOn DEF UpdatePolicy
  <1>4. ASSUME NEW r \in Runs, RequestCancel(r) PROVE RowInv' /\ TaskInv'
    <2>1. UNCHANGED processVars /\ UNCHANGED published
      BY <1>4 DEF RequestCancel
    <2>2. CASE run[r].status = "queued"
      <3>1. /\ run' = [run EXCEPT ![r] = [Ended(r, "cancelled") EXCEPT !.cancel = TRUE]]
            /\ lease' = WithoutReservation(r)
        BY <1>4, <2>2 DEF RequestCancel
      <3>2. IsActive(r) /\ run[r].policy \in Policies
        BY <2>2 DEF IsActive, ActiveStatuses, RowInv, RowsWellFormed
      <3>3. lease[run[r].policy].owner = r
        BY <2>2, <3>2 DEF RowInv, LeaseFollowsRun, PolicyOwnerOf
      <3>4. lease' = Release(run[r].policy)
        BY <3>1, <3>3 DEF WithoutReservation
      <3>5. Ended(r, "cancelled") \in RunRow
        BY EndedType DEF TerminalStatuses
      <3>6. /\ run'[r].status = "cancelled" /\ run'[r].policy = run[r].policy
            /\ run'[r].trigger = run[r].trigger
            /\ run'[r].owner = None /\ run'[r].left = Past
            /\ \A q \in Runs \ {r} : run'[q] = run[q]
        BY <3>1, <3>5, EndedFields DEF TypeOK, RunRow
      <3>7. RowInv'
        <4>1. "cancelled" \in TerminalStatuses
          BY DEF TerminalStatuses
        <4> QED
          BY <3>2, <3>4, <3>6, <4>1, RowEnds
      <3>8. \A p \in Policies : lease'[p].owner \in Owners =>
              /\ lease'[p].owner = lease[p].owner
              /\ HasActiveRun(p)' => HasActiveRun(p)
        BY <3>4, <3>6, PreviewAssumption
           DEF Release, NoLease, TypeOK, HasActiveRun, IsActive, ActiveStatuses
      <3>9. TaskInv'
        BY <2>1, <3>6, <3>8, SameTasks, TasksGoOn
      <3> QED
        BY <3>7, <3>9
    <2>3. CASE run[r].status = "running"
      <3>1. run' = [run EXCEPT ![r].cancel = TRUE] /\ lease' = lease
        BY <1>4, <2>3 DEF RequestCancel
      <3>2. \A q \in Runs : /\ run'[q].status = run[q].status
                            /\ run'[q].policy = run[q].policy
                            /\ run'[q].owner = run[q].owner
        BY <3>1 DEF TypeOK, RunRow
      <3>3. \A p \in Policies : HasActiveRun(p)' = HasActiveRun(p)
        BY <3>2 DEF HasActiveRun, IsActive
      <3> QED
        BY <2>1, <2>3, <3>1, <3>2, <3>3, FlagRows, SameTasks, TasksGoOn
    <2> QED
      BY <1>4, <2>2, <2>3 DEF RequestCancel
  <1>5. ASSUME NEW r \in Runs, Retry(r) PROVE RowInv' /\ TaskInv'
    <2>1. run[r].policy \in Policies /\ run[r].trigger \in Triggers
      BY <1>5 DEF Retry, RowInv, RowsWellFormed
    <2> QED
      BY <1>1, <1>5, <2>1 DEF Retry
  <1>6. CASE ChangeLifecycle
    BY <1>6, SameRows, SameTasks, TasksGoOn DEF ChangeLifecycle, policyVars
  <1> QED
    BY <1>2, <1>3, <1>4, <1>5, <1>6 DEF OperatorNext

LEMMA ClaimInv == ASSUME IInv, NEW o \in Owners, ClaimNext(o) PROVE IInv'
  <1> SUFFICES ASSUME TypeOK, RowInv, TaskInv, TypeOK'
               PROVE  RowInv' /\ TaskInv'
    BY ClaimTypeOK DEF IInv, RowInv, TaskInv
  <1>1. CASE StartCycle(o)
    <2>1. \A q \in Owners : ~Idle(q) => cycle'[q] # "off"
      BY <1>1 DEF StartCycle, TypeOK, TaskInv, TasksWellFormed
    <2> QED
      BY <1>1, <2>1, SameRows, TasksGoOn DEF StartCycle, policyVars
  <1>2. CASE EndCycle(o)
    <2>1. \A q \in Owners : ~Idle(q) => cycle'[q] # "off"
      BY <1>2 DEF EndCycle, TypeOK, TaskInv, TasksWellFormed
    <2> QED
      BY <1>2, <2>1, SameRows, TasksGoOn DEF EndCycle, policyVars
  <1>3. CASE ClaimRun(o)
    <2>1. Idle(o) /\ \A q \in Owners \ {o} : cycle'[q] = cycle[q]
      BY <1>3 DEF ClaimRun, TypeOK
    <2>2. ASSUME NEW r \in Claimable,
                 run' = [GivenUp EXCEPT ![r] = Claimed(r, o)],
                 lease' = [LeasesAfterGivingUp EXCEPT ![run[r].policy] =
                            [owner |-> o, left |-> RunLease]],
                 BeginTask(o, "run", r, run[r].policy, run[r].trigger),
                 cycle' = [cycle EXCEPT ![o] = "drain"]
          PROVE  RowInv' /\ TaskInv'
      <3> DEFINE p == run[r].policy
      <3>1. /\ RowInv'
            /\ r \in Runs /\ IsActive(r) /\ p \in Policies
            /\ run'[r].owner = o /\ run'[r].policy = p /\ run'[r].status = "running"
            /\ \A q \in Runs \ {r} :
                  /\ run'[q].policy = run[q].policy
                  /\ run'[q].status # "absent" <=> run[q].status # "absent"
                  /\ IsActive(q)' => IsActive(q) /\ run'[q] = run[q]
            /\ \A x \in Policies \ {p} : lease'[x] = lease[x] \/ lease'[x] = NoLease
            /\ lease'[p].owner = o
        <4>1. RowInv' /\ RunClaimed(o, r)
          BY <2>2, ClaimRows
        <4> QED
          BY <4>1 DEF RunClaimed
      <3>2. cycle'[o] # "off"
        BY <2>2 DEF TypeOK
      <3>3. \A x \in Runs : run[x].status # "absent" =>
              run'[x].status # "absent" /\ run'[x].policy = run[x].policy
        BY <3>1
      <3>4. ASSUME NEW x \in Runs, run'[x].status = "running", x # r
            PROVE  /\ run[x].status = "running" /\ run'[x].owner = run[x].owner
                   /\ run'[x].policy # p
        <4>1. IsActive(x)' /\ IsActive(r)'
          BY <3>1, <3>4 DEF IsActive, ActiveStatuses
        <4>2. run'[x] = run[x]
          BY <3>1, <3>4, <4>1
        <4>3. run'[x].policy # run'[r].policy
          BY <3>1, <3>4, <4>1 DEF RowInv, OneActiveRun
        <4> QED
          BY <3>1, <3>4, <4>2, <4>3
      <3>5. ASSUME NEW x \in Policies \ {p}
            PROVE  /\ lease'[x].owner \in Owners => lease'[x].owner = lease[x].owner
                   /\ HasActiveRun(x)' => HasActiveRun(x)
        <4>1. lease'[x].owner \in Owners => lease'[x].owner = lease[x].owner
          BY <3>1, PreviewAssumption DEF NoLease
        <4>2. HasActiveRun(x)' => HasActiveRun(x)
          BY <3>1 DEF HasActiveRun
        <4> QED
          BY <4>1, <4>2
      <3>6. TaskInv'
        <4> HIDE DEF p
        <4> QED
          BY <2>1, <2>2, <3>1, <3>2, <3>3, <3>4, <3>5, ClaimTasks DEF p
      <3> QED
        BY <3>1, <3>6
    <2>3. CASE run' = GivenUp /\ lease' = LeasesAfterGivingUp /\ UNCHANGED <<task, published>>
               /\ cycle' = [cycle EXCEPT ![o] = "due"]
      <3>1. RowInv'
        BY <2>3, GiveUpRows
      <3>2. \A r \in Runs : /\ run'[r].policy = run[r].policy
                            /\ run[r].status # "absent" => run'[r].status # "absent"
                            /\ IsActive(r)' => IsActive(r) /\ run'[r] = run[r]
        BY <2>3, GivingUp DEF TerminalStatuses, IsActive, ActiveStatuses
      <3>3. \A r \in Runs : run'[r].status = "running" => run'[r] = run[r]
        BY <3>2 DEF IsActive, ActiveStatuses
      <3>4. \A x \in Policies : lease'[x].owner \in Owners =>
              /\ lease'[x].owner = lease[x].owner
              /\ HasActiveRun(x)' => HasActiveRun(x)
        <4>1. \A x \in Policies : lease'[x].owner \in Owners => lease'[x].owner = lease[x].owner
          BY <2>3, GivingUp, PreviewAssumption DEF NoLease
        <4>2. \A x \in Policies : HasActiveRun(x)' => HasActiveRun(x)
          BY <3>2 DEF HasActiveRun
        <4> QED
          BY <4>1, <4>2
      <3>5. \A q \in Owners : ~Idle(q) => cycle'[q] # "off"
        BY <2>1, <2>3 DEF TypeOK, TaskInv, TasksWellFormed
      <3>6. TaskInv'
        BY <2>3, <3>2, <3>3, <3>4, <3>5, TasksGoOn
      <3> QED
        BY <3>1, <3>6
    <2> QED
      BY <1>3, <2>2, <2>3 DEF ClaimRun
  <1>4. ASSUME NEW p \in Policies, NEW t \in Triggers, LeaseDirectly(o, p, t),
               Leasable(p), Idle(o), cycle'[o] # "off",
               \A q \in Owners \ {o} : cycle'[q] = cycle[q]
        PROVE  RowInv' /\ TaskInv'
    <2>1. /\ lease' = [lease EXCEPT ![p] = [owner |-> o, left |-> DirectLease]]
          /\ BeginTask(o, "direct", None, p, t)
          /\ run' = run /\ ~HasActiveRun(p)
      BY <1>4 DEF LeaseDirectly, Leasable
    <2>2. [owner |-> o, left |-> DirectLease] \in LeaseRow /\ o \notin Runs
      BY PreviewAssumption DEF LeaseRow
    <2>3. RowInv'
      BY <2>1, <2>2, FreePolicyChanges
    <2>4. \A x \in Policies : HasActiveRun(x)' = HasActiveRun(x)
      BY <2>1 DEF HasActiveRun, IsActive
    <2>5. lease'[p].owner = o /\ \A x \in Policies \ {p} : lease'[x] = lease[x]
      BY <2>1 DEF TypeOK
    <2>6. \A x \in Runs : run'[x].status = "running" => run'[x].policy # p
      BY <2>1 DEF HasActiveRun, IsActive, ActiveStatuses
    <2>7. TaskInv'
      BY <1>4, <2>1, <2>4, <2>5, <2>6, ClaimTasks
    <2> QED
      BY <2>3, <2>7
  <1>5. ASSUME NEW p \in Policies, ClaimDue(o, p) PROVE RowInv' /\ TaskInv'
    BY <1>4, <1>5, TriggerAssumption DEF ClaimDue
  <1>6. ASSUME NEW p \in Policies, ClaimNow(o, p) PROVE RowInv' /\ TaskInv'
    <2>1. /\ cycle'[o] # "off" /\ Idle(o)
          /\ \A q \in Owners \ {o} : cycle'[q] = cycle[q]
      BY <1>6 DEF ClaimNow, Fresh, TypeOK, TaskInv, TasksWellFormed
    <2> QED
      BY <1>4, <1>6, <2>1 DEF ClaimNow
  <1> QED
    BY <1>1, <1>2, <1>3, <1>5, <1>6 DEF ClaimNext

\* A task that finishes is dropped, the others go on.
LEMMA FinishTasks ==
  ASSUME TypeOK, TaskInv, NEW o \in Owners, Finish(o)
  PROVE  /\ task'[o] = NoTask
         /\ \A q \in Owners \ {o} : task'[q] = task[q] /\ cycle'[q] = cycle[q]
         /\ \A q \in Owners \ {o} : ~Idle(q) => cycle'[q] # "off"
         /\ \A q \in Owners : task'[q].latest => q # o /\ task[q].latest
  <1>1. /\ task'[o] = NoTask
        /\ \A q \in Owners \ {o} : task'[q] = task[q] /\ cycle'[q] = cycle[q]
    BY DEF Finish, TypeOK
  <1>2. \A q \in Owners \ {o} : ~Idle(q) => cycle'[q] # "off"
    BY <1>1 DEF TaskInv, TasksWellFormed
  <1>3. \A q \in Owners : task'[q].latest => q # o /\ task[q].latest
    BY <1>1 DEF NoTask
  <1> QED
    BY <1>1, <1>2, <1>3

\* The phase of a task is not its claim.
LEMMA PhaseTasks ==
  ASSUME TypeOK, TaskInv, NEW o \in Owners, ~Idle(o), NEW h,
         task' = [task EXCEPT ![o].phase = h], UNCHANGED cycle
  PROVE  \A q \in Owners :
            /\ task'[q].kind = task[q].kind /\ task'[q].run = task[q].run
            /\ task'[q].policy = task[q].policy /\ task'[q].latest = task[q].latest
            /\ task[q] = NoTask => task'[q] = NoTask
            /\ ~Idle(q) => cycle'[q] # "off"
  <1>1. \A q \in Owners :
            /\ task'[q].kind = task[q].kind /\ task'[q].run = task[q].run
            /\ task'[q].policy = task[q].policy /\ task'[q].latest = task[q].latest
            /\ q # o => task'[q] = task[q]
    BY DEF TypeOK, TaskRow
  <1>2. task[o] # NoTask
    BY DEF Idle, NoTask
  <1> QED
    BY <1>1, <1>2 DEF TaskInv, TasksWellFormed

\* The holder of a run executes the latest claim on the run's policy.
LEMMA RunHolder ==
  ASSUME TypeOK, RowInv, TaskInv, NEW o \in Owners, task[o].kind = "run",
         run[task[o].run].status = "running", run[task[o].run].owner = o
  PROVE  /\ task[o].run \in Runs /\ IsActive(task[o].run)
         /\ run[task[o].run].policy = task[o].policy /\ task[o].policy \in Policies
         /\ task[o].latest
  <1>1. /\ task[o].run \in Runs /\ run[task[o].run].policy = task[o].policy
        /\ task[o].latest
    BY DEF TaskInv, TasksWellFormed, HolderIsLatest
  <1>2. IsActive(task[o].run)
    BY DEF IsActive, ActiveStatuses
  <1>3. task[o].policy \in Policies
    BY <1>1 DEF RowInv, RowsWellFormed
  <1> QED
    BY <1>1, <1>2, <1>3

\* The holder of a direct lease does too, and the policy has no active run.
LEMMA DirectHolder ==
  ASSUME TypeOK, TaskInv, NEW o \in Owners, task[o].kind = "direct",
         lease[task[o].policy].owner = o
  PROVE  /\ task[o].policy \in Policies /\ task[o].latest
         /\ ~HasActiveRun(task[o].policy)
  BY DEF TaskInv, TasksWellFormed, HolderIsLatest, Idle

LEMMA RenewInv ==
  ASSUME TypeOK, RowInv, TaskInv, TypeOK', NEW o \in Owners, ~Idle(o), Renew(o), NEW h,
         task' = [task EXCEPT ![o].phase = h], UNCHANGED <<cycle, published>>
  PROVE  RowInv' /\ TaskInv'
  <1>1. \A q \in Owners :
            /\ task'[q].kind = task[q].kind /\ task'[q].run = task[q].run
            /\ task'[q].policy = task[q].policy /\ task'[q].latest = task[q].latest
            /\ task[q] = NoTask => task'[q] = NoTask
            /\ ~Idle(q) => cycle'[q] # "off"
    BY PhaseTasks
  <1>2. CASE task[o].kind = "run"
    <2> DEFINE r == task[o].run
    <2>1. run[r].status = "running" /\ run[r].owner = o
      BY <1>2 DEF Renew, CanRenew
    <2>2. r \in Runs /\ IsActive(r) /\ run[r].policy \in Policies
      BY <1>2, <2>1, RunHolder
    <2>3. /\ run' = [run EXCEPT ![r].left = RunLease]
          /\ lease' = [lease EXCEPT ![run[r].policy] = [owner |-> o, left |-> RunLease]]
      BY <1>2 DEF Renew
    <2>4. RowInv'
      BY <2>1, <2>2, <2>3, RenewRows
    <2>5. \A q \in Runs : /\ run'[q].status = run[q].status
                          /\ run'[q].policy = run[q].policy
                          /\ run'[q].owner = run[q].owner
      BY <2>3 DEF TypeOK, RunRow
    <2>6. \A p \in Policies : HasActiveRun(p)' = HasActiveRun(p)
      BY <2>5 DEF HasActiveRun, IsActive
    <2>7. lease[run[r].policy].owner = o
      BY <2>1, <2>2 DEF RowInv, LeaseFollowsRun, PolicyOwnerOf
    <2>8. \A p \in Policies : lease'[p].owner = lease[p].owner
      BY <2>2, <2>3, <2>7 DEF TypeOK
    <2>9. TaskInv'
      BY <1>1, <2>5, <2>6, <2>8, TasksGoOn
    <2> QED
      BY <2>4, <2>9
  <1>3. CASE task[o].kind # "run"
    <2> DEFINE p == task[o].policy
    <2>1. task[o].kind = "direct"
      BY <1>3 DEF Idle, TypeOK, TaskRow
    <2>2. lease[p].owner = o
      BY <1>3 DEF Renew, CanRenew, HoldsPolicy
    <2>3. p \in Policies /\ ~HasActiveRun(p)
      BY <2>1, <2>2, DirectHolder
    <2>4. run' = run /\ lease' = [lease EXCEPT ![p].left = DirectLease]
      BY <1>3 DEF Renew
    <2> DEFINE l == [lease[p] EXCEPT !.left = DirectLease]
    <2>5. l \in LeaseRow /\ l.owner = o /\ o \notin Runs
      BY <2>2, <2>3, PreviewAssumption DEF TypeOK, LeaseRow
    <2>6. lease' = [lease EXCEPT ![p] = l]
      BY <2>4
    <2>7. RowInv'
      <3> HIDE DEF l, p
      <3> QED
        BY <2>3, <2>4, <2>5, <2>6, FreePolicyChanges
    <2>8. \A x \in Policies : /\ HasActiveRun(x)' = HasActiveRun(x)
                              /\ lease'[x].owner = lease[x].owner
      BY <2>4 DEF HasActiveRun, IsActive, TypeOK, LeaseRow
    <2>9. TaskInv'
      BY <1>1, <2>4, <2>8, TasksGoOn
    <2> QED
      BY <2>7, <2>9
  <1> QED
    BY <1>2, <1>3

\* The holder of a run ends it, and may have published its evidence.
LEMMA RunEndsInv ==
  ASSUME TypeOK, RowInv, TaskInv, TypeOK', NEW o \in Owners, task[o].kind = "run",
         HoldsRun(o), NEW s \in TerminalStatuses,
         run' = [run EXCEPT ![task[o].run] = Ended(task[o].run, s)],
         lease' = Release(run[task[o].run].policy), Finish(o),
         published' = published \/ PublishEvidence(o, run[task[o].run].policy)
  PROVE  RowInv' /\ TaskInv'
  <1> DEFINE r == task[o].run
             p == run[r].policy
  <1>1. /\ r \in Runs /\ IsActive(r) /\ p = task[o].policy /\ p \in Policies
        /\ task[o].latest
    BY RunHolder DEF HoldsRun
  <1>2. /\ run'[r].status = s /\ run'[r].policy = run[r].policy
        /\ run'[r].trigger = run[r].trigger
        /\ run'[r].owner = None /\ run'[r].left = Past
        /\ \A q \in Runs \ {r} : run'[q] = run[q]
    BY <1>1, EndedFields DEF TypeOK
  <1>3. RowInv'
    BY <1>1, <1>2, RowEnds
  <1>4. /\ task'[o] = NoTask
        /\ \A q \in Owners \ {o} : task'[q] = task[q]
        /\ \A q \in Owners \ {o} : ~Idle(q) => cycle'[q] # "off"
        /\ \A q \in Owners : task'[q].latest => q # o /\ task[q].latest
    BY FinishTasks
  <1>5. \A q \in Runs : /\ run'[q].policy = run[q].policy
                        /\ run'[q].status # "absent" <=> run[q].status # "absent"
                        /\ run'[q].status = "running" => run'[q] = run[q]
                        /\ IsActive(q)' => IsActive(q)
    BY <1>1, <1>2 DEF IsActive, ActiveStatuses, TerminalStatuses
  <1>6. \A x \in Policies : lease'[x].owner \in Owners => lease'[x].owner = lease[x].owner
    BY PreviewAssumption DEF Release, NoLease, TypeOK
  <1>7. \A x \in Policies : HasActiveRun(x)' => HasActiveRun(x)
    BY <1>5 DEF HasActiveRun
  <1>8. ASSUME NEW q \in Owners, task'[q].latest
        PROVE  published'[task[q].policy] \in {"nothing", published[task[q].policy]}
    <2>1. q # o /\ task[q].latest
      BY <1>4, <1>8
    <2>2. task[q].policy # p
      BY <1>1, <2>1 DEF TaskInv, TasksWellFormed
    <2>3. task[q].policy \in Policies
      BY <2>1 DEF TaskInv, TasksWellFormed, NoTask
    <2> QED
      BY <2>2, <2>3 DEF PublishEvidence, TypeOK
  <1>9. TaskInv'
    BY <1>4, <1>5, <1>6, <1>7, <1>8, TasksGoOn
  <1> QED
    BY <1>3, <1>9

\* The holder of a direct lease ends it, and may have published its evidence.
LEMMA DirectEndsInv ==
  ASSUME TypeOK, RowInv, TaskInv, TypeOK', NEW o \in Owners, task[o].kind = "direct",
         lease[task[o].policy].owner = o, run' = run,
         lease' = Release(task[o].policy), Finish(o),
         published' = published \/ PublishEvidence(o, task[o].policy)
  PROVE  RowInv' /\ TaskInv'
  <1> DEFINE p == task[o].policy
  <1>1. p \in Policies /\ task[o].latest /\ ~HasActiveRun(p)
    BY DirectHolder
  <1>2. NoLease.owner \notin Runs
    BY PreviewAssumption DEF NoLease
  <1>3. RowInv'
    BY <1>1, <1>2, NothingType, FreePolicyChanges DEF Release
  <1>4. /\ task'[o] = NoTask
        /\ \A q \in Owners \ {o} : task'[q] = task[q]
        /\ \A q \in Owners \ {o} : ~Idle(q) => cycle'[q] # "off"
        /\ \A q \in Owners : task'[q].latest => q # o /\ task[q].latest
    BY FinishTasks
  <1>5. \A x \in Policies : lease'[x].owner \in Owners => lease'[x].owner = lease[x].owner
    BY PreviewAssumption DEF Release, NoLease, TypeOK
  <1>6. \A x \in Policies : HasActiveRun(x)' = HasActiveRun(x)
    BY DEF HasActiveRun, IsActive
  <1>7. ASSUME NEW q \in Owners, task'[q].latest
        PROVE  published'[task[q].policy] \in {"nothing", published[task[q].policy]}
    <2>1. q # o /\ task[q].latest
      BY <1>4, <1>7
    <2>2. task[q].policy # p
      BY <1>1, <2>1 DEF TaskInv, TasksWellFormed
    <2>3. task[q].policy \in Policies
      BY <2>1 DEF TaskInv, TasksWellFormed, NoTask
    <2> QED
      BY <2>2, <2>3 DEF PublishEvidence, TypeOK
  <1>8. TaskInv'
    BY <1>4, <1>5, <1>6, <1>7, TasksGoOn
  <1> QED
    BY <1>3, <1>8

\* The claim is dropped, rows and leases stay.
LEMMA DropInv ==
  ASSUME TypeOK, RowInv, TaskInv, TypeOK', NEW o \in Owners, Finish(o),
         UNCHANGED <<run, lease, published>>
  PROVE  RowInv' /\ TaskInv'
  <1>1. /\ task'[o] = NoTask
        /\ \A q \in Owners \ {o} : task'[q] = task[q]
        /\ \A q \in Owners \ {o} : ~Idle(q) => cycle'[q] # "off"
    BY FinishTasks
  <1>2. RowInv' /\ \A p : HasActiveRun(p)' = HasActiveRun(p)
    BY SameRows
  <1>3. TaskInv'
    BY <1>1, <1>2, TasksGoOn
  <1> QED
    BY <1>2, <1>3

LEMMA ExecuteInv == ASSUME IInv, NEW o \in Owners, ExecuteNext(o) PROVE IInv'
  <1> SUFFICES ASSUME TypeOK, RowInv, TaskInv, TypeOK'
               PROVE  RowInv' /\ TaskInv'
    BY ExecuteTypeOK DEF IInv, RowInv, TaskInv
  <1>1. CASE Heartbeat(o)
    <2>1. ~Idle(o) /\ Renew(o) /\ UNCHANGED <<cycle, published>>
          /\ \E h : task' = [task EXCEPT ![o].phase = h]
      BY <1>1 DEF Heartbeat, Executing
    <2> QED
      BY <2>1, RenewInv
  <1>2. CASE ReadComplete(o)
    <2>1. ~Idle(o) /\ Renew(o) /\ UNCHANGED <<cycle, published>>
          /\ task' = [task EXCEPT ![o].phase = "persisting"]
      BY <1>2 DEF ReadComplete, Executing
    <2> QED
      BY <2>1, RenewInv
  <1>3. CASE LeaseLost(o)
    BY <1>3, DropInv DEF LeaseLost, policyVars
  <1>4. ASSUME NEW h, ~Idle(o), task' = [task EXCEPT ![o].phase = h],
               UNCHANGED <<run, lease, cycle, published>>
        PROVE  RowInv' /\ TaskInv'
    <2>1. RowInv' /\ \A p : HasActiveRun(p)' = HasActiveRun(p)
      BY <1>4, SameRows
    <2> QED
      BY <1>4, <2>1, PhaseTasks, TasksGoOn
  <1>5. CASE NoticeCancel(o)
    BY <1>4, <1>5 DEF NoticeCancel, Executing, policyVars
  <1>6. CASE Raise(o)
    BY <1>4, <1>6 DEF Raise, Executing, policyVars
  <1>7. CASE PublishRun(o)
    <2>1. /\ task[o].kind = "run" /\ HoldsRun(o) /\ Finish(o)
          /\ lease' = Release(run[task[o].run].policy)
          /\ \E s \in TerminalStatuses :
                run' = [run EXCEPT ![task[o].run] = Ended(task[o].run, s)]
          /\ published' = published \/ PublishEvidence(o, run[task[o].run].policy)
      BY <1>7 DEF PublishRun, TerminalStatuses
    <2> QED
      BY <2>1, RunEndsInv
  <1>8. CASE RecordRunFailure(o)
    <2>1. /\ task[o].kind = "run" /\ HoldsRun(o) /\ Finish(o)
          /\ lease' = Release(run[task[o].run].policy)
          /\ \E s \in TerminalStatuses :
                run' = [run EXCEPT ![task[o].run] = Ended(task[o].run, s)]
          /\ published' = published
      BY <1>8 DEF RecordRunFailure, TerminalStatuses, Unsuccessful
    <2> QED
      BY <2>1, RunEndsInv
  <1>9. CASE PublishDirect(o)
    BY <1>9, DirectEndsInv DEF PublishDirect, HoldsPolicy
  <1>10. CASE RecordDirectFailure(o)
    BY <1>10, DirectEndsInv DEF RecordDirectFailure, HoldsPolicy
  <1>11. CASE FinishUnrecorded(o)
    <2>1. CASE lease[task[o].policy].owner = o
      BY <1>11, <2>1, DirectEndsInv DEF FinishUnrecorded
    <2>2. CASE lease[task[o].policy].owner # o
      BY <1>11, <2>2, DropInv DEF FinishUnrecorded, policyVars
    <2> QED
      BY <2>1, <2>2
  <1> QED
    BY <1>1, <1>2, <1>3, <1>5, <1>6, <1>7, <1>8, <1>9, <1>10, <1>11 DEF ExecuteNext

LEMMA EnvironmentInv == IInv /\ EnvironmentNext => IInv'
  <1> SUFFICES ASSUME TypeOK, RowInv, TaskInv, EnvironmentNext, TypeOK'
               PROVE  RowInv' /\ TaskInv'
    BY EnvironmentTypeOK DEF IInv, RowInv, TaskInv
  <1>1. CASE Tick
    <2>1. RowInv'
      BY <1>1, TickRows
    <2>2. /\ \A q \in Runs : /\ run'[q].status = run[q].status
                             /\ run'[q].policy = run[q].policy
                             /\ run'[q].owner = run[q].owner
          /\ \A p \in Policies : lease'[p].owner = lease[p].owner
          /\ UNCHANGED processVars /\ published' = published
      BY <1>1 DEF Tick, TypeOK, RunRow, LeaseRow
    <2>3. \A p \in Policies : HasActiveRun(p)' = HasActiveRun(p)
      BY <2>2 DEF HasActiveRun, IsActive
    <2> QED
      BY <2>1, <2>2, <2>3, SameTasks, TasksGoOn
  <1>2. ASSUME NEW p \in Policies, ComesDue(p) PROVE RowInv' /\ TaskInv'
    BY <1>2, SameRows, SameTasks, TasksGoOn DEF ComesDue
  <1>3. ASSUME NEW o \in Owners, Crash(o) PROVE RowInv' /\ TaskInv'
    <2>1. /\ task'[o] = NoTask
          /\ \A q \in Owners \ {o} : task'[q] = task[q] /\ cycle'[q] = cycle[q]
          /\ UNCHANGED <<run, lease, published>>
      BY <1>3 DEF Crash, TypeOK, policyVars
    <2>2. \A q \in Owners \ {o} : ~Idle(q) => cycle'[q] # "off"
      BY <2>1 DEF TaskInv, TasksWellFormed
    <2>3. RowInv' /\ \A p : HasActiveRun(p)' = HasActiveRun(p)
      BY <2>1, SameRows
    <2> QED
      BY <2>1, <2>2, <2>3, TasksGoOn
  <1> QED
    BY <1>1, <1>2, <1>3 DEF EnvironmentNext

LEMMA StepInv == IInv /\ [Next]_vars => IInv'
  <1> SUFFICES ASSUME IInv, [Next]_vars PROVE IInv'
    OBVIOUS
  <1>1. CASE UNCHANGED vars
    BY <1>1 DEF vars, IInv, TypeOK, OneActiveRun, LeaseFollowsRun, NoOrphanReservation,
                RowsWellFormed, TasksWellFormed, HolderIsLatest, IsActive,
                PolicyOwnerOf, Idle, HasActiveRun
  <1>2. CASE OperatorNext
    BY <1>2, OperatorInv
  <1>3. ASSUME NEW o \in Owners, ClaimNext(o) \/ ExecuteNext(o) PROVE IInv'
    BY <1>3, ClaimInv, ExecuteInv
  <1>4. CASE EnvironmentNext
    BY <1>4, EnvironmentInv
  <1> QED
    BY <1>1, <1>2, <1>3, <1>4 DEF Next

\* The inductive invariant holds in every reachable state.
THEOREM Invariant == Spec => []IInv
  BY InitInv, StepInv, PTL DEF Spec

\* A policy never has two queued or running runs.
THEOREM AtMostOneActiveRun == Spec => []OneActiveRun
  <1>1. IInv => OneActiveRun
    BY DEF IInv
  <1> QED
    BY <1>1, Invariant, PTL

\* The lease of a policy and the lease of its active run are one.
THEOREM LeaseAndRunAgree == Spec => []LeaseFollowsRun
  <1>1. IInv => LeaseFollowsRun
    BY DEF IInv
  <1> QED
    BY <1>1, Invariant, PTL

\* No reservation is left behind by the run it was made for.
THEOREM ReservationsAreNeeded == Spec => []NoOrphanReservation
  <1>1. IInv => NoOrphanReservation
    BY DEF IInv
  <1> QED
    BY <1>1, Invariant, PTL

----------------------------------------------------------------------------
(* Action properties and refinement *)

\* How a step treats one row: it stays, is renewed or elapses, or is written while
\* it is not terminal.
LEMMA TerminalRowStays ==
  ASSUME IInv, [Next]_vars, NEW r \in Runs, run[r].status \in TerminalStatuses
  PROVE  run'[r] = run[r]
  <1> USE DEF TerminalStatuses
  <1>0. TypeOK /\ RowInv /\ TaskInv
    BY InvParts
  <1>1. CASE UNCHANGED vars
    BY <1>1 DEF vars
  <1>2. CASE OperatorNext
    <2>1. ASSUME NEW p, NEW t, Enqueue(p, t) PROVE run'[r] = run[r]
      BY <2>1, <1>0 DEF Enqueue, TypeOK
    <2>2. ASSUME NEW q \in Runs, RequestCancel(q) PROVE run'[r] = run[r]
      BY <2>2, <1>0 DEF RequestCancel, TypeOK
    <2> QED
      BY <1>2, <2>1, <2>2
         DEF OperatorNext, QueuePreview, Retry, UpdatePolicy, ChangeLifecycle
  <1>3. ASSUME NEW o \in Owners, ClaimNext(o) PROVE run'[r] = run[r]
    <2>1. GivenUp[r] = run[r] /\ r \notin Claimable
      BY DEF GivenUp, Exhausted, Claimable, Waiting
    <2>2. CASE ClaimRun(o)
      BY <1>0, <2>1, <2>2, GivenUpType DEF ClaimRun
    <2> QED
      BY <1>3, <2>2 DEF ClaimNext, StartCycle, EndCycle, ClaimDue, ClaimNow, LeaseDirectly
  <1>4. ASSUME NEW o \in Owners, ExecuteNext(o) PROVE run'[r] = run[r]
    <2>1. CASE Renew(o)
      BY <1>0, <2>1 DEF Renew, CanRenew, TypeOK
    <2>2. ASSUME HoldsRun(o), NEW s, run' = [run EXCEPT ![task[o].run] = Ended(task[o].run, s)]
          PROVE  run'[r] = run[r]
      BY <1>0, <2>2 DEF HoldsRun, TypeOK
    <2> QED
      BY <1>4, <2>1, <2>2
         DEF ExecuteNext, Heartbeat, ReadComplete, LeaseLost, NoticeCancel, Raise,
             PublishRun, RecordRunFailure, PublishDirect, RecordDirectFailure,
             FinishUnrecorded
  <1>5. CASE EnvironmentNext
    <2>1. run[r].left = Past
      BY <1>0 DEF RowInv, RowsWellFormed
    <2>2. Elapse(Past) = Past
      BY DEF Elapse, Past
    <2>3. CASE Tick
      <3>1. run'[r] = [run[r] EXCEPT !.left = Past] /\ run[r] \in RunRow
        BY <1>0, <2>1, <2>2, <2>3 DEF Tick, TypeOK
      <3> QED
        BY <2>1, <3>1 DEF RunRow
    <2> QED
      BY <1>5, <2>3 DEF EnvironmentNext, ComesDue, Crash
  <1> QED
    BY <1>1, <1>2, <1>3, <1>4, <1>5 DEF Next

\* No outcome is ever overwritten.
THEOREM OutcomesStay == Spec => TerminalRunsStay
  <1>1. IInv /\ [Next]_vars =>
          [\A r \in Runs : run[r].status \in TerminalStatuses => run'[r] = run[r]]_vars
    BY TerminalRowStays
  <1> QED
    BY <1>1, Invariant, PTL DEF Spec, TerminalRunsStay

\* The latest claim on policy p may still publish.
Open(p) == \E o \in Owners : task[o].policy = p /\ task[o].latest

LEMMA OpenStays ==
  ASSUME \A o \in Owners : task'[o].policy = task[o].policy
                           /\ task'[o].latest = task[o].latest,
         UNCHANGED published
  PROVE  UNCHANGED Fenced!fencedVars
  BY DEF Fenced!fencedVars

LEMMA GrantStep ==
  ASSUME TypeOK, TaskInv, NEW o \in Owners, Idle(o), NEW kind, NEW r,
         NEW p \in Policies, NEW t, BeginTask(o, kind, r, p, t)
  PROVE  Fenced!Grant(p)
  <1>1. Begun(o, kind, r, p)
    BY BeginTaskFields
  <1>2. ~task[o].latest
    BY DEF TaskInv, TasksWellFormed, NoTask
  <1>3. Open(p)'
    BY <1>1 DEF Begun, Open
  <1>4. ASSUME NEW x \in Policies \ {p} PROVE Open(x)' <=> Open(x)
    <2>1. ASSUME Open(x) PROVE Open(x)'
      <3>1. PICK q \in Owners : task[q].policy = x /\ task[q].latest
        BY <2>1 DEF Open
      <3>2. task'[q] = task[q]
        BY <1>1, <1>2, <3>1 DEF Begun
      <3> QED
        BY <3>1, <3>2 DEF Open
    <2>2. ASSUME Open(x)' PROVE Open(x)
      <3>1. PICK q \in Owners : task'[q].policy = x /\ task'[q].latest
        BY <2>2 DEF Open
      <3>2. q # o
        BY <1>1, <3>1 DEF Begun
      <3>3. task[q].policy = x /\ task[q].latest
        BY <1>1, <3>1, <3>2 DEF Begun
      <3> QED
        BY <3>3 DEF Open
    <2> QED
      BY <2>1, <2>2
  <1>5. published' = [published EXCEPT ![p] = "nothing"]
    BY DEF BeginTask
  <1>6. [x \in Policies |-> Open(x)'] = [[x \in Policies |-> Open(x)] EXCEPT ![p] = TRUE]
    <2>1. Open(p)' = TRUE
      BY <1>3 DEF Open
    <2>2. \A x \in Policies \ {p} : Open(x)' = Open(x)
      BY <1>4 DEF Open
    <2> QED
      BY <2>1, <2>2
  <1> QED
    BY <1>5, <1>6 DEF Fenced!Grant, Open

\* A task that is dropped closes its claim if that was the latest one.
LEMMA FinishOpen ==
  ASSUME TypeOK, TaskInv, NEW o \in Owners, task'[o] = NoTask,
         \A q \in Owners \ {o} : task'[q] = task[q],
         NEW p, p = task[o].policy
  PROVE  /\ ~task[o].latest => [x \in Policies |-> Open(x)'] = [x \in Policies |-> Open(x)]
         /\ task[o].latest =>
              /\ p \in Policies /\ Open(p)
              /\ [x \in Policies |-> Open(x)']
                 = [[x \in Policies |-> Open(x)] EXCEPT ![p] = FALSE]
  <1>1. ASSUME NEW x \in Policies, x # p \/ ~task[o].latest
        PROVE  Open(x)' = Open(x)
    <2>1. \A q \in Owners : task'[q].policy = x /\ task'[q].latest
                          <=> task[q].policy = x /\ task[q].latest
      BY <1>1 DEF NoTask
    <2> QED
      BY <2>1 DEF Open
  <1>2. ASSUME task[o].latest
        PROVE  p \in Policies /\ Open(p) /\ Open(p)' = FALSE
    <2>1. p \in Policies
      BY <1>2 DEF TaskInv, TasksWellFormed, NoTask
    <2>2. ASSUME NEW q \in Owners, task'[q].policy = p, task'[q].latest
          PROVE  FALSE
      <3>1. q # o
        BY <2>2 DEF NoTask
      <3> QED
        BY <1>2, <2>2, <3>1 DEF TaskInv, TasksWellFormed
    <2>3. Open(p)' = FALSE
      BY <2>2 DEF Open
    <2> QED
      BY <1>2, <2>1, <2>3 DEF Open
  <1>3. CASE ~task[o].latest
    BY <1>1, <1>3
  <1>4. CASE task[o].latest
    <2>1. p \in Policies /\ Open(p) /\ Open(p)' = FALSE
      BY <1>2, <1>4
    <2>2. \A x \in Policies \ {p} : Open(x)' = Open(x)
      BY <1>1
    <2> QED
      BY <1>4, <2>1, <2>2
  <1> QED
    BY <1>3, <1>4

\* Dropping a task is a closing step or nothing.
LEMMA DropStep ==
  ASSUME TypeOK, TaskInv, NEW o \in Owners, task'[o] = NoTask,
         \A q \in Owners \ {o} : task'[q] = task[q], UNCHANGED published
  PROVE  UNCHANGED Fenced!fencedVars \/ Fenced!FencedNext
  <1>0. PICK p : p = task[o].policy
    OBVIOUS
  <1>1. /\ ~task[o].latest => [x \in Policies |-> Open(x)'] = [x \in Policies |-> Open(x)]
        /\ task[o].latest =>
             /\ p \in Policies /\ Open(p)
             /\ [x \in Policies |-> Open(x)']
                = [[x \in Policies |-> Open(x)] EXCEPT ![p] = FALSE]
    BY <1>0, FinishOpen
  <1>2. CASE ~task[o].latest
    BY <1>1, <1>2 DEF Fenced!fencedVars, Open
  <1>3. CASE task[o].latest
    <2>1. Fenced!Close(p)
      BY <1>1, <1>3 DEF Fenced!Close, Open
    <2>2. p \in Policies
      BY <1>1, <1>3
    <2>3. Fenced!FencedNext
      BY <2>1, <2>2 DEF Fenced!FencedNext
    <2> QED
      BY <2>3
  <1> QED
    BY <1>2, <1>3

\* The latest claim is dropped in the step that publishes its evidence.
LEMMA PublishStep ==
  ASSUME TypeOK, TaskInv, NEW o \in Owners, task'[o] = NoTask, task[o].latest,
         \A q \in Owners \ {o} : task'[q] = task[q],
         NEW p, p = task[o].policy, PublishEvidence(o, p)
  PROVE  Fenced!FencedNext
  <1>1. /\ p \in Policies /\ Open(p)
        /\ [x \in Policies |-> Open(x)']
           = [[x \in Policies |-> Open(x)] EXCEPT ![p] = FALSE]
    BY FinishOpen
  <1>2. published' = [published EXCEPT ![p] = "latest"]
    BY DEF PublishEvidence
  <1>3. Fenced!Publish(p)
    BY <1>1, <1>2 DEF Fenced!Publish, Open
  <1> QED
    BY <1>1, <1>3 DEF Fenced!FencedNext

LEMMA FencedStep == IInv /\ [Next]_vars => [Fenced!FencedNext]_Fenced!fencedVars
  <1> SUFFICES ASSUME TypeOK, RowInv, TaskInv, [Next]_vars
               PROVE  UNCHANGED Fenced!fencedVars \/ Fenced!FencedNext
    BY InvParts
  <1>1. ASSUME UNCHANGED <<task, published>> PROVE UNCHANGED Fenced!fencedVars
    BY <1>1, OpenStays
  <1>2. CASE UNCHANGED vars
    BY <1>1, <1>2 DEF vars
  <1>3. CASE OperatorNext
    <2>1. UNCHANGED <<task, published>>
      BY <1>3 DEF OperatorNext, QueuePreview, Retry, Enqueue, UpdatePolicy,
                  RequestCancel, ChangeLifecycle, processVars
    <2> QED
      BY <1>1, <2>1
  <1>4. ASSUME NEW o \in Owners, ClaimNext(o)
        PROVE  UNCHANGED Fenced!fencedVars \/ Fenced!FencedNext
    <2>1. ASSUME NEW kind, NEW r, NEW p \in Policies, NEW t, Idle(o),
                 BeginTask(o, kind, r, p, t)
          PROVE  Fenced!FencedNext
      <3>1. Fenced!Grant(p)
        BY <2>1, GrantStep
      <3> QED
        BY <3>1 DEF Fenced!FencedNext
    <2>2. CASE ClaimRun(o)
      <3>1. Claimable \subseteq Runs
        BY DEF Claimable
      <3>2. \A r \in Claimable : run[r].policy \in Policies
        BY <3>1 DEF Claimable, Waiting, RowInv, RowsWellFormed
      <3> QED
        BY <1>1, <2>1, <2>2, <3>2 DEF ClaimRun
    <2>3. ASSUME NEW p \in Policies, ClaimDue(o, p) PROVE Fenced!FencedNext
      BY <2>1, <2>3 DEF ClaimDue, LeaseDirectly
    <2>4. ASSUME NEW p \in Policies, ClaimNow(o, p) PROVE Fenced!FencedNext
      <3>1. Idle(o)
        BY <2>4 DEF ClaimNow, Fresh, TaskInv, TasksWellFormed
      <3> QED
        BY <2>1, <2>4, <3>1 DEF ClaimNow, LeaseDirectly
    <2>5. CASE StartCycle(o) \/ EndCycle(o)
      BY <1>1, <2>5 DEF StartCycle, EndCycle
    <2> QED
      BY <1>4, <2>2, <2>3, <2>4, <2>5 DEF ClaimNext
  <1>5. ASSUME NEW o \in Owners, ExecuteNext(o)
        PROVE  UNCHANGED Fenced!fencedVars \/ Fenced!FencedNext
    <2>1. ASSUME NEW h, task' = [task EXCEPT ![o].phase = h], UNCHANGED published
          PROVE  UNCHANGED Fenced!fencedVars
      <3>1. \A q \in Owners : /\ task'[q].policy = task[q].policy
                              /\ task'[q].latest = task[q].latest
        BY <2>1 DEF TypeOK, TaskRow
      <3> QED
        BY <2>1, <3>1, OpenStays
    <2>2. ASSUME Finish(o), UNCHANGED published
          PROVE  UNCHANGED Fenced!fencedVars \/ Fenced!FencedNext
      BY <2>2, FinishTasks, DropStep
    <2>3. ASSUME Finish(o), task[o].latest, PublishEvidence(o, task[o].policy)
          PROVE  Fenced!FencedNext
      <3> DEFINE p == task[o].policy
      <3> HIDE DEF p
      <3>1. PublishEvidence(o, p) /\ p = task[o].policy
        BY <2>3 DEF p
      <3> QED
        BY <2>3, <3>1, FinishTasks, PublishStep
    <2>4. CASE PublishRun(o)
      <3>1. task[o].latest /\ run[task[o].run].policy = task[o].policy
        BY <2>4, RunHolder DEF PublishRun, HoldsRun
      <3> QED
        BY <2>2, <2>3, <2>4, <3>1 DEF PublishRun
    <2>5. CASE PublishDirect(o)
      <3>1. task[o].latest
        BY <2>5, DirectHolder DEF PublishDirect, HoldsPolicy
      <3> QED
        BY <2>3, <2>5, <3>1 DEF PublishDirect
    <2>6. CASE Heartbeat(o) \/ ReadComplete(o) \/ NoticeCancel(o) \/ Raise(o)
      BY <2>1, <2>6 DEF Heartbeat, ReadComplete, NoticeCancel, Raise
    <2>7. CASE LeaseLost(o) \/ RecordRunFailure(o) \/ RecordDirectFailure(o)
               \/ FinishUnrecorded(o)
      BY <2>2, <2>7
         DEF LeaseLost, RecordRunFailure, RecordDirectFailure, FinishUnrecorded
    <2> QED
      BY <1>5, <2>4, <2>5, <2>6, <2>7 DEF ExecuteNext
  <1>6. CASE EnvironmentNext
    <2>1. ASSUME NEW o \in Owners, Crash(o)
          PROVE  UNCHANGED Fenced!fencedVars \/ Fenced!FencedNext
      <3>1. /\ task'[o] = NoTask /\ \A q \in Owners \ {o} : task'[q] = task[q]
            /\ UNCHANGED published
        BY <2>1 DEF Crash, TypeOK
      <3> QED
        BY <3>1, DropStep
    <2>2. ASSUME Tick \/ \E p \in Policies : ComesDue(p)
          PROVE  UNCHANGED <<task, published>>
      BY <2>2 DEF Tick, ComesDue, processVars
    <2> QED
      BY <1>1, <1>6, <2>1, <2>2 DEF EnvironmentNext
  <1> QED
    BY <1>2, <1>3, <1>4, <1>5, <1>6 DEF Next

LEMMA FencedInitially == Init => Fenced!FencedInit
  BY DEF Init, NoTask, Fenced!FencedInit

\* The preview subsystem implements the fenced contract: only the latest claim on
\* a policy replaces its evidence, and at most once.
THEOREM Refinement == Spec => PublicationIsFenced
  BY FencedInitially, FencedStep, Invariant, PTL
     DEF Spec, PublicationIsFenced, Fenced!FencedSpec

\* Cancellation and success, in the step that decides them.
LEMMA RowOutcome ==
  ASSUME IInv, [Next]_vars, NEW r \in Runs, IsActive(r)
  PROVE  /\ run[r].cancel =>
              /\ run'[r].status \in {run[r].status, "running", "cancelled"}
              /\ published'[run[r].policy] \in {"nothing", published[run[r].policy]}
         /\ run'[r].status = "succeeded" =>
              /\ published[run[r].policy] = "nothing"
              /\ published'[run[r].policy] = "latest"
              /\ lease'[run[r].policy] = NoLease
  <1> DEFINE Goal ==
        /\ run[r].cancel =>
             /\ run'[r].status \in {run[r].status, "running", "cancelled"}
             /\ published'[run[r].policy] \in {"nothing", published[run[r].policy]}
        /\ run'[r].status = "succeeded" =>
             /\ published[run[r].policy] = "nothing"
             /\ published'[run[r].policy] = "latest"
             /\ lease'[run[r].policy] = NoLease
  <1>0. TypeOK /\ RowInv /\ TaskInv
    BY InvParts
  <1>1. run[r].status \in {"queued", "running"} /\ run[r].policy \in Policies
    BY <1>0 DEF IsActive, ActiveStatuses, RowInv, RowsWellFormed
  <1>2. ASSUME run'[r].status \in {run[r].status, "running", "cancelled"},
               published'[run[r].policy] \in {"nothing", published[run[r].policy]}
        PROVE  Goal
    BY <1>1, <1>2
  <1>3. ASSUME run'[r].status = run[r].status, UNCHANGED published PROVE Goal
    BY <1>2, <1>3
  <1>4. CASE UNCHANGED vars
    BY <1>3, <1>4 DEF vars
  <1>5. CASE OperatorNext
    <2>1. ASSUME NEW p, NEW t, Enqueue(p, t)
          PROVE  run'[r].status = run[r].status /\ UNCHANGED published
      <3>1. \A q \in Runs : run[q].status = "absent" => q # r
        BY <1>1
      <3> QED
        BY <2>1, <3>1, <1>0 DEF Enqueue, TypeOK
    <2>2. ASSUME NEW q \in Runs, RequestCancel(q)
          PROVE  run'[r].status \in {run[r].status, "cancelled"} /\ UNCHANGED published
      <3>1. [Ended(q, "cancelled") EXCEPT !.cancel = TRUE].status = "cancelled"
        <4>1. Ended(q, "cancelled") \in RunRow /\ Ended(q, "cancelled").status = "cancelled"
          BY <1>0, EndedType, EndedFields DEF TerminalStatuses
        <4> QED
          BY <4>1 DEF RunRow
      <3>2. [run[q] EXCEPT !.cancel = TRUE].status = run[q].status
        BY <1>0 DEF TypeOK, RunRow
      <3>3. \/ run' = [run EXCEPT ![q] = [Ended(q, "cancelled") EXCEPT !.cancel = TRUE]]
            \/ run' = [run EXCEPT ![q] = [run[q] EXCEPT !.cancel = TRUE]]
        BY <2>2 DEF RequestCancel
      <3>4. UNCHANGED published
        BY <2>2 DEF RequestCancel
      <3> QED
        BY <1>0, <3>1, <3>2, <3>3, <3>4 DEF TypeOK
    <2>3. ASSUME NEW q \in Runs, RequestCancel(q) PROVE Goal
      BY <1>2, <2>2, <2>3
    <2>4. ASSUME NEW p, NEW t, Enqueue(p, t) PROVE Goal
      BY <1>3, <2>1, <2>4
    <2>5. CASE \E p \in Policies : QueuePreview(p)
      BY <2>4, <2>5 DEF QueuePreview
    <2>6. CASE \E q \in Runs : Retry(q)
      BY <2>4, <2>6 DEF Retry
    <2>7. CASE ChangeLifecycle \/ \E p \in Policies, plan \in {"manual", "due"} : UpdatePolicy(p, plan)
      BY <1>3, <2>7 DEF ChangeLifecycle, UpdatePolicy
    <2> QED
      BY <1>5, <2>3, <2>5, <2>6, <2>7 DEF OperatorNext
  <1>6. ASSUME NEW o \in Owners, ClaimNext(o) PROVE Goal
    <2>1. ASSUME NEW kind, NEW q, NEW p \in Policies, NEW t, BeginTask(o, kind, q, p, t)
          PROVE  published'[run[r].policy] \in {"nothing", published[run[r].policy]}
      BY <1>0, <1>1, <2>1 DEF BeginTask, TypeOK
    <2>2. GivenUp[r].status \in {run[r].status, Unsuccessful(r)}
      <3>1. Ended(r, Unsuccessful(r)).status = Unsuccessful(r)
        BY <1>0, EndedFields
      <3> QED
        BY <3>1 DEF GivenUp
    <2>3. CASE ClaimRun(o)
      <3>1. ASSUME NEW q \in Claimable, run' = [GivenUp EXCEPT ![q] = Claimed(q, o)]
            PROVE  run'[r].status \in {run[r].status, "running", Unsuccessful(r)}
        <4>1. q \in Runs /\ run' \in [Runs -> RunRow]
          BY <1>0, <3>1, GivenUpType, ClaimedType DEF Claimable
        <4>2. Claimed(q, o).status = "running"
          BY <1>0, <4>1, ClaimedFields
        <4>3. run'[r] = IF r = q THEN Claimed(q, o) ELSE GivenUp[r]
          BY <1>0, <3>1, GivenUpType
        <4> QED
          BY <2>2, <4>2, <4>3
      <3>2. \A q \in Claimable : run[q].policy \in Policies
        BY <1>0 DEF Claimable, Waiting, RowInv, RowsWellFormed
      <3>3. /\ run'[r].status \in {run[r].status, "running", Unsuccessful(r)}
            /\ published'[run[r].policy] \in {"nothing", published[run[r].policy]}
        BY <2>1, <2>2, <2>3, <3>1, <3>2 DEF ClaimRun
      <3> QED
        BY <1>1, <3>3 DEF Unsuccessful
    <2>4. CASE \E p \in Policies : ClaimDue(o, p) \/ ClaimNow(o, p)
      <3>1. /\ run' = run
            /\ published'[run[r].policy] \in {"nothing", published[run[r].policy]}
        BY <2>1, <2>4 DEF ClaimDue, ClaimNow, LeaseDirectly
      <3> QED
        BY <1>2, <3>1
    <2>5. CASE StartCycle(o) \/ EndCycle(o)
      BY <1>3, <2>5 DEF StartCycle, EndCycle
    <2> QED
      BY <1>6, <2>3, <2>4, <2>5 DEF ClaimNext
  <1>7. ASSUME NEW o \in Owners, ExecuteNext(o) PROVE Goal
    <2> DEFINE q == task[o].run
    <2>1. ASSUME Renew(o) PROVE run'[r].status = run[r].status
      BY <1>0, <2>1 DEF Renew, TypeOK, RunRow
    <2>2. ASSUME task[o].kind = "run", HoldsRun(o)
          PROVE  /\ q \in Runs /\ run[q].policy \in Policies /\ task[o].latest
                 /\ published[run[q].policy] = "nothing"
                 /\ q # r => run[q].policy # run[r].policy
      <3>1. /\ q \in Runs /\ IsActive(q) /\ task[o].latest
            /\ run[q].policy = task[o].policy /\ task[o].policy \in Policies
        BY <1>0, <2>2, RunHolder DEF HoldsRun
      <3>2. published[task[o].policy] = "nothing"
        BY <1>0, <3>1 DEF TaskInv, TasksWellFormed
      <3> QED
        BY <1>0, <3>1, <3>2 DEF RowInv, OneActiveRun
    <2>3. ASSUME NEW s, run' = [run EXCEPT ![q] = Ended(q, s)], q \in Runs
          PROVE  /\ q = r => run'[r].status = s
                 /\ q # r => run'[r] = run[r]
      BY <1>0, <2>3, EndedFields DEF TypeOK
    <2>4. CASE PublishRun(o)
      <3>1. /\ q \in Runs /\ run[q].policy \in Policies /\ task[o].latest
            /\ published[run[q].policy] = "nothing"
            /\ q # r => run[q].policy # run[r].policy
            /\ lease' = Release(run[q].policy)
        BY <2>2, <2>4 DEF PublishRun
      <3>2. CASE run[q].cancel
        <4>1. run' = [run EXCEPT ![q] = Ended(q, "cancelled")] /\ UNCHANGED published
          BY <2>4, <3>2 DEF PublishRun
        <4>2. run'[r].status \in {run[r].status, "cancelled"}
          BY <2>3, <3>1, <4>1
        <4> QED
          BY <1>2, <4>1, <4>2
      <3>3. CASE ~run[q].cancel
        <4>1. run' = [run EXCEPT ![q] = Ended(q, "succeeded")]
              /\ published' = [published EXCEPT ![run[q].policy] = "latest"]
          BY <2>4, <3>1, <3>3 DEF PublishRun, PublishEvidence
        <4>2. CASE q = r
          <5>1. published'[run[r].policy] = "latest" /\ lease'[run[r].policy] = NoLease
            BY <1>0, <3>1, <4>1, <4>2 DEF TypeOK, Release
          <5> QED
            BY <3>1, <3>3, <4>2, <5>1
        <4>3. CASE q # r
          <5>1. run'[r] = run[r] /\ published'[run[r].policy] = published[run[r].policy]
            BY <1>0, <2>3, <3>1, <4>1, <4>3 DEF TypeOK
          <5> QED
            BY <1>2, <5>1
        <4> QED
          BY <4>2, <4>3
      <3> QED
        BY <3>2, <3>3
    <2>5. CASE RecordRunFailure(o)
      <3>1. /\ task[o].kind = "run" /\ HoldsRun(o) /\ UNCHANGED published
            /\ \E s \in {"cancelled", Unsuccessful(q)} :
                 run' = [run EXCEPT ![q] = Ended(q, s)]
        BY <2>5 DEF RecordRunFailure
      <3>2. run'[r].status \in {run[r].status, "cancelled", Unsuccessful(r)}
        BY <2>2, <2>3, <3>1
      <3> QED
        BY <1>1, <3>1, <3>2 DEF Unsuccessful
    <2>6. CASE PublishDirect(o)
      <3>1. /\ task[o].kind = "direct" /\ lease[task[o].policy].owner = o
            /\ run' = run /\ PublishEvidence(o, task[o].policy)
        BY <2>6 DEF PublishDirect, HoldsPolicy
      <3>2. task[o].policy \in Policies /\ task[o].policy # run[r].policy
        BY <1>0, <3>1, DirectHolder DEF HasActiveRun
      <3>3. published'[run[r].policy] = published[run[r].policy]
        BY <1>0, <1>1, <3>1, <3>2 DEF PublishEvidence, TypeOK
      <3> QED
        BY <1>2, <3>1, <3>3
    <2>7. CASE Heartbeat(o) \/ ReadComplete(o)
      BY <1>3, <2>1, <2>7 DEF Heartbeat, ReadComplete
    <2>8. CASE LeaseLost(o) \/ NoticeCancel(o) \/ Raise(o) \/ RecordDirectFailure(o)
               \/ FinishUnrecorded(o)
      BY <1>3, <2>8
         DEF LeaseLost, NoticeCancel, Raise, RecordDirectFailure, FinishUnrecorded
    <2> QED
      BY <1>7, <2>4, <2>5, <2>6, <2>7, <2>8 DEF ExecuteNext
  <1>8. CASE EnvironmentNext
    <2>1. CASE Tick
      <3>1. run'[r].status = run[r].status /\ UNCHANGED published
        BY <1>0, <2>1 DEF Tick, TypeOK, RunRow
      <3> QED
        BY <1>3, <3>1
    <2> QED
      BY <1>3, <1>8, <2>1 DEF EnvironmentNext, ComesDue, Crash
  <1> QED
    BY <1>4, <1>5, <1>6, <1>7, <1>8 DEF Next

\* An unused row can only become a queued one.
LEMMA AbsentRow ==
  ASSUME IInv, [Next]_vars, NEW r \in Runs, run[r].status = "absent"
  PROVE  run'[r].status # "succeeded"
  <1>0. TypeOK /\ RowInv /\ TaskInv
    BY InvParts
  <1>1. CASE UNCHANGED vars
    BY <1>1 DEF vars
  <1>2. CASE OperatorNext
    <2>1. ASSUME NEW p, NEW t, Enqueue(p, t) PROVE run'[r].status # "succeeded"
      <3>1. [NoRun EXCEPT !.status = "queued", !.policy = p, !.trigger = t].status = "queued"
        BY DEF NoRun
      <3> QED
        BY <2>1, <3>1, <1>0 DEF Enqueue, TypeOK
    <2>2. ASSUME NEW q \in Runs, RequestCancel(q) PROVE run'[r] = run[r]
      BY <2>2, <1>0 DEF RequestCancel, TypeOK
    <2> QED
      BY <1>2, <2>1, <2>2
         DEF OperatorNext, QueuePreview, Retry, UpdatePolicy, ChangeLifecycle
  <1>3. ASSUME NEW o \in Owners, ClaimNext(o) PROVE run'[r] = run[r]
    <2>1. GivenUp[r] = run[r] /\ r \notin Claimable
      BY DEF GivenUp, Exhausted, Claimable, Waiting
    <2>2. CASE ClaimRun(o)
      BY <1>0, <2>1, <2>2, GivenUpType DEF ClaimRun
    <2> QED
      BY <1>3, <2>2 DEF ClaimNext, StartCycle, EndCycle, ClaimDue, ClaimNow, LeaseDirectly
  <1>4. ASSUME NEW o \in Owners, ExecuteNext(o) PROVE run'[r] = run[r]
    <2>1. CASE Renew(o)
      BY <1>0, <2>1 DEF Renew, CanRenew, TypeOK
    <2>2. ASSUME HoldsRun(o), NEW s, run' = [run EXCEPT ![task[o].run] = Ended(task[o].run, s)]
          PROVE  run'[r] = run[r]
      BY <1>0, <2>2 DEF HoldsRun, TypeOK
    <2> QED
      BY <1>4, <2>1, <2>2
         DEF ExecuteNext, Heartbeat, ReadComplete, LeaseLost, NoticeCancel, Raise,
             PublishRun, RecordRunFailure, PublishDirect, RecordDirectFailure,
             FinishUnrecorded
  <1>5. CASE EnvironmentNext
    <2>1. CASE Tick
      <3>1. run'[r].status = run[r].status
        BY <1>0, <2>1 DEF Tick, TypeOK, RunRow
      <3> QED
        BY <3>1
    <2> QED
      BY <1>5, <2>1 DEF EnvironmentNext, ComesDue, Crash
  <1> QED
    BY <1>1, <1>2, <1>3, <1>4, <1>5 DEF Next

\* Once cancellation was asked for, an active run can only end as cancelled.
THEOREM CancellationWins == Spec => CancelWins
  <1>1. IInv /\ [Next]_vars =>
          [\A r \in Runs : IsActive(r) /\ run[r].cancel =>
             /\ run'[r].status \in {run[r].status, "running", "cancelled"}
             /\ published'[run[r].policy] # "nothing" =>
                   published'[run[r].policy] = published[run[r].policy]]_vars
    BY RowOutcome
  <1> QED
    BY <1>1, Invariant, PTL DEF Spec, CancelWins

\* A run succeeds, publishes and releases its policy in one step.
THEOREM SuccessIsPublication == Spec => SuccessPublishes
  <1>1. IInv /\ [Next]_vars =>
          [\A r \in Runs : run[r].status # "succeeded" /\ run'[r].status = "succeeded" =>
             /\ published[run[r].policy] = "nothing"
             /\ published'[run[r].policy] = "latest"
             /\ lease'[run[r].policy] = NoLease]_vars
    <2> SUFFICES ASSUME IInv, [Next]_vars, NEW r \in Runs,
                        run[r].status # "succeeded", run'[r].status = "succeeded"
                 PROVE  /\ published[run[r].policy] = "nothing"
                        /\ published'[run[r].policy] = "latest"
                        /\ lease'[run[r].policy] = NoLease
      OBVIOUS
    <2>1. IsActive(r)
      <3>1. run[r].status \notin TerminalStatuses
        BY TerminalRowStays
      <3>2. run[r].status # "absent"
        BY AbsentRow
      <3>3. TypeOK
        BY InvParts
      <3> QED
        BY <3>1, <3>2, <3>3 DEF TypeOK, RunRow, IsActive
    <2> QED
      BY <2>1, RowOutcome
  <1> QED
    BY <1>1, Invariant, PTL DEF Spec, SuccessPublishes

\* Outcomes are true to what happened, for every number of policies, processes and runs:
\* the two properties of the endings of a run, together.
THEOREM OutcomesAreEarned == Spec => OutcomesAreTrue
  BY CancellationWins, SuccessIsPublication DEF OutcomesAreTrue

============================================================================
