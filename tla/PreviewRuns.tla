---------------------------- MODULE PreviewRuns ----------------------------
(***************************************************************************)
(* Durable integration previews: the sync_runs queue, the lease of every   *)
(* saved CI policy (integration_ci_policies.lease_owner / lease_until) and *)
(* the processes that compete for them - background worker cycles, which   *)
(* drain the queue and then run due policies, and API requests that run a  *)
(* policy directly.                                                        *)
(*                                                                         *)
(* An action is one PostgreSQL transaction of PostgresCmdbRepository (row  *)
(* locks make each one atomic) or one local step of a process between two  *)
(* transactions. Timestamps are kept as the time that is left: 1 and more  *)
(* is "until > now()", 0 is "until = now()", -1 is "until < now()" or NULL.*)
(***************************************************************************)
EXTENDS Integers

CONSTANTS
    Policies,     \* saved CI sync policies
    Owners,       \* lease-owner strings: "<pid>:<uuid>", "manual:<user>:<uuid>"
    None,         \* SQL NULL
    Triggers,     \* "scheduled", and possibly "unscheduled"
    MaxRuns,      \* bound: rows that are ever queued
    MaxAttempts,  \* sync_runs.max_attempts, 3 in the code
    MaxFailures,  \* bound: consecutive_failures is counted up to here
    RunLease, DirectLease, QueuedLease   \* 180 s, 300 s and 1 h, in ticks

Runs == 1..MaxRuns

\* A schedule trigger is "manual_preview", "manual_sync" or "continuous_preview".
\* What counts is whether the outcome moves the policy's schedule: the last two
\* are "scheduled", the first is "unscheduled".
ASSUME TriggerAssumption ==
    {"scheduled"} \subseteq Triggers /\ Triggers \subseteq {"scheduled", "unscheduled"}

ASSUME PreviewAssumption ==
    /\ None \notin Owners \cup Policies \cup Runs
    /\ Owners \cap Runs = {}
    /\ MaxRuns \in Nat \ {0} /\ MaxAttempts \in Nat \ {0}
    /\ MaxFailures \in Nat
    /\ RunLease \in Nat \ {0} /\ DirectLease \in Nat \ {0}
    /\ QueuedLease \in Nat \ {0}

VARIABLES
    active,     \* the connection is enabled and its lifecycle_status is active
    run,        \* sync_runs rows
    lease,      \* lease_owner and time left of every policy
    schedule,   \* sync mode, next_run_at and consecutive_failures of a policy
    cycle,      \* what the process behind an owner string is doing
    task,       \* the preview that process is executing
    published   \* history: what was published since the latest claim on a policy

policyVars == <<lease, schedule>>
processVars == <<cycle, task>>
vars == <<active, run, lease, schedule, cycle, task, published>>

----------------------------------------------------------------------------
(* Data *)

ActiveStatuses == {"queued", "running"}
TerminalStatuses == {"succeeded", "failed", "cancelled"}

RunRow == [status : {"absent"} \cup ActiveStatuses \cup TerminalStatuses,
           policy : Policies \cup {None},
           trigger : Triggers \cup {None},
           attempts : 0..MaxAttempts,
           owner : Owners \cup {None},
           left : Int,
           cancel : BOOLEAN]

\* A policy is leased by a process, or reserved for a queued run ("queued:<id>",
\* here the run itself).
LeaseRow == [owner : Owners \cup Runs \cup {None}, left : Int]

\* next_run_at of an enabled continuous policy is due or later; that of any
\* other policy is NULL, its plan is manual.
ScheduleRow == [plan : {"manual", "due", "later"}, failures : 0..MaxFailures]

TaskRow == [kind : {"idle", "run", "direct"},
            run : Runs \cup {None},
            policy : Policies \cup {None},
            trigger : Triggers \cup {None},
            phase : {"none", "claimed", "reading", "persisting",
                     "cancelling", "failing"},
            latest : BOOLEAN]    \* history: the policy was not claimed since

\* The time left of a lease that is over, or that there never was.
Past == -1

NoRun == [status |-> "absent", policy |-> None, trigger |-> None,
          attempts |-> 0, owner |-> None, left |-> Past, cancel |-> FALSE]
NoLease == [owner |-> None, left |-> Past]
NoTask == [kind |-> "idle", run |-> None, policy |-> None, trigger |-> None,
           phase |-> "none", latest |-> FALSE]

IsActive(r) == run[r].status \in ActiveStatuses
\* Mutants: a queued run does not count, a finished run counts.
HasRunningRun(p) == \E r \in Runs : run[r].status = "running" /\ run[r].policy = p
HasAnyRun(p) == \E r \in Runs : run[r].policy = p

HasActiveRun(p) == \E r \in Runs : IsActive(r) /\ run[r].policy = p

\* The lease owner a policy shows while run r is active.
PolicyOwnerOf(r) == IF run[r].status = "queued" THEN r ELSE run[r].owner

Idle(o) == task[o].kind = "idle"

\* An owner string carries a fresh uuid, so no row refers to it yet.
Fresh(o) ==
    /\ cycle[o] = "off"
    /\ \A p \in Policies : lease[p].owner # o
    /\ \A r \in Runs : run[r].owner # o

----------------------------------------------------------------------------
(* Pieces of transactions *)

\* The row is finished and its own lease cleared.
Ended(r, s) == [run[r] EXCEPT !.status = s, !.owner = None, !.left = Past]

\* The status a run that did not succeed ends in.
Unsuccessful(r) == IF run[r].cancel THEN "cancelled" ELSE "failed"

\* next_run_at moves by the interval or by the retry delay.
Replanned(p) == IF schedule[p].plan = "manual" THEN "manual" ELSE "later"

AfterSuccess(p) ==
    [schedule EXCEPT ![p] = [@ EXCEPT !.plan = Replanned(p), !.failures = 0]]

OneMoreFailure(p) == IF schedule[p].failures < MaxFailures
                     THEN schedule[p].failures + 1 ELSE schedule[p].failures

AfterFailure(p) ==
    [schedule EXCEPT ![p] =
        [@ EXCEPT !.plan = Replanned(p), !.failures = OneMoreFailure(p)]]

Release(p) == [lease EXCEPT ![p] = NoLease]

\* Mutants: the row is found by its id, or while anybody runs it.
HoldsRunById(o) == run[task[o].run].status # "absent"
HoldsRunOfAnyone(o) == run[task[o].run].status = "running"

\* SELECT ... WHERE status = 'running' AND both leases are this owner's and live.
HoldsRun(o) ==
    LET r == task[o].run
        p == run[r].policy
    IN  /\ run[r].status = "running"
        /\ run[r].owner = o /\ run[r].left > 0
        /\ lease[p].owner = o /\ lease[p].left > 0

\* Mutant: any live lease will do.
HoldsPolicyOfAnyone(o) == lease[task[o].policy].left > 0

\* ... WHERE policy.lease_owner = owner AND policy.lease_until > now().
HoldsPolicy(o) ==
    /\ lease[task[o].policy].owner = o
    /\ lease[task[o].policy].left > 0

\* The process turns to its next job, or its request ends.
Finish(o) ==
    /\ task' = [task EXCEPT ![o] = NoTask]
    /\ cycle' = [cycle EXCEPT ![o] = IF @ = "request" THEN "off" ELSE @]

\* A process starts executing its claim, from now on the latest one on the
\* policy.
BeginTask(o, kind, r, p, t) ==
    /\ task' = [q \in Owners |->
                  IF q = o
                  THEN [kind |-> kind, run |-> r, policy |-> p, trigger |-> t,
                        phase |-> "claimed", latest |-> TRUE]
                  ELSE IF task[q].policy = p
                       THEN [task[q] EXCEPT !.latest = FALSE] ELSE task[q]]
    /\ published' = [published EXCEPT ![p] = "nothing"]

\* Review items and presence of the policy are replaced by this process.
PublishEvidence(o, p) ==
    published' = [published EXCEPT ![p] =
                    IF task[o].latest THEN "latest" ELSE "overtaken"]

----------------------------------------------------------------------------
(* Operators: queue, retry and cancel runs, edit policies, pause *)

Init ==
    /\ active = TRUE
    /\ run = [r \in Runs |-> NoRun]
    /\ lease = [p \in Policies |-> NoLease]
    /\ schedule \in [Policies -> [plan : {"manual", "due"}, failures : {0}]]
    /\ cycle = [o \in Owners |-> "off"]
    /\ task = [o \in Owners |-> NoTask]
    /\ published = [p \in Policies |-> "nothing"]

\* Insert a queued row and reserve the policy for it. While the policy has an
\* active run that run is returned instead, and a live lease is an error;
\* neither changes anything. Rows are numbered in the order of requested_at.
Enqueue(p, t) ==
    /\ active
    /\ ~HasActiveRun(p)
    /\ lease[p].left <= 0
    /\ \E r \in Runs :
          /\ run[r].status = "absent"
          /\ \A q \in Runs : q < r => run[q].status # "absent"
          /\ run' = [run EXCEPT ![r] = [NoRun EXCEPT !.status = "queued",
                                          !.policy = p, !.trigger = t]]
          /\ lease' = [lease EXCEPT ![p] = [owner |-> r, left |-> QueuedLease]]
    /\ UNCHANGED <<active, schedule, processVars, published>>

\* "manual_preview" and "manual_sync".
QueuePreview(p) == \E t \in Triggers : Enqueue(p, t)

\* A retry is a new row that keeps the schedule trigger of the failed or
\* cancelled run it was made from. (The failed row of a direct preview can be
\* retried too; what is queued then does not differ from QueuePreview.)
Retry(r) ==
    /\ run[r].status \in {"failed", "cancelled"}
    /\ Enqueue(run[r].policy, run[r].trigger)

\* The leases without the reservation of queued run r.
WithoutReservation(r) ==
    IF lease[run[r].policy].owner = r THEN Release(run[r].policy) ELSE lease

\* Queued work is cancelled at once; running work is only flagged.
RequestCancel(r) ==
    /\ \/ /\ run[r].status = "queued"
          /\ run' = [run EXCEPT ![r] = [Ended(r, "cancelled") EXCEPT !.cancel = TRUE]]
          /\ lease' = WithoutReservation(r)
       \/ /\ run[r].status = "running"
          /\ run' = [run EXCEPT ![r].cancel = TRUE]
          /\ UNCHANGED lease
    /\ UNCHANGED <<active, schedule, processVars, published>>

\* Saving a policy makes a continuous one due now. Its lease is left alone.
UpdatePolicy(p, plan) ==
    /\ schedule' = [schedule EXCEPT ![p].plan = plan]
    /\ UNCHANGED <<active, run, lease, processVars, published>>

\* Pause, disable or reactivate the connection. Runs and leases are kept.
ChangeLifecycle ==
    /\ active' = ~active
    /\ UNCHANGED <<run, policyVars, processVars, published>>

----------------------------------------------------------------------------
(* Claims *)

\* _run_due_integration_previews starts with a new worker id.
StartCycle(o) ==
    /\ Fresh(o)
    /\ cycle' = [cycle EXCEPT ![o] = "start"]
    /\ UNCHANGED <<active, run, policyVars, task, published>>

\* The cycle has processed its limit, or found nothing more that is due.
EndCycle(o) ==
    /\ cycle[o] \in {"drain", "due"} /\ Idle(o)
    /\ cycle' = [cycle EXCEPT ![o] = "off"]
    /\ UNCHANGED <<active, run, policyVars, task, published>>

\* Mutant: expired running rows are not claimed again.
WaitingUnclaimed(r) == run[r].status = "queued"

Waiting(r) ==
    \/ run[r].status = "queued"
    \/ run[r].status = "running" /\ run[r].left <= 0

Exhausted == {r \in Runs : Waiting(r) /\ run[r].attempts >= MaxAttempts}

Claimable == {r \in Runs : active /\ Waiting(r) /\ run[r].attempts < MaxAttempts}

\* ORDER BY queued first, then the age of the request.
ClaimedFirst(r) ==
    \A q \in Claimable :
        \/ run[r].status = "queued" /\ run[q].status = "running"
        \/ run[r].status = run[q].status /\ r <= q

\* Rows after the exhausted ones were given up.
GivenUp == [r \in Runs |-> IF r \in Exhausted THEN Ended(r, Unsuccessful(r))
                                              ELSE run[r]]

LeasesAfterGivingUp ==
    [p \in Policies |->
        IF \E r \in Exhausted : run[r].policy = p /\ lease[p].owner = PolicyOwnerOf(r)
        THEN NoLease ELSE lease[p]]

Claimed(r, o) == [run[r] EXCEPT !.status = "running", !.attempts = @ + 1,
                               !.owner = o, !.left = RunLease]

\* One transaction ends every exhausted run and claims at most one other.
ClaimRun(o) ==
    /\ cycle[o] \in {"start", "drain"} /\ Idle(o)
    /\ \/ \E r \in Claimable :
             /\ ClaimedFirst(r)
             /\ run' = [GivenUp EXCEPT ![r] = Claimed(r, o)]
             /\ lease' = [LeasesAfterGivingUp EXCEPT ![run[r].policy] =
                            [owner |-> o, left |-> RunLease]]
             /\ BeginTask(o, "run", r, run[r].policy, run[r].trigger)
             /\ cycle' = [cycle EXCEPT ![o] = "drain"]
       \/ /\ Claimable = {}
          /\ run' = GivenUp
          /\ lease' = LeasesAfterGivingUp
          /\ cycle' = [cycle EXCEPT ![o] = "due"]
          /\ UNCHANGED <<task, published>>
    /\ UNCHANGED <<active, schedule>>

\* Mutant: only the lease is looked at.
LeasableWhenExpired(p) == active /\ lease[p].left < 0

\* A policy can be leased for a direct preview.
Leasable(p) ==
    /\ active
    /\ lease[p].left < 0
    /\ ~HasActiveRun(p)

LeaseDirectly(o, p, t) ==
    /\ lease' = [lease EXCEPT ![p] = [owner |-> o, left |-> DirectLease]]
    /\ BeginTask(o, "direct", None, p, t)
    /\ UNCHANGED <<active, run, schedule>>

\* A cycle that drained the queue leases a due continuous policy.
ClaimDue(o, p) ==
    /\ cycle[o] = "due" /\ Idle(o)
    /\ Leasable(p)
    /\ schedule[p].plan = "due"
    /\ LeaseDirectly(o, p, "scheduled")
    /\ UNCHANGED cycle

\* An API request leases a saved policy whatever its schedule says.
ClaimNow(o, p) ==
    /\ Fresh(o)
    /\ Leasable(p)
    /\ \E t \in Triggers : LeaseDirectly(o, p, t)
    /\ cycle' = [cycle EXCEPT ![o] = "request"]

----------------------------------------------------------------------------
(* Execution of a claim *)

Executing(o, phases) == ~Idle(o) /\ task[o].phase \in phases

\* A queued run's lease is renewed while the row is still this owner's, even
\* after it expired; a direct lease only while it has not expired.
CanRenew(o) ==
    IF task[o].kind = "run"
    THEN run[task[o].run].status = "running" /\ run[task[o].run].owner = o
    ELSE HoldsPolicy(o)

Renew(o) ==
    /\ CanRenew(o)
    /\ IF task[o].kind = "run"
       THEN /\ run' = [run EXCEPT ![task[o].run].left = RunLease]
            /\ lease' = [lease EXCEPT ![run[task[o].run].policy] =
                           [owner |-> o, left |-> RunLease]]
       ELSE /\ lease' = [lease EXCEPT ![task[o].policy].left = DirectLease]
            /\ UNCHANGED run

\* is_sync_run_cancel_requested for this owner.
CancelSeen(o) ==
    /\ task[o].kind = "run"
    /\ run[task[o].run].owner = o /\ run[task[o].run].cancel

\* Progress callbacks renew the lease while the provider is read and compared.
Heartbeat(o) ==
    /\ Executing(o, {"claimed", "reading", "persisting"})
    /\ Renew(o)
    /\ task' = [task EXCEPT ![o].phase = IF @ = "claimed" THEN "reading" ELSE @]
    /\ UNCHANGED <<active, schedule, cycle, published>>

\* Everything was read: check for cancellation, renew once more, publish next.
ReadComplete(o) ==
    /\ Executing(o, {"reading"})
    /\ ~CancelSeen(o)
    /\ Renew(o)
    /\ task' = [task EXCEPT ![o].phase = "persisting"]
    /\ UNCHANGED <<active, schedule, cycle, published>>

\* A renewal or a terminal transaction finds the claim gone: the process stops
\* and writes nothing.
LeaseLost(o) ==
    /\ \/ Executing(o, {"claimed", "reading", "persisting"}) /\ ~CanRenew(o)
       \/ /\ Executing(o, {"persisting", "failing", "cancelling"})
          /\ IF task[o].kind = "run" THEN ~HoldsRun(o) ELSE ~HoldsPolicy(o)
    /\ Finish(o)
    /\ UNCHANGED <<active, run, policyVars, published>>

NoticeCancel(o) ==
    /\ Executing(o, {"reading", "persisting"})
    /\ CancelSeen(o)
    /\ task' = [task EXCEPT ![o].phase = "cancelling"]
    /\ UNCHANGED <<active, run, policyVars, cycle, published>>

\* The provider, the comparison or a transaction raises.
Raise(o) ==
    /\ Executing(o, {"claimed", "reading", "persisting"})
    /\ task' = [task EXCEPT ![o].phase = "failing"]
    /\ UNCHANGED <<active, run, policyVars, cycle, published>>

\* Publish review items and end the run in one transaction, unless an operator
\* asked for cancellation first.
PublishRun(o) ==
    LET r == task[o].run
        p == run[r].policy
    IN  /\ Executing(o, {"persisting"}) /\ task[o].kind = "run"
        /\ HoldsRun(o)
        /\ lease' = Release(p)
        /\ IF run[r].cancel
           THEN /\ run' = [run EXCEPT ![r] = Ended(r, "cancelled")]
                /\ UNCHANGED <<schedule, published>>
           ELSE /\ run' = [run EXCEPT ![r] = Ended(r, "succeeded")]
                /\ PublishEvidence(o, p)
                /\ schedule' = IF run[r].trigger = "scheduled"
                               THEN AfterSuccess(p) ELSE schedule
        /\ Finish(o)
        /\ UNCHANGED <<active>>

\* Record the failure or the cancellation of an owned run.
RecordRunFailure(o) ==
    LET r == task[o].run
        p == run[r].policy
        s == IF task[o].phase = "cancelling" THEN "cancelled" ELSE Unsuccessful(r)
    IN  /\ Executing(o, {"failing", "cancelling"}) /\ task[o].kind = "run"
        /\ HoldsRun(o)
        /\ run' = [run EXCEPT ![r] = Ended(r, s)]
        /\ lease' = Release(p)
        /\ schedule' = IF s = "failed" /\ run[r].trigger = "scheduled"
                       THEN AfterFailure(p) ELSE schedule
        /\ Finish(o)
        /\ UNCHANGED <<active, published>>

\* Insert the terminal row of a direct preview, publish and finish the policy.
PublishDirect(o) ==
    LET p == task[o].policy
    IN  /\ Executing(o, {"persisting"}) /\ task[o].kind = "direct"
        /\ HoldsPolicy(o)
        /\ PublishEvidence(o, p)
        /\ lease' = Release(p)
        /\ schedule' = IF task[o].trigger = "scheduled"
                       THEN AfterSuccess(p) ELSE schedule
        /\ Finish(o)
        /\ UNCHANGED <<active, run>>

\* Insert the failed row of a direct preview and finish the policy.
RecordDirectFailure(o) ==
    LET p == task[o].policy
        t == task[o].trigger
    IN  /\ Executing(o, {"failing"}) /\ task[o].kind = "direct"
        /\ HoldsPolicy(o)
        /\ lease' = Release(p)
        /\ schedule' = IF t = "scheduled" THEN AfterFailure(p) ELSE schedule
        /\ Finish(o)
        /\ UNCHANGED <<active, run, published>>

\* The failure itself could not be stored: a worker finishes the policy through
\* the fallback, which checks the owner but not the expiry.
FinishUnrecorded(o) ==
    LET p == task[o].policy
    IN  /\ Executing(o, {"failing"}) /\ task[o].kind = "direct" /\ cycle[o] = "due"
        /\ IF lease[p].owner = o
           THEN lease' = Release(p) /\ schedule' = AfterFailure(p)
           ELSE UNCHANGED policyVars
        /\ Finish(o)
        /\ UNCHANGED <<active, run, published>>

----------------------------------------------------------------------------
(* Environment *)

\* The process dies. Its leases stay behind until they expire.
Crash(o) ==
    /\ cycle[o] # "off"
    /\ cycle' = [cycle EXCEPT ![o] = "off"]
    /\ task' = [task EXCEPT ![o] = NoTask]
    /\ UNCHANGED <<active, run, policyVars, published>>

Elapse(n) == IF n > Past THEN n - 1 ELSE n

\* Time passes.
Tick ==
    /\ \/ \E p \in Policies : lease[p].left > Past
       \/ \E r \in Runs : run[r].left > Past
    /\ run' = [r \in Runs |-> [run[r] EXCEPT !.left = Elapse(@)]]
    /\ lease' = [p \in Policies |-> [lease[p] EXCEPT !.left = Elapse(@)]]
    /\ UNCHANGED <<active, schedule, processVars, published>>

\* next_run_at is reached.
ComesDue(p) ==
    /\ schedule[p].plan = "later"
    /\ schedule' = [schedule EXCEPT ![p].plan = "due"]
    /\ UNCHANGED <<active, run, lease, processVars, published>>

----------------------------------------------------------------------------

OperatorNext ==
    \/ \E p \in Policies : QueuePreview(p)
    \/ \E p \in Policies, plan \in {"manual", "due"} : UpdatePolicy(p, plan)
    \/ \E r \in Runs : RequestCancel(r) \/ Retry(r)
    \/ ChangeLifecycle

ClaimNext(o) ==
    \/ StartCycle(o) \/ EndCycle(o) \/ ClaimRun(o)
    \/ \E p \in Policies : ClaimDue(o, p) \/ ClaimNow(o, p)

ExecuteNext(o) ==
    \/ Heartbeat(o) \/ ReadComplete(o) \/ LeaseLost(o)
    \/ NoticeCancel(o) \/ Raise(o)
    \/ PublishRun(o) \/ RecordRunFailure(o)
    \/ PublishDirect(o) \/ RecordDirectFailure(o) \/ FinishUnrecorded(o)

EnvironmentNext ==
    \/ Tick
    \/ \E p \in Policies : ComesDue(p)
    \/ \E o \in Owners : Crash(o)

Next ==
    \/ OperatorNext
    \/ \E o \in Owners : ClaimNext(o) \/ ExecuteNext(o)
    \/ EnvironmentNext

Spec == Init /\ [][Next]_vars

\* A deployment keeps polling and its clock keeps running. A preview makes a
\* bounded number of provider requests, each with a timeout, so a process does
\* not renew for ever: it completes its read, and whenever it renews again and
\* again it gets to publish (strong fairness: a lease may expire in between).
\* A worker is restarted after a crash and does reach its first poll again and
\* again. Operators and crashes are never required.
Fairness ==
    /\ WF_vars(Tick)
    /\ WF_vars(\E o \in Owners : StartCycle(o))
    /\ SF_vars(\E o \in Owners : ClaimRun(o))
    /\ \A p \in Policies : SF_vars(\E o \in Owners : ClaimDue(o, p))
    /\ \A o \in Owners :
          /\ WF_vars(EndCycle(o))
          /\ SF_vars(ReadComplete(o))
          /\ SF_vars(PublishRun(o) \/ PublishDirect(o))
          /\ WF_vars(LeaseLost(o) \/ NoticeCancel(o)
                     \/ RecordRunFailure(o) \/ RecordDirectFailure(o))

FairSpec == Spec /\ Fairness

----------------------------------------------------------------------------
(* Properties *)

\* Every variable has its type.
TypeOK ==
    /\ active \in BOOLEAN
    /\ run \in [Runs -> RunRow]
    /\ lease \in [Policies -> LeaseRow]
    /\ schedule \in [Policies -> ScheduleRow]
    /\ cycle \in [Owners -> {"off", "start", "drain", "due", "request"}]
    /\ task \in [Owners -> TaskRow]
    /\ published \in [Policies -> {"nothing", "latest", "overtaken"}]

\* A policy has at most one queued or running run, whichever of queueing, retry
\* and the claims get to it first (create_ci_preview_run returns the active run).
OneActiveRun ==
    \A r, q \in Runs :
        IsActive(r) /\ IsActive(q) /\ run[r].policy = run[q].policy => r = q

\* While a run is active its policy is leased for exactly that run: reserved
\* while it is queued, then held by the worker that owns the row and until the
\* same moment. No path that releases or takes a policy lease can break the pair.
LeaseFollowsRun ==
    \A r \in Runs : IsActive(r) =>
        /\ lease[run[r].policy].owner = PolicyOwnerOf(r)
        /\ run[r].status = "running" => lease[run[r].policy].left = run[r].left

\* The one-hour reservation "queued:<id>" never outlives the queued run: a run
\* that was cancelled or claimed leaves no reservation that blocks the policy.
NoOrphanReservation ==
    \A p \in Policies : lease[p].owner \in Runs =>
        /\ run[lease[p].owner].status = "queued"
        /\ run[lease[p].owner].policy = p

\* Rows that were used name a policy and a trigger, only running rows have an
\* owner, and only running rows have time left.
RowsWellFormed ==
    \A r \in Runs :
        /\ run[r].status # "absent" =>
              run[r].policy \in Policies /\ run[r].trigger \in Triggers
        /\ IF run[r].status = "running" THEN run[r].owner \in Owners
           ELSE run[r].owner = None /\ run[r].left = Past
        /\ run[r].status \in {"absent", "queued"} => ~run[r].cancel

\* A process that is off executes nothing, a claim names its policy, and a policy
\* has one latest claim, which has not published yet.
TasksWellFormed ==
    \A o \in Owners :
        /\ cycle[o] = "off" => Idle(o)
        /\ IF Idle(o) THEN task[o] = NoTask ELSE task[o].policy \in Policies
        /\ task[o].kind = "run" => /\ task[o].run \in Runs
                                   /\ run[task[o].run].status # "absent"
                                   /\ run[task[o].run].policy = task[o].policy
        /\ task[o].latest =>
              /\ published[task[o].policy] = "nothing"
              /\ \A q \in Owners :
                    task[q].latest /\ task[q].policy = task[o].policy => q = o

\* Whoever is named by the row it executes, or by the policy it leased directly,
\* holds the latest claim on the policy; a direct lease excludes active runs.
HolderIsLatest ==
    \A o \in Owners :
        /\ /\ task[o].kind = "run"
           /\ run[task[o].run].status = "running" /\ run[task[o].run].owner = o
           => task[o].latest
        /\ task[o].kind = "direct" /\ lease[task[o].policy].owner = o =>
              task[o].latest /\ ~HasActiveRun(task[o].policy)

\* The inductive invariant: every step preserves it, whatever the constants.
IInv ==
    /\ TypeOK
    /\ OneActiveRun
    /\ LeaseFollowsRun
    /\ NoOrphanReservation
    /\ RowsWellFormed
    /\ TasksWellFormed
    /\ HolderIsLatest

\* Once an operator asked for cancellation, an active run ends as cancelled and
\* publishes nothing, even if every worker that runs it dies or loses its lease.
CancelWins ==
    [][\A r \in Runs : IsActive(r) /\ run[r].cancel =>
          /\ run'[r].status \in {run[r].status, "running", "cancelled"}
          /\ published'[run[r].policy] # "nothing" =>
                published'[run[r].policy] = published[run[r].policy]]_vars

\* A terminal row is never written again: a stale worker cannot overwrite the
\* outcome recorded by the worker or operator that ended the run.
TerminalRunsStay ==
    [][\A r \in Runs : run[r].status \in TerminalStatuses => run'[r] = run[r]]_vars

\* A run succeeds in the very step that publishes its evidence, and releases
\* the policy in that step.
SuccessPublishes ==
    [][\A r \in Runs : run[r].status # "succeeded" /\ run'[r].status = "succeeded" =>
          /\ published[run[r].policy] = "nothing"
          /\ published'[run[r].policy] = "latest"
          /\ lease'[run[r].policy] = NoLease]_vars

\* Outcomes are true to what happened: a run that was cancelled publishes nothing,
\* and one that succeeded has published and released its policy.
OutcomesAreTrue == CancelWins /\ SuccessPublishes

\* The latest claim on a policy is open while the process that made it still
\* executes it.
Fenced == INSTANCE FencedPublication
          WITH open <- [p \in Policies |->
                          \E o \in Owners : task[o].policy = p /\ task[o].latest]

\* Evidence is published in the order of the claims, by the latest claim only
\* and once: late results of a worker that lost its lease are discarded.
PublicationIsFenced == Fenced!FencedSpec

\* While the connection stays active every queued or running run ends, in spite
\* of crashes and lost leases: expired rows are claimed again at most
\* MaxAttempts times and then given up.
RunsEnd ==
    <>[]active => \A r \in Runs : IsActive(r) ~> run[r].status \in TerminalStatuses

\* While the connection stays active a continuous policy that is due does run, or
\* is no longer due: neither a finite queue, which every cycle drains first, nor
\* what crashed runs and requests leave behind starves it.
DuePoliciesRun ==
    <>[]active => \A p \in Policies :
        schedule[p].plan = "due" ~> \/ schedule[p].plan # "due"
                                    \/ \E o \in Owners : task[o].policy = p

\* "Failed unattended policies still use bounded exponential backoff"
\* (ARCHITECTURE.md:211): a run that moves the schedule of a continuous policy
\* and fails is counted, and the policy is not due at once. The code does not
\* do this for runs that ClaimRun gives up.
FailuresBackOff ==
    [][\A r \in Runs :
        /\ IsActive(r) /\ run[r].trigger = "scheduled"
        /\ schedule[run[r].policy].plan # "manual"
        /\ run'[r].status = "failed"
        => /\ schedule'[run[r].policy].plan # "due"
           /\ schedule'[run[r].policy].failures > 0]_vars
============================================================================
