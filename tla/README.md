# Verification of IPT CMDB

IPT CMDB reads the inventory of provider systems (N-central, ConnectWise PSA)
with background previews, keeps what they find as reviewable evidence, lets
administrators import it, notifies people by e-mail, and runs changes through a
lifecycle with sign-off by personal links; accounts are local or federated. This directory holds TLA+ models of
the parts of that work in which several actors meet, the TLC runs that check
them on small instances, and proofs of their safety properties for every
instance.

All models are of the PostgreSQL repository (`PostgresCmdbRepository` in
`src/src/cmdb/repository.py`) and of the request and worker code around it
(`src/backend/main.py`). A transaction that locks the rows it reads is one
action. Where the code reads in one transaction and writes in another, the model
has two actions, and everybody else may act in between.

Source references below are to `repository.py` (R) and `main.py` (M).

## Running

    tlc -workers 2 -config PreviewRuns_safety.cfg MCPreviewRuns
    tlapm PreviewRunsProofs.tla

`PROJECT.json` lists every run with its module, configuration and properties, the
source lines each definition stands for, the code mutation that breaks each
property, the hazards, and the theorems.

## Inventory

### Components, their state and operations

| Component | State | Operations | Interacts with |
|---|---|---|---|
| Preview runs (`create_ci_preview_run`, `_run_due_integration_previews`) | `sync_runs` rows: status, attempts, lease, cancel flag; lease, schedule and failure count of every `integration_ci_policies` row | queue, retry, cancel, claim, heartbeat, publish, fail; direct claims of policies; worker cycles | publishes review items and presence snapshots in its last transaction |
| Review queue (`apply_reviewed_provider_ci_import`) | `integration_ci_review_items`, `integration_object_suppressions`, policy filters, mappings | replace items, dismiss, ignore, restore, import, link | fed by previews; imports write CIs and presence |
| Presence (`_apply_postgres_ci_presence_snapshot`) | `integration_ci_presence`, `external_object_mappings.active` | snapshot, sighting by import, retire, restore | fed by previews and imports |
| Notifications (`_run_notification_scan`, `claim_email_outbox`) | `notification_rules`, `notification_events`, `email_outbox`, e-mail settings | scan, claim, deliver, record, retry, requeue, save | Microsoft Graph (external) |
| Change approvals (`change_control.py`, `respond_to_change_approval`) | `change_records`, `change_revisions`, `change_approval_requests` | edit, move, request sign-off, open link, answer, expire | mails links; audit |
| Change templates and impact (`change_templates.py`, `change_control.py`) | templates with versions; impact snapshots (computed) | save, seed at start-up; create and close a change; assess | changes are made from them and closed on their terms |
| Relationship candidates (`relationship_*.py`, `ncentral_relationships.py`) | suggestions with evidence and revision, relationships with an owner | observe, retire, approve, reject, automatic approval; create and delete by hand | previews, technicians |
| Enrichment cache (`nable_graphql.py`, `_cache_ncentral_graphql_assets`) | rows by generation, markers | refresh (lock, stage, mark, publish, discard), select, report | previews, links, diagnostics |
| Technical inventory (`technical_inventory.py`, `replace_ci_inventory`) | snapshots of collections, network interfaces | read, merge with the enrichment, store, retain | imports and links |
| Provider clients (`ncentral.py`) | token, pool of readers; cursor in the runs | read a window of details, renew the token | previews |
| Authentication (`mfa.py`, `reserve_local_login_attempt`) | login attempts, challenges, MFA secrets and recovery codes, sessions, recovery links, users and roles, API tokens | reserve an attempt, sign in, enrol, verify, reset, administer, revoke | every request |
| Connections and company mapping | settings with revision and lifecycle, capability snapshots; observed provider companies and mappings | save, test, pause, remove; discover, exclude, map, unmap | context of previews, imports, presence |
| CMDB records | CIs, relationships, contacts, access groups | create, read, update, delete | imports, presence, changes |
| Field authority and reconciliation | none (pure) | compare a record with the CMDB, decide the action and each field's owner | previews, imports |
| Worker runtime (`worker_runtime.py`, `backend/worker.py`) | heartbeat row | poll, drain, back off | previews, notifications |
| Migrations, reports, data quality, audit, observability, branding, frontend, infrastructure | derived or append-only | | |

`PROJECT.json` gives each of them a status and the reason for what is left out.

### What is hard

* **Leases with clocks and crashes.** A worker's claim on a run is a row with an
  owner and a time. The process goes on after the time is over; somebody else
  takes the row; both then try to publish. The policy has a lease of its own that
  has to follow the row, and direct previews compete for it.
* **Read first, write later.** Previews read a provider for minutes and imports
  for seconds before they write, while administrators dismiss, exclude and save.
  What ties the two together are revisions and content hashes.
* **Counting absences.** A device may be retired only after several complete
  snapshots under unchanged settings missed it; imports, failed previews and
  changes of the settings come in between.
* **At-most-once mail.** Microsoft Graph accepts a message in one call and the
  outcome is recorded in three separate transactions.
* **Locks of one process.** Change approvals run under `core.LOCK`, a
  `threading` lock; replicas of the service do not share it
  (docs/CHANGE_APPROVALS.md:41 calls the approval state safe for scaled
  deployment).
* **Checks outside the transaction.** Cycles of dependencies, the last administrator,
  the revision a test is labelled with and the credentials a form was opened with are
  read before the transaction that relies on them.
* **Things that may be used once.** Codes, challenges, links and reserved attempts are
  proved in one transaction and spent in another, by several replicas.
* **Old evidence after new.** Suggestions, cached generations, inventory records and
  discoveries arrive late, partly or twice.
* **Liveness.** Expired work must be taken up again, due policies must run, gone
  devices must be offered, due messages must be sent, in spite of all that.

The correctness properties of each component follow with its module.

## Modules

| Module | What it is |
|---|---|
| `PreviewRuns` | the queue of previews, policy leases, workers and direct requests |
| `FencedPublication` | the abstract promise `PreviewRuns` implements |
| `PreviewRunsProofs` | theorems about `PreviewRuns` |
| `ReviewQueue`, `ReviewQueueProofs` | review items, decisions and imports; theorems |
| `PresenceLifecycle`, `PresenceLifecycleProofs` | missing and returning devices; theorems |
| `NotificationDelivery`, `NotificationDeliveryProofs` | rule scans, outbox and deliveries; theorems |
| `ChangeApprovals`, `ChangeApprovalsProofs` | lifecycle and sign-off of one change; theorems |
| `Ballots` | the abstract promise about answers that `ChangeApprovals` implements |
| `LoginThrottle`, `Credentials`, `UserAccess` | sign-in limits; password, second factor, sessions and links of an account; users and API tokens |
| `RelationshipGraph` | relationships and the suggestions for them |
| `ChangeTemplates`, `ChangeImpact` | template versions and closure terms; what a change affects |
| `TechnicalInventory` | snapshots and interfaces of one device |
| `EnrichmentCache` | generations of the GraphQL cache |
| `ProviderConnection`, `ProviderCompanies` | settings, tests and readiness; discovered companies and mappings |
| `DetailRotation`, `DetailReads` | which devices are read in detail, and how |
| `Cmdb`, `CmdbProofs` | graph, templates, impact and inventory side by side; theorems about all four |
| `Providers`, `ProvidersProofs` | cache, connection, companies and detail reads side by side; theorems about all of them |
| `AccountsProofs` | theorems about sign-in, credentials and users |
| `MCPreviewRuns`, `MCReviewQueue`, `MCChangeApprovals` | symmetry sets for TLC |
| `MCNotifications` | two kinds of administrators for `NotificationDelivery` |
| `MCAccounts`, `MCCmdb`, `MCProviders` | one instance of each module of a group |

`Cmdb` and `Providers` put modules that share no state side by side: each step is one of
an instance and leaves the others alone. The theorems are about these. For TLC
`MCAccounts`, `MCCmdb` and `MCProviders` have a variable `part`, chosen at the start, that
says which of the instances a behaviour follows (one module may have several parts, with
different bounds in the next-state relation); the others keep their initial state. This
keeps one run per group without the product of the state spaces. The properties there are
those of the instances, each asked in its own parts. TLC takes each of these next-state relations for one action; its coverage
statistics by line show every action of the instances taken.

The modules are composed by assumption: `ReviewQueue` and `PresenceLifecycle`
have one preview at a time that is claimed, reads and publishes again and again.
That is what `PreviewRuns` establishes: `PublicationIsFenced` (at most one claim
can publish) and `RunsEnd` and `DuePoliciesRun` (it is claimed again and ends).
The publishing transaction of a preview writes run, review items and presence at
once (R `publish_and_complete_ci_preview_run`); each module keeps the part of it
that its own state is about.

### PreviewRuns

`run` is `sync_runs`, `lease` and `schedule` the lease and schedule columns of
the policies, `active` the lifecycle of the connection. `cycle` and `task` are
the memory of the process behind an owner string; owner strings carry a fresh
UUID, so a new process takes an owner that no row refers to (`Fresh`). Times are
the time left: positive, exactly now (0), over (-1); this keeps apart the code's
`> now()`, `<= now()` and `< now()`, which differ between claims and renewals.

* `Enqueue` (queue and retry), `RequestCancel`, `UpdatePolicy`,
  `ChangeLifecycle` are requests of operators.
* `StartCycle`, `ClaimRun`, `ClaimDue`, `EndCycle` are a worker's cycle: it drains
  the queue, giving up exhausted rows on the way, and then leases due policies.
  `ClaimNow` is a request that leases a policy directly.
* `Heartbeat`, `ReadComplete`, `LeaseLost`, `NoticeCancel`, `Raise`, and the
  publishing and failing transactions of both kinds of work are the execution.
* `Crash`, `Tick` and `ComesDue` are the environment. A crash forgets the process
  and leaves its rows alone. A process whose lease ran out does not know it: it
  goes on until a transaction finds the lease gone.

`published` and `task[o].latest` are history: which claim published what.

What makes it correct: a policy has one active run (`OneActiveRun`); the policy's
lease is that of its run (`LeaseFollowsRun`, `NoOrphanReservation`); evidence is
published by the latest claim only and once (`PublicationIsFenced`, the
refinement of `FencedPublication`); cancellation wins (`CancelWins`); outcomes
are final (`TerminalRunsStay`); success is publication (`SuccessPublishes`); runs
end and due policies run (`RunsEnd`, `DuePoliciesRun`).

### FencedPublication

Three actions: a claim is granted, the latest claim publishes once, or it closes.
There are no runs, clocks or processes in it. The refinement maps `open[p]` to
"the process that made the latest claim on p still executes it".

### ReviewQueue

One saved policy. `item` are the review items with the hash they cover
(`content`: version of the record and proposed action) and the revisions under
which they were found; `policy` its revision and excluded identities;
`suppressed` the durable ignores; `ci` the version that was imported; `preview`
and `request` what the preview and each administrator's import or link have read
and not yet written. `Dismiss`, `Ignore`, `Restore`, `SavePolicy`,
`ChangeConnection`, `MapCustomer` and `ProviderChanges` change things in between.
`Apply` is the transaction of an import or a link with its checks in the code's
order (`Applicable`).

What makes it correct: one identity gets one CI (`NoDuplicateCreate`); no import
of what the saved policy excludes (`ImportsRespectExclusions`); dismissals stand
(`DismissalsStand`); nothing drops out for good (`NothingIsLost`).

### PresenceLifecycle

`presence` are the rows with state, count and ages; `mapping` whether the mapping
is active; `preview` and `import` what is in flight. A preview reads, is
labelled with a revision (`LabelPreview`, a step of its own because the code
reads the revision after it built the client, M 8833) and is published or
rejected. `Retire` and `Restore` are the administrators' decisions. Ages are
hours and stop at the last value a rule compares with. `log` and `sighted` are
history, kept independently of the counters: which accepted snapshots missed the
device and what the last one saw.

What makes it correct: mapping and row agree (`MappingFollowsState`); retirement
has the evidence the current policy asks for (`RetirementIsJustified`, stated
over the history, not over the counter); only a restore reactivates
(`OnlyRestoreReactivates`); gone and returned devices are offered again and again
(`GoneIsOffered`, `BackIsOffered`).

### NotificationDelivery

`event`, `created`, `mail`, `settings` are the rows, `proc` what each worker and
each administrator's request is doing: scans go through event, message and link
in three transactions, deliveries through claim, sending, recording in the
message, in the event and in the settings. `Dies` may end a process between any
two. `Window` is the limit of 500 of `list_notification_events`.

What makes it correct: one sender (`OneSender`), what was accepted stays accepted
(`AcceptedStays`), the evidence is true (`EvidenceIsTrue`), candidates get their
message (`EventsGetMessages`) and messages get on (`MessagesGetOn`).

### ChangeApprovals

One change. `request` are the rows of each batch, `links` what was mailed, `proc`
the requests to the server, each with the copy of the change it read. `shared`
says whether one process serves all requests (they share `core.LOCK`) or
replicas do (they do not); it never changes, and both are explored. `Fail` ends a
request between any two of its transactions. `plan` counts the edits of what is
signed, so that an answer can be compared with what was sent out.

What makes it correct: `ApprovalIsUnanimous`, `AnswersAreFinal`, and, where the
lock is shared, `OutstandingIsNewest`. `SignOffStands` has the first two and that the
requests, seen as answers (`Answers`: what is revoked or expired is void), follow
`Ballots`: an approver is asked once, nobody answers before the whole batch was asked, and
where one process serves all requests no batch is asked for while another is outstanding.
`Ballots` knows no links, locks or processes; each transaction is one of its steps or none.

### LoginThrottle, Credentials, UserAccess

`attempts` are the rows of `auth_login_attempts`. Reserving is one transaction under
two advisory locks and counts both buckets; the password is checked after it, and the
outcome is stored by another. `ThrottleIsExact` says that guesses in flight and recent
failures never pass either limit, however many replicas take part, and that
Retry-After is the first time at which the bucket that refused has room.

`Credentials` is one account: each operator on rows is one transaction, and a request
(`SignIn`, `AnswerChallenge`, `ConfirmEnrollment`, `RegenerateCodes`, `DisableMyMfa`,
`ChangeMyPassword`, `CompleteReset` and the administrator's resets) is a sequence of
them. `complete_password_reset` locks the link and then the credential, so two
completions may wait for each other's rows; the database then breaks the tie
(`DeadlockVictim`). `spent`, `reused` and `epoch` are history. `ProofsAreSpentOnce`
covers codes, challenges and links. A code is checked with the secret that the request
read and is spent by the enrolment that is there when it is written, so `spent` has both:
no enrolment takes a code twice, and none takes again a code of its own that was taken
before. What is left is a code that is taken again by an enrolment that
replaced the code's own after the check (`CodesAreSpentOnce`, below). `UserAccess` reads and counts, then stores; tokens
are revoked one by one from a list that was read. `AccessEnds` says what is left after
a password change or a withdrawal has been answered, naming the one exception: what had
passed its own check before. `AdminsAreLostOnlyByOverlap` is what the count of
administrators achieves: the last one is lost only to requests that overlap.

### RelationshipGraph, ChangeTemplates, ChangeImpact

`edges` are relationships with their owner, `candidates` the suggestions with state,
evidence, time and revision, `request` and `pass` the administrators' requests and the
previews. `BeginCreate` reads and checks, `FinishCreate` inserts; `stale` collects the
edges whose check another edge outdated, and `SoundButForStaleChecks` says that no
other edge closes a cycle or doubles a symmetric relationship. Suggestions are stored
under a lock with a look at the policy and the time of the evidence
(`NewestEvidenceStands`), approved on the revision that was read (`ApprovedAsRead`), and
automatically only while the policy allows it (`AutomationFollowsPolicy`).

`ChangeTemplates` has transactions of editors and of replicas that seed the next
release at start-up. A version that is inserted and not committed is visible to its
transaction only and makes another insert of the same number wait. `TermsStay`: the
history grows, the template names a committed version of it, and a change closes on
the terms of the version it pinned.

`ChangeImpact` runs the breadth-first search step by step over stored relationships.
`ImpactIsSeen` compares it with the least fixed point of "affects" and asks that the
review shows every business system that is reached.

### TechnicalInventory, EnrichmentCache

`replace_ci_inventory` is one action (`Store`), but its record was read before, the
identity was linked in another transaction, and the mapping may have moved in between.
`InventoryIsNewest` is stated over `best`, the observations kept as history.

A refresh of the cache takes the lock, reads the scope, stages a row per device, adds
the marker and deletes the other generations; it may be refused, fail or die between
any two. A preview that has published reads the cache again without the lock
(`ReadAgain`), so it may find another's generation. `rows` is a set of rows, each numbered when it was stored, as a read orders
them by `observed_at`. Previews and links, of records with evidence and without, select what they use, diagnostics and the cached
read judge it. `CacheStands`: what is used is one whole generation of the right scope and server,
a published generation stays until the next, and the views agree with the use.

### ProviderConnection, ProviderCompanies

Forms are opened at a revision, read the row, build a bundle from it and write;
`Situations` are the customers the status is computed for, and `environment` what the
container sets, GraphQL that is off or without a source server included. `loose` and `raced` are
history: a save without an expected revision, and a change during a test.
`ConnectionIsTrue`: the newest tokens stand unless a save was loose, and ready means
usable unless a test was raced. `ProviderCompanies` has the READ COMMITTED transaction of a
discovery as upserts row by row and a sweep, with row locks between replicas;
`CompaniesStand` says what a committed discovery leaves and what an unmapping removes.

### DetailRotation, DetailReads

`listed` are the newest rows of `sync_runs` of a customer, `preview` what each
organization's preview is doing. The cursor is not stored by itself: it is looked up
in the rows. `waited` counts the durable previews since a device was read;
`EveryDeviceHasItsTurn` bounds it by the number of windows the estate needs.

`DetailReads` is the pool: readers share token and lock, optional endpoints that were
refused are left out from then on, lifecycle calls go through a gate, and cancellation
stops further submissions. An action is one HTTP request: `_open_json` sends up to
`Attempts` (3 in the code) of them, holding the gate in between, and `_get` replays a
read whose token was rejected with as many again.

`ProviderIsSpared` has a unit for each of its three parts. Lifecycle *reads*: one at a
time. *Requests* to an endpoint that is known to be unavailable (`late`): of each thread
at most `2 * Attempts`, the rest of the one read it was on its way to. Exchanges that
*succeed*: one for each token that was dropped or expired. It does not bound two things
that the code does not bound either: the 429s of an endpoint that answers in the end (each
read may see `Attempts - 1` of them before its token is rejected and after it), and the
exchanges that fail, since each reader repeats them, with up to `Attempts` requests each. An exchange is one action, because
its requests are sent under the lock of the token.

## Runs

Twelve runs ask one question each. The eleven that pass take between a few seconds
and three minutes; between them every action of every module fires. Every
property of a passing run comes with a mutation of the modelled code under which
TLC finds it violated, so none of them holds for want of the interesting case.

| Run | Question | Instance and why it is enough |
|---|---|---|
| `preview_safety` | Do rows and leases stay consistent, and is publication fenced, under crashes, expiry, cancellation, retry, pause? | 2 owners, 2 rows, 1 policy, 2 attempts, leases of one tick. Two owners give a stale and a current one, and a row can be given up after being reclaimed; two rows give queue order and retries next to an active run. What several policies share is only the order of the queue; the theorems hold for any number. |
| `preview_liveness` | Does every run end, and every due policy run? | 1 row, 2 owners, 2 attempts. A row is claimed, lost, claimed again and given up, with direct claims in between. |
| `review_races` | One CI per identity, none for an excluded one? | 2 administrators on 1 identity, 2 revisions of policy and connection, `create` and `link`. |
| `review_evidence` | Do dismissals stand, and does nothing get lost? | 1 identity, 2 versions of its record, 3 policy revisions (exclude, restore and one more), `create` and `conflict`. |
| `presence_lifecycle` | Is retirement justified, reactivation explicit, and is each offered when due? | 1 device (rows of different devices do not meet), 2 misses, 1 hour apart, evidence fresh for 1 hour, publication up to 1 hour late, 2 revisions each: every threshold can be missed and met by one. |
| `notification_listing` | Is the evidence true when events fall out of the listing? | 2 events with a listing of 1, 1 attempt; either a notice without an event, sent first, and requeues, or retries and saved settings, kept apart by the action constraint `OneKind`; with notices, an event that is due stays due (`notification_delivery` lets it come and go). `NoticedEvidenceIsTrue` is asked of the former: a retry may undo an acceptance (see below). |
| `notification_delivery` | One sender, nothing sent twice, every candidate gets its message, everything gets on? | 1 event that comes and goes with and without recipients, a worker and an administrator, 2 attempts, claims stale after 2 ticks of 5 minutes. |
| `changes_answers` | Is approval unanimous and every answer final and given to a whole batch, with and without a shared lock? | 2 approvers, 2 batches, 2 visitors, 1 technician; the technician replaces the batch and moves the change while both answer. |
| `accounts` | Are limits exact, proofs good once, and does access end with its grounds? | 2 requests, 2 users, 2 identifiers and 2 requesters with limits of 1 and 2 (the smallest that differ), windows of 1 and 2 ticks; 2 passwords, enrolments, codes, challenges, sessions and links: one that is spent and one that replaces it; challenges and sessions together at most 3 while factors are explored (`FewRows`): a challenge that displaces another, or a session beside the one it opens. |
| `cmdb` | Does what is newest, approved and pinned stand? | 3 items with a cycle of dependencies, a symmetric connection in both directions, and edges that a provider suggests; 2 requests and 2 previews; 2 editors and 2 starting replicas with 3 versions; 4 orders of a small estate with a cluster, a shortcut and a loop, under every combination of capacity, minimum of hosts, movability, criticality and owner, and 4 scopes; 2 workers importing 2 reports. |
| `integrations` | Is what is served, called ready, listed and read next right? | 2 tasks on the cache with 4 assets, two of which claim one device; 2 users and a tester, each provider, 6 settings of the container, 5 situations; 2 companies, 2 discoveries by 3 workers in 2 replicas, any of which may commit after another; saves up to the 3rd revision; 2 organizations with 3 devices, without a window (`fast`) or with windows of 1 (`balanced`); 3 devices for 2 readers with 2 attempts (the least with a retry) and one token lost; with the optional details (`full`) the required read is answered at once and nobody cancels, which the other mode explores, a token is dropped and does not run out, and only the first two of the three endpoints are tried again or refused (the code treats the third as the second). |
| `detail_cursor` | violated: `CursorAdvances` | as `integrations` |

Every other bound is a constant with a comment in its module: counters stop at
their bound by a guard or by saturation, and time at the last value that a rule
compares with. `MaxPlan` saturates, so that an edit is always possible; with one
plan (`changes_answers`) edits are told apart by nothing, which that run's
properties do not need. With one technician in that run `CreatedIsNewest`, the
part of the invariant that is about two technicians at the lock, is exercised by
the theorem only.

Runs with liveness use no symmetry. The symmetry sets of the others permute
owners, administrators, approvers, visitors, batches, requests, identifiers, requesters
and, in `cmdb`, passes, which no definition singles out; `MCCmdb` singles out a request
(`FirstRequest`) and therefore permutes no requests.

`OutcomesAreTrue`, `GovernedChanges`, `OffersFollow` and `DeliveredOnce` each join two of
the properties named above, `SignOffStands` three, and `IInv` the state invariants; the
inductive invariants of the proofs are checked as `IInv`, too. `LeaseFollowsRun`,
`NoOrphanReservation`, `TerminalRunsStay` and `OutstandingIsNewest` are proved and have
no run of their own.

In a group's run each property is also asked of behaviours of the other parts, where it
says nothing; it is its part, and its mutation, that show it.

Deadlock is checked except in `accounts`, `cmdb`, `integrations` and `detail_cursor`,
whose behaviours end at their bounds: codes, versions, records and revisions are used up.

### Fairness

Liveness is stated for a deployment that goes on working, and no fairness is
asked of anything that an operator or a failure does.

* `PreviewRuns`: the clock runs and workers poll (weak fairness of `Tick` and
  `StartCycle`): `worker_runtime.py` loops for ever and a container is restarted.
  A worker reaches its first claim again and again (strong fairness of `ClaimRun`,
  which a crash can precede any number of times). A read makes a bounded number
  of requests with timeouts, so it does not renew for ever, and one that renews
  again and again publishes. Both properties assume that the connection stays
  active in the end: a paused connection's runs wait, by design.
* `ReviewQueue`, `PresenceLifecycle`: previews recur, read and publish. This is
  `DuePoliciesRun` and `RunsEnd` of `PreviewRuns`; attempts may fail for as long
  as they do not fail for ever (strong fairness of the read and of publishing).
* `NotificationDelivery`: the worker polls, the rule becomes due again, every
  step of a live process is followed by the next, a drain has a limit. Deaths and
  administrators' requests end at some time: a message that is retried for ever,
  or whose every sender dies, need not get on.

## Proofs

The theorems hold for all values of the constants that satisfy the named
assumptions (`PreviewAssumption`, `TriggerAssumption`, `ReviewAssumption`,
`ApprovalAssumption`, `PresenceAssumption`, `DeliveryAssumption`, `AccountsAssumption`,
`CmdbAssumption`, `ProviderAssumption`). They say that identifiers differ, bounds are
natural numbers and sets of rows that are counted or searched are finite; that a
relationship joins two items; that symmetric relationships and dependencies are not
suggested. Each proof has the same shape: `Init => Inv`; one lemma per
action that `Inv` is preserved; the properties from `Inv` and a step.

| Module | Checked by a run and proved | Only proved | Of the checked ones not proved |
|---|---|---|---|
| `PreviewRuns` | `IInv`, `OneActiveRun`, `OutcomesAreTrue`, `PublicationIsFenced` | types, `LeaseFollowsRun`, `NoOrphanReservation`, `TerminalRunsStay` | liveness |
| `ReviewQueue` | `IInv`, `NoDuplicateCreate`, `ImportsRespectExclusions`, `DismissalsStand` | types | liveness |
| `ChangeApprovals` | `IInv`, `SignOffStands` | types, `OutstandingIsNewest` | |
| `PresenceLifecycle` | `IInv`, `GovernedChanges` | | liveness |
| `NotificationDelivery`, `MCNotifications` | `TypeOK`, `DeliveredOnce`, `NoticedEvidenceIsTrue` | `EvidenceIsTrue` | liveness |
| `MCAccounts` | all five | | |
| `MCCmdb` | all eight | | |
| `MCProviders` | all six | | |

**PreviewRuns** (`PreviewRunsProofs`). None of the safety properties is inductive.
That the policy's lease follows the run (`LeaseFollowsRun`) needs that there is
one active run per policy; that no reservation is left over needs the same from
the other side. `HolderIsLatest` is the part that makes the fence: whoever is
named by the row it executes, or by the policy it leased directly, holds the
latest claim, and a direct lease excludes active runs. A row or a lease changes
hands only in a step that makes a new latest claim, and that is why one look at
owner and time left in the publishing transaction is enough. From it follow
`OneActiveRun`, `LeaseFollowsRun`, `NoOrphanReservation`, `TerminalRunsStay`,
`CancelWins`, `SuccessPublishes`, and theorem `Refinement`: `Spec` implements
`FencedSpec`, each step being a grant, a publication, a closing or a stutter of
one policy.

**ReviewQueue** (`ReviewQueueProofs`). `RevisionsAreFilters` is the heart: whatever
was decided under the current revision of the policy (by a preview, in an item,
by an import in progress) does not concern an identity it excludes. The code
compares only revisions when it applies an import; the invariant says that this
suffices, because every change of the filters is a new revision (`Ignore` and
`SavePolicy`). It gives `ImportsRespectExclusions`; with the mapping check of
`Applicable` it gives `NoDuplicateCreate`. `DismissalsStand` follows step by step.

`OutcomesAreEarned`, `SignOffs` and `Governed` put together what the runs check as one
property.

**ChangeApprovals** (`ChangeApprovalsProofs`). A batch has one creator who still has
to ask exactly those that were not asked; links exist only for whole batches; so
nobody can answer an incomplete batch. What an answer found when it counted
(`CompleteIsApproved`) stays so because answers are final. This gives
`ApprovalIsUnanimous` whether or not the lock is shared. `OutstandingIsNewest`
needs the lock and says so. `BallotsImplemented` is the refinement of `Ballots`: creating a
request asks, as it did not exist and what is outstanding is of the same batch; the
conditional UPDATE answers, lapses or stutters; the three revocations withdraw.

**PresenceLifecycle** (`PresenceLifecycleProofs`). The rows hold counters and times, the
history holds snapshots, and `IInv` relates the two. `CountsTheLog` says that a row that
counts has its number of snapshots in the log, all under the row's revision of the
connection, and that their ages span the hours. It is not inductive alone: a row of an
older revision starts again only if its revisions are terms of the policy
(`RevisionsAreTerms`), a row that counts nothing has an empty log (`CountsFromNothing`),
and an import that falls into a preview has not yet been counted (`ImportsAreNews`). Ages
are capped, so what is compared is ages below their cap (`OneAge`). It gives
`RetirementIsJustified`; with `MappingFollowsState` also `OnlyRestoreReactivates`.

**NotificationDelivery** (`NotificationDeliveryProofs`). Types need to know what the phase
of a process says of its row (`Fits`). `DeliveredExactly` and `TrueEvidence` have the
hypothesis `Careful`: nobody retries, and at most one administrator requeues. Without it
they are false, and the section on differences shows how (a retry, and in the same way the
second of two requeues, writes back what it read). The invariant `DeliveryInv` says that
who delivers has a claim that is not stale (`SendersHold`), a requeue under way is about a
dead letter (`RequeuesHold`) and what is about to be written into an event is still so
(`MirrorsHold`). That a claim outlasts a delivery is in the model (`Tick`): the requests to
Microsoft Graph have timeouts that are far shorter than the time until a claim is stale.
`NoticedEvidence` is about the behaviours of the run, in which those who retry and those
who requeue do not meet (`OneKind`): `NoticeInv` says that before the first notice there is
nothing that a retry could have falsified by then (`Blank`), and that from then on
`DeliveryInv` holds, of whose steps only the retry is missing.

**Accounts** (`AccountsProofs`). Users: a token of an account without access is
`straddled` or some request is still going to list or revoke it (`Ending`). Credentials:
each kind of proof has a part of `CredInv` that says what a request that has passed its
check still needs for its transaction; the factor there is is the last one enrolled, no
enrolment spent a step of a later one, and a request knows no secret that was not issued
(`FactorsKept`, `SecretsKnown`), so a code whose own enrolment stands was spent by no
other (`StepIsNew`); a live link carries the number of links consumed
so far, a consumed one a smaller number, so no two have the same (`LinksKept`). Throttle: an attempt may lose its
place in a bucket and never get it back (`Fades`), so only a reservation has to count, and it
counts under the locks of both buckets; what fades is a subset of what was counted. For
Retry-After the rows of the full bucket are put in order of the time at which they leave;
every place of that order is taken (`PlacesAreTaken`, from the last row backwards), so the
row that the code picks exists, and at its time exactly the rows after it are left
(`ReleaseIsExact`).

**Cmdb** (`CmdbProofs`). `SoundButForStaleChecks` is about reachability: relationships
without the stale ones have no cycle. A new edge was checked against the edges of some
earlier moment; every one added since has marked it stale, so a cycle through it would
have been seen (`SoundSet`). Approvals by hand carry what they read (`RequestRead`,
`PassRead`), and a suggestion changes only with its revision. The breadth-first search has the usual invariant
(distances in the queue differ by at most one) and is exact with respect to the least
fixed point, which is built as an iteration. `InventoryInv` relates snapshots and
interfaces with the newest observation.

**Providers** (`ProvidersProofs`). Reads: who asks for another token holds one that was
dropped, so exchanges are counted; and nobody sets out for an endpoint that is known to be
unavailable, so what a thread still sends there is no more than what its read has sent
(`FewLate`). Companies: during a sweep the companies to sweep, those swept and those that
committed late cover what was known (`SweepSees`). Connection: a request that read the
row at its revision builds from the tokens that stand, a result that is labelled with the
current revision was found with its tokens or was raced (`SnapshotStands`). Rotation: a
device's turn comes nearer with each durable preview (`PreviewStands`, `CursorStands`);
the distance is arithmetic on positions in the ordered estate, for every size and limit.
Cache: whoever is between lock and publication holds the lock of its server, and its
generation is the newest of that server, so no two stage for one server at once. A
generation with a marker has all its rows, as the marker is stored after the last of them; a
newer marker wins the read, so what is selected is one whole generation (`CacheStands`), and
rows go only in the publication of a newer generation or if they were never published.

Induction over data is available in one form: least members of sets of numbers
(`LeastNumber`) give induction over a set that is named in the statement
(`NumberInduction`), from the well-foundedness of inclusion of finite sets. The search,
the cycles, the fixed point and the newest observations use it in `CmdbProofs`, the order of
devices and of cached rows in `ProvidersProofs`, the order of attempts in `AccountsProofs`.

Every safety property of a passing run is a theorem. Model-checked only:

* Liveness (`RunsEnd`, `DuePoliciesRun`, `NothingIsLost`, `OffersFollow`, `MessagesGetOn`,
  `EventsGetMessages`): it needs fairness and `ENABLED`.
* The properties in the next section, which do not hold.

## Where the code and its documents differ

One run shows a disagreement by a counterexample:

* `detail_cursor`. A direct or continuous preview stores its cursor in
  `attributes.enrichment`, which the public form of a run (R 1139) leaves out;
  the next preview looks for it there (M 8507) and starts from the same device.
  docs/NCENTRAL.md:200: "the saved cursor advances after each successful preview".

These definitions are in the modules too, marked "Not so". TLC finds a
counterexample for each with the configuration that is named, when the definition
is put in the place of its properties:

* `NotificationDelivery!MessagesGetOn` (`NotificationDelivery_delivery` with two
  `Events` and no administrators). `create_notification_event` looks for the event of a
  candidate among the newest 500 and has no default (R 20732): if the event is
  older, it raises `StopIteration`, the cycle ends before anything is sent, and
  the rule stays due, so every cycle does. docs/NOTIFICATIONS.md:14: "the optional
  worker claims and sends due messages."
* `ReviewQueue!SelectableRowsApply` (`ReviewQueue_races` with `"update"` among the
  `Outcomes`). A record that a strong identifier matches to a CI without a
  mapping is an update that can be selected (docs/CONNECTWISE.md:110, :115), but
  the import refuses every update without a mapping (R 18018).
* `ChangeApprovals!SignedPlanIsCurrent` (`ChangeApprovals_answers` with two
  technicians, one approver, visitor and batch, and `MaxPlan = 2`). A move writes back the whole change as it read it. An
  edit and a sign-off request in between leave the old plan under links that are out for
  the edited one (docs/CHANGE_APPROVALS.md:31).
* `UserAccess!AnAdminRemains` (`Accounts_requests`, as `U!AnAdminRemains`). Two
  administrators who demote each other at once leave none: each counts two (M 2998).
  "The final active platform administrator cannot be demoted" (M 3000).
* `Credentials!CodesAreSpentOnce` (`Accounts_requests`, as `C!CodesAreSpentOnce`). A code
  is checked with the secret that was read (M 2252, M 1689), and `enable_mfa` and
  `accept_mfa_counter` ask only for the status and the last step (R 11576, R 11609). Two
  requests check one code; the first is answered, the enrolment is started again, and the
  second enables the new one with the old one's code, whose secret nobody has proved.
  SECURITY.md:47: "Accepted TOTP time steps are persisted to prevent replay".
* `PreviewRuns!FailuresBackOff` (`PreviewRuns_safety`). A run that is given up after
  its last attempt does not count as a failure of its policy (R 21193), so a
  continuous policy is due again at once. ARCHITECTURE.md:211: "Failed unattended
  policies still use bounded exponential backoff from 15 minutes to 24 hours."
* `ReviewQueue!IgnoredStaysOut` (`ReviewQueue_evidence`). A preview that took its
  filters before an ignore puts the ignored identity back (R 16608).
  docs/CONNECTWISE.md:133: "Durable ignores [...] remain excluded until restored."
  An import of it is refused all the same: `ImportsRespectExclusions`.
* `ReviewQueue!NewerEvidenceStays` (`ReviewQueue_races` with `MaxVersion = 2`). Of
  two overlapping imports the one that read first can write last (M 10447).
  docs/CONNECTWISE.md:115: "a stale preview cannot silently overwrite newer
  evidence."
* `NotificationDelivery!NoneStuck` (`NotificationDelivery_delivery`). A message whose
  last attempt died stays `sending`: it is not claimed (R 20371), retried or
  requeued. docs/NOTIFICATIONS.md:40: "The row then moves to `dead_letter`".
* `NotificationDelivery!EvidenceIsComplete` (the same). An event that is linked
  after its message was accepted, or whose update died, never says so (R 20786).
  docs/NOTIFICATIONS.md:15: "Acceptance, retry [...] states remain as evidence."
* `NotificationDelivery!SavedSettingsStay` (the same with `"save"` among the `Operations`
  and `MaxSettings = 2`). A delivery writes back the
  settings it read before the attempt (M 3663), undoing a save.
* `NotificationDelivery!AcceptedStays` with `"retry"` among the `Operations` (the
  same). A retry checks the status it read and then queues the message whatever it
  is by then (M 3959). docs/MICROSOFT_365_EMAIL.md:120: "Explicit retries are
  allowed only for queued or failed messages".

Seen while modelling, and not stated as properties:

* The cursor of a durable preview is lost, too, when 50 later runs of the same customer
  are listed before it, failed ones and those of other organizations among them
  (R 22136); docs/NCENTRAL.md:208 says that such a run "does not advance the last
  successfully published window". A fast preview in between publishes the cursor 0.
* A reader whose token was rejected, and who finds that another reader's renewal failed,
  repeats its request with an empty token (`ncentral.py` 1538).
* An exchange that fails with 403, 404 or 429 inside an optional read marks that
  endpoint unavailable, although it was never asked (`ncentral.py` 1938).
* A collection that is too large makes the whole inventory of a record fail after its
  identity was linked (M 10598, M 10835).
* A mapping that is moved to another CI leaves the collections that were stored under it
  with the old CI (R 18470), and a record without a time is stored as of the
  time of its import (M 10155).
* A list in the GraphQL cache replaces a newer list of the same name from the REST record
  (`nable_graphql.py` 828).
* `prune_integration_enrichment_previews` (R 14201) has no caller.
* The client of a preview is built before the revision is read that its snapshot
  is labelled with (M 8833): what was read with the old settings counts under the
  new revision. docs/NCENTRAL.md:374 says that runs with a stale connection "do not
  advance the absence counter".
* `complete_ci_sync_policy_run` asks for the owner, not for the time (R 16168).
* `disable_mfa` removes the credential and leaves the recovery codes in their table
  (R 11679, "Remove TOTP and recovery material", R 11676); a request that read the
  credential before may still use one of them. The next enrolment clears them.
* An answer that is stored before the request fails cannot be given again; the
  change then waits for a new batch (M 13214).
* Two writers of one revision of a change leave one document (R 3834).
* `dismiss_ci_review_item` dismisses what is in the row by then, not what the
  administrator saw (R 17012).

## What is not modelled

Of the modelled components: what a preview computes and which fields an import
may write (the pure functions of `integration_reconciliation.py` and
`field_authority.py`); previews of scopes that are not saved; several rules and
recipient lists, and the other messages that use the outbox; review items that a
restore of a mapping resolves; bulk decisions (a sequence of single ones); change
numbering and the documents of revisions; delivery status of sign-off mails (a mail that
is lost is a link that nobody opens); how names and addresses are matched into
suggestions; federated sign-in, hashing and cookies; lists, paging and parsing of the
provider clients; the fields of most inventory collections and the texts of templates; template versions
that differ only in optional tests; cache generations that an older version called
complete without a marker.

Relationships, items, contacts and access groups are otherwise rows that one request
reads and writes; what several actors do to them is in `RelationshipGraph`, `ReviewQueue`
and `PresenceLifecycle`.

The in-memory repository serves development within one process. Migrations run in
one transaction under an advisory lock. Reports, data quality, audit, branding and
observability derive or append. The frontend, the infrastructure and the scripts
hold no state of the CMDB.

## Plan

Done, in this order: preview runs with the fenced contract and their proofs; the
review queue with proofs; presence; notifications; change approvals with proofs;
accounts; relationships, templates, impact and inventory; cache, connections, companies
and detail reads of the providers.

Next, by what is at stake:

1. `FieldAuthority` and `Reconciliation`: the decision functions as operators,
   checked against a reference definition over all small inputs.
2. The preview transaction with run, review items and presence in one module that
   composes the three, and an abstract review queue for it to implement.
3. Abstract specifications of the cache (one published generation) and of a spent-once
   proof for `EnrichmentCache` and `Credentials` to implement.

Proofs to come: that what `MCCmdb` and `MCProviders` do is done by `Cmdb` and `Providers`.
