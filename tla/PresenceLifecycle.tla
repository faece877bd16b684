------------------------- MODULE PresenceLifecycle -------------------------
(***************************************************************************)
(* Missing devices: integration_ci_presence keeps, for every provider      *)
(* mapping of a CI, how often complete previews missed the device and      *)
(* since when. Administrators retire mappings of devices that are gone and *)
(* restore them when they are back; imports count as sightings.            *)
(*                                                                         *)
(* Time is kept as ages in hours, up to the ages the rules compare with.   *)
(* One mapped customer and one policy; previews of it publish one at a     *)
(* time (PreviewRuns!PublicationIsFenced).                                 *)
(***************************************************************************)
EXTENDS Integers, Sequences

CONSTANTS
    Devices,                \* immutable provider identities
    MaxRequired,            \* bound: missed snapshots a policy can ask for
    MinimumHours,           \* missingDeviceMinimumHours
    MaxAge,                 \* hours for which evidence authorizes an action
    MaxLag,                 \* bound: hours from the end of a read to its publication
    MaxPolicyRevision,      \* bound
    MaxConnectionRevision   \* bound

ASSUME PresenceAssumption ==
    /\ MaxRequired \in Nat /\ MaxRequired >= 2
    /\ MinimumHours \in Nat \ {0}
    /\ MaxAge \in Nat \ {0}
    /\ MaxLag \in Nat
    /\ MaxPolicyRevision \in Nat \ {0}
    /\ MaxConnectionRevision \in Nat \ {0}

VARIABLES
    policy,      \* revision, whether it filters at the provider, snapshots it asks for
    connection,  \* revision, and whether it is enabled and active
    mapped,      \* the provider customer is mapped to the policy's customer
    reported,    \* devices the provider reports
    mapping,     \* external_object_mappings of the devices
    presence,    \* integration_ci_presence
    preview,     \* the preview that holds the policy's lease
    import,      \* imports that have read a device and not yet applied it
    log,         \* history: accepted snapshots that missed a device in a row
    sighted      \* history: what the last accepted snapshot reported

scopeVars == <<policy, connection, mapped>>
historyVars == <<log, sighted>>
vars == <<scopeVars, reported, mapping, presence, preview, import, historyVars>>

----------------------------------------------------------------------------
(* Data *)

PolicyRevisions == 1..MaxPolicyRevision
ConnectionRevisions == 1..MaxConnectionRevision

\* Hours since the first missed snapshot, as far as a snapshot or a decision asks.
MaxMissing == MinimumHours + MaxLag
MaxLogged == MinimumHours + MaxAge

Least(m, n) == IF m < n THEN m ELSE n

States == {"observed", "monitoring", "eligible", "not_evaluated", "retired",
           "restore_ready"}

PresenceRow == [state : States, absences : 0..MaxRequired, missing : 0..MaxMissing,
                age : 0..MaxAge + 1,
                policyRevision : PolicyRevisions,
                connectionRevision : ConnectionRevisions,
                filtered : BOOLEAN,
                remapped : BOOLEAN]   \* the customer's mapping changed since the read

NoPresence == [state |-> "none"]

PreviewRow == [phase : {"started", "labelled", "read"},
               policyRevision : PolicyRevisions,
               filtered : BOOLEAN,
               required : 2..MaxRequired,
               connectionRevision : ConnectionRevisions \cup {0},
               seen : SUBSET Devices,
               age : 0..MaxLag,
               remapped : BOOLEAN,            \* what happened since it started:
               fresh : SUBSET Devices,        \*   mapped by an import
               imported : SUBSET Devices]     \*   seen by an import

NoPreview == [phase |-> "idle"]

ImportRow == [policyRevision : PolicyRevisions, connectionRevision : ConnectionRevisions]
NoImport == [policyRevision |-> 0, connectionRevision |-> 0]

InProgress == preview.phase # "idle"

----------------------------------------------------------------------------
(* Previews *)

\* Take the policy along; the client is built from the configuration as it is now.
StartPreview ==
    /\ ~InProgress
    /\ connection.active /\ mapped
    /\ preview' = [phase |-> "started", policyRevision |-> policy.revision,
                   filtered |-> policy.filtered, required |-> policy.required,
                   connectionRevision |-> 0,
                   seen |-> {}, age |-> 0, remapped |-> FALSE, fresh |-> {},
                   imported |-> {}]
    /\ UNCHANGED <<scopeVars, reported, mapping, presence, import, historyVars>>

\* The revision the snapshot is labelled with is read after that.
LabelPreview ==
    /\ preview.phase = "started"
    /\ preview' = [preview EXCEPT !.phase = "labelled",
                                  !.connectionRevision = connection.revision]
    /\ UNCHANGED <<scopeVars, reported, mapping, presence, import, historyVars>>

\* A filter at the provider hides any of the devices.
ReadProvider ==
    /\ preview.phase = "labelled"
    /\ \E seen \in SUBSET reported :
          /\ ~preview.filtered => seen = reported
          /\ preview' = [preview EXCEPT !.phase = "read", !.seen = seen, !.imported = {}]
    /\ UNCHANGED <<scopeVars, reported, mapping, presence, import, historyVars>>

\* _apply_postgres_ci_presence_snapshot ignores a snapshot from before a change of
\* the policy, the connection or the customer's mapping.
Accepted ==
    /\ preview.policyRevision = policy.revision
    /\ preview.connectionRevision = connection.revision
    /\ connection.active
    /\ mapped /\ ~preview.remapped

\* A row as this snapshot leaves it.
Evaluated(state, absences, missing) ==
    [state |-> state, absences |-> absences, missing |-> missing,
     age |-> Least(preview.age, MaxAge + 1),
     policyRevision |-> preview.policyRevision,
     connectionRevision |-> preview.connectionRevision,
     filtered |-> preview.filtered, remapped |-> FALSE]

\* Mutant: a row is continued whatever it was evaluated under.
ScopeIgnored(d) == presence[d] = NoPresence

\* The discovery fingerprint covers the connection's revision and the filter.
ScopeChanged(d) ==
    presence[d] # NoPresence =>
        \/ presence[d].connectionRevision # preview.connectionRevision
        \/ presence[d].filtered # preview.filtered

\* Mutant: every missed snapshot is the first.
MissedAnew(d) ==
    LET absences == IF ScopeChanged(d) THEN 1
                    ELSE IF presence[d].absences = MaxRequired THEN MaxRequired
                    ELSE presence[d].absences + 1
    IN  Evaluated("monitoring", absences, preview.age)

\* One more missed snapshot; hours count from the first one to this one.
Missed(d) ==
    LET first == ScopeChanged(d) \/ presence[d].absences = 0
        absences == IF first THEN 1
                    ELSE IF presence[d].absences = MaxRequired THEN MaxRequired
                    ELSE presence[d].absences + 1
        missing == IF first THEN preview.age ELSE presence[d].missing
        eligible == /\ absences >= preview.required
                    /\ missing - preview.age >= MinimumHours
    IN  Evaluated(IF eligible THEN "eligible" ELSE "monitoring", absences, missing)

\* Mutant: whether the mapping is active is not asked.
MarkedAsActive(d) ==
    CASE mapping[d] # "none" /\ d \in preview.seen -> Evaluated("observed", 0, 0)
      [] mapping[d] = "active" /\ d \notin preview.seen \cup preview.fresh ->
            IF preview.filtered THEN Evaluated("not_evaluated", 0, 0) ELSE Missed(d)
      [] OTHER -> presence[d]

\* What the snapshot makes of a device: one that was mapped since it started and is
\* not in it says nothing.
Marked(d) ==
    CASE mapping[d] = "active" /\ d \in preview.seen -> Evaluated("observed", 0, 0)
      [] mapping[d] = "inactive" /\ d \in preview.seen -> Evaluated("restore_ready", 0, 0)
      [] mapping[d] = "inactive" /\ d \notin preview.seen \cup preview.fresh
            /\ presence[d].state = "restore_ready" -> Evaluated("retired", 0, 0)
      [] mapping[d] = "active" /\ d \notin preview.seen \cup preview.fresh ->
            IF preview.filtered THEN Evaluated("not_evaluated", 0, 0) ELSE Missed(d)
      [] OTHER -> presence[d]

\* A log with room for one more entry keeps the first and the latest.
WithRoom(misses) ==
    IF Len(misses) < MaxRequired THEN misses
    ELSE <<Head(misses)>> \o SubSeq(misses, 3, Len(misses))

\* The log is of one revision.
Logged(d) ==
    LET entry == [revision |-> preview.connectionRevision,
                  age |-> Least(preview.age, MaxLogged), outdated |-> d \in preview.imported]
        current == IF log[d] # <<>> /\ log[d][1].revision = entry.revision THEN log[d] ELSE <<>>
    IN  IF d \in preview.seen \/ preview.filtered \/ mapping[d] = "none" THEN <<>>
        ELSE IF d \in preview.fresh THEN log[d]
        ELSE Append(WithRoom(current), entry)

\* Publish: the presence rows change in the transaction that ends the run.
PublishPreview ==
    /\ preview.phase = "read"
    /\ IF Accepted
       THEN /\ presence' = [d \in Devices |-> Marked(d)]
            /\ log' = [d \in Devices |-> Logged(d)]
            /\ sighted' = preview.seen
       ELSE UNCHANGED <<presence, historyVars>>
    /\ preview' = NoPreview
    /\ UNCHANGED <<scopeVars, reported, mapping, import>>

\* The preview fails, is cancelled or loses its lease.
AbandonPreview ==
    /\ InProgress
    /\ preview' = NoPreview
    /\ UNCHANGED <<scopeVars, reported, mapping, presence, import, historyVars>>

----------------------------------------------------------------------------
(* Imports *)

ImportRead(d) ==
    /\ import[d] = NoImport
    /\ connection.active /\ mapped
    /\ d \in reported
    /\ import' = [import EXCEPT ![d] = [policyRevision |-> policy.revision,
                                        connectionRevision |-> connection.revision]]
    /\ UNCHANGED <<scopeVars, reported, mapping, presence, preview, historyVars>>

\* The generation is current and the mapping, if there is one, not retired.
Importable(d) ==
    /\ import[d].policyRevision = policy.revision
    /\ import[d].connectionRevision = connection.revision
    /\ connection.active /\ mapped
    /\ mapping[d] # "inactive"

\* Map the device, or observe it again and start its evidence afresh.
ImportApply(d) ==
    /\ import[d] # NoImport
    /\ Importable(d)
    /\ mapping' = [mapping EXCEPT ![d] = "active"]
    /\ presence' = IF presence[d] = NoPresence THEN presence
                   ELSE [presence EXCEPT ![d] =
                          [@ EXCEPT !.state = "observed", !.absences = 0, !.missing = 0,
                                    !.policyRevision = policy.revision,
                                    !.connectionRevision = connection.revision]]
    /\ preview' = IF InProgress
                  THEN [preview EXCEPT !.imported = @ \cup {d},
                          !.fresh = IF mapping[d] = "none" THEN @ \cup {d} ELSE @]
                  ELSE preview
    /\ import' = [import EXCEPT ![d] = NoImport]
    /\ log' = [log EXCEPT ![d] = <<>>]
    /\ UNCHANGED <<scopeVars, reported, sighted>>

\* Refused, failed, or the process died.
ImportAbandoned(d) ==
    /\ import[d] # NoImport
    /\ import' = [import EXCEPT ![d] = NoImport]
    /\ UNCHANGED <<scopeVars, reported, mapping, presence, preview, historyVars>>

----------------------------------------------------------------------------
(* Decisions *)

\* _ci_presence_stale_evidence_reason is empty.
Fresh(d) ==
    /\ presence[d].age <= MaxAge
    /\ presence[d].policyRevision = policy.revision
    /\ presence[d].connectionRevision = connection.revision
    /\ connection.active
    /\ mapped /\ ~presence[d].remapped

\* Both decisions ask for the row's revision as it is: on an outdated screen they
\* are refused and change nothing.
Retire(d) ==
    /\ presence[d].state = "eligible" /\ mapping[d] = "active"
    /\ Fresh(d) /\ ~presence[d].filtered /\ ~policy.filtered
    /\ mapping' = [mapping EXCEPT ![d] = "inactive"]
    /\ presence' = [presence EXCEPT ![d].state = "retired"]
    /\ UNCHANGED <<scopeVars, reported, preview, import, historyVars>>

Restore(d) ==
    /\ presence[d].state = "restore_ready" /\ mapping[d] = "inactive"
    /\ Fresh(d)
    /\ mapping' = [mapping EXCEPT ![d] = "active"]
    /\ presence' = [presence EXCEPT ![d] =
                     [@ EXCEPT !.state = "observed", !.absences = 0, !.missing = 0]]
    /\ UNCHANGED <<scopeVars, reported, preview, import, historyVars>>

----------------------------------------------------------------------------
(* Policy, connection, provider and time *)

\* normalize_ci_policy: at least two missed snapshots.
Required(n) == IF n < 2 THEN 2 ELSE n

SavePolicy(filtered, required) ==
    /\ policy.revision < MaxPolicyRevision
    /\ policy' = [revision |-> policy.revision + 1, filtered |-> filtered,
                  required |-> Required(required)]
    /\ UNCHANGED <<connection, mapped, reported, mapping, presence, preview, import,
                   historyVars>>

ChangeConnection(active) ==
    /\ connection.revision < MaxConnectionRevision
    /\ connection' = [revision |-> connection.revision + 1, active |-> active]
    /\ UNCHANGED <<policy, mapped, reported, mapping, presence, preview, import,
                   historyVars>>

\* The provider customer is mapped elsewhere or back: evidence from before is stale.
MapCustomer ==
    /\ mapped' = ~mapped
    /\ preview' = IF InProgress THEN [preview EXCEPT !.remapped = TRUE] ELSE preview
    /\ presence' = [d \in Devices |-> IF presence[d] = NoPresence THEN NoPresence
                                      ELSE [presence[d] EXCEPT !.remapped = TRUE]]
    /\ UNCHANGED <<policy, connection, reported, mapping, import, historyVars>>

ProviderChanges(d) ==
    /\ reported' = IF d \in reported THEN reported \ {d} ELSE reported \cup {d}
    /\ UNCHANGED <<scopeVars, mapping, presence, preview, import, historyVars>>

Older(age, bound) == Least(age + 1, bound)

\* An hour passes.
Tick ==
    /\ preview.phase = "read" => preview.age < MaxLag
    /\ preview' = IF preview.phase = "read" THEN [preview EXCEPT !.age = @ + 1] ELSE preview
    /\ presence' = [d \in Devices |->
                     IF presence[d] = NoPresence THEN NoPresence
                     ELSE [presence[d] EXCEPT
                             !.age = Older(@, MaxAge + 1),
                             !.missing = IF presence[d].absences = 0 THEN 0
                                         ELSE Older(@, MaxMissing)]]
    /\ log' = [d \in Devices |-> [i \in DOMAIN log[d] |->
                [log[d][i] EXCEPT !.age = Older(@, MaxLogged)]]]
    /\ UNCHANGED <<scopeVars, reported, mapping, import, sighted>>

----------------------------------------------------------------------------

Init ==
    /\ \E required \in 2..MaxRequired :
          policy = [revision |-> 1, filtered |-> FALSE, required |-> required]
    /\ connection = [revision |-> 1, active |-> TRUE]
    /\ mapped = TRUE
    /\ reported = Devices
    /\ mapping = [d \in Devices |-> "none"]
    /\ presence = [d \in Devices |-> NoPresence]
    /\ preview = NoPreview
    /\ import = [d \in Devices |-> NoImport]
    /\ log = [d \in Devices |-> <<>>]
    /\ sighted = {}

PreviewNext ==
    StartPreview \/ LabelPreview \/ ReadProvider \/ PublishPreview \/ AbandonPreview

DeviceNext ==
    \E d \in Devices :
        \/ ImportRead(d) \/ ImportApply(d) \/ ImportAbandoned(d)
        \/ Retire(d) \/ Restore(d)
        \/ ProviderChanges(d)

ScopeNext ==
    \/ \E filtered \in BOOLEAN, required \in 1..MaxRequired : SavePolicy(filtered, required)
    \/ \E active \in BOOLEAN : ChangeConnection(active)
    \/ MapCustomer

Next == PreviewNext \/ DeviceNext \/ ScopeNext \/ Tick

Spec == Init /\ [][Next]_vars

\* Previews of a continuous policy are claimed again and again, read and publish
\* (PreviewRuns!DuePoliciesRun, PreviewRuns!RunsEnd); attempts may fail, not for ever.
Fairness ==
    /\ WF_vars(StartPreview)
    /\ SF_vars(LabelPreview)
    /\ SF_vars(ReadProvider)
    /\ SF_vars(PublishPreview)
    /\ WF_vars(Tick)

FairSpec == Spec /\ Fairness

----------------------------------------------------------------------------
(* Properties *)

LogEntry == [revision : ConnectionRevisions, age : 0..MaxLogged, outdated : BOOLEAN]

\* Every variable has its type.
TypeOK ==
    /\ policy \in [revision : PolicyRevisions, filtered : BOOLEAN,
                   required : 2..MaxRequired]
    /\ connection \in [revision : ConnectionRevisions, active : BOOLEAN]
    /\ mapped \in BOOLEAN
    /\ reported \in SUBSET Devices
    /\ mapping \in [Devices -> {"none", "active", "inactive"}]
    /\ presence \in [Devices -> PresenceRow \cup {NoPresence}]
    /\ preview \in PreviewRow \cup {NoPreview}
    /\ import \in [Devices -> ImportRow \cup {NoImport}]
    /\ log \in [Devices -> Seq(LogEntry)]
    /\ \A d \in Devices : Len(log[d]) <= MaxRequired
    /\ sighted \in SUBSET Devices

\* The presence row and the mapping it is about agree, though snapshots, imports
\* and decisions write them in separate transactions: a mapping is inactive exactly
\* when its row says retired or ready to be restored.
MappingFollowsState ==
    \A d \in Devices :
        /\ mapping[d] = "none" => presence[d] = NoPresence
        /\ mapping[d] = "inactive" <=> presence[d].state \in {"retired", "restore_ready"}

\* Rows and preview remember the policy they were evaluated under: of the current
\* revision, the snapshots it asks for.
RevisionsAreTerms ==
    /\ InProgress => /\ preview.policyRevision <= policy.revision
                     /\ preview.policyRevision = policy.revision =>
                           preview.required = policy.required
    /\ \A d \in Devices : presence[d] # NoPresence =>
          /\ presence[d].policyRevision <= policy.revision
          /\ presence[d].state = "eligible" /\ presence[d].policyRevision = policy.revision =>
                presence[d].absences >= policy.required

\* A preview under way has not yet met what was imported since it started or read.
ImportsAreNews ==
    InProgress => /\ \A d \in preview.fresh : presence[d] = NoPresence
                  /\ \A d \in preview.imported : log[d] = <<>>

\* A row that counts no missed snapshots has none in the log.
CountsFromNothing ==
    \A d \in Devices :
        /\ presence[d] = NoPresence \/ presence[d].state \in {"observed", "not_evaluated"}
              => log[d] = <<>>
        /\ presence[d].state \in {"observed", "not_evaluated"} => presence[d].absences = 0
        /\ presence[d].state = "restore_ready" => log[d] = <<>> /\ d \in sighted

\* The ages of one snapshot in two records, each kept up to a bound of its own.
OneAge(m, n, bound) == Least(m, bound) = Least(n, bound)

\* A row counts the snapshots that missed its device: as many, under the row's
\* revision of the connection, and only the first may be from before an import.
Counts(row, misses) ==
    LET n == Len(misses)
    IN  /\ ~row.filtered /\ row.absences = n /\ n > 0
        /\ \A i \in 1..n : /\ misses[i].revision = row.connectionRevision
                           /\ misses[i].outdated => i = 1

\* It spans them: the first is as old as the row says and the last as old as the row.
Spans(row, misses) ==
    LET n == Len(misses)
    IN  /\ OneAge(row.missing, misses[1].age, Least(MaxMissing, MaxLogged))
        /\ row.age <= MaxAge => misses[n].age = row.age
        /\ row.state = "eligible" /\ misses[n].age <= MaxAge =>
              misses[1].age - misses[n].age >= MinimumHours

\* A row that says monitoring or eligible is about what is in the log, and the last
\* accepted snapshot did not report its device.
CountsTheLog ==
    \A d \in Devices : presence[d].state \in {"monitoring", "eligible"} =>
        Counts(presence[d], log[d]) /\ Spans(presence[d], log[d]) /\ d \notin sighted

\* The state is consistent between any two transactions.
IInv == /\ TypeOK
        /\ MappingFollowsState
        /\ RevisionsAreTerms
        /\ ImportsAreNews
        /\ CountsFromNothing
        /\ CountsTheLog

\* A mapping is retired on as many missed snapshots in a row as the current policy
\* asks for, all accepted under the current revision of the connection, far enough
\* apart and the last of them recent; at most one of them was read before an
\* import saw the device, and the last accepted snapshot did not report it.
RetirementIsJustified ==
    [][\A d \in Devices : mapping[d] = "active" /\ mapping'[d] = "inactive" =>
          LET misses == log[d]
              n == Len(misses)
          IN  /\ n >= policy.required
              /\ \A i \in 1..n : misses[i].revision = connection.revision
              /\ misses[1].age - misses[n].age >= MinimumHours
              /\ misses[n].age <= MaxAge
              /\ \A i, j \in 1..n : misses[i].outdated /\ misses[j].outdated => i = j
              /\ d \notin sighted]_vars

\* "Reappearance never silently reactivates a retired mapping" (docs/NCENTRAL.md):
\* an inactive mapping is active again only when the last accepted snapshot reported
\* its device and an administrator restores it, whatever imports are under way.
OnlyRestoreReactivates ==
    [][\A d \in Devices : mapping[d] = "inactive" /\ mapping'[d] = "active" =>
          d \in sighted /\ presence[d].state = "restore_ready" /\ import' = import]_vars

\* No step changes the lifecycle of a mapping without the evidence and the decision
\* it takes.
GovernedChanges == RetirementIsJustified /\ OnlyRestoreReactivates

Steady == connection.active /\ mapped /\ ~policy.filtered

\* A device that is gone for good is offered for retirement on fresh evidence, again
\* and again, whatever previews fail and however often policy and connection were
\* changed before.
GoneIsOffered ==
    \A d \in Devices :
        <>[](Steady /\ d \notin reported /\ mapping[d] = "active") =>
            []<>(presence[d].state = "eligible" /\ Fresh(d))

\* A retired device that is back for good is offered for restoring, likewise.
BackIsOffered ==
    \A d \in Devices :
        <>[](Steady /\ d \in reported /\ mapping[d] = "inactive") =>
            []<>(presence[d].state = "restore_ready" /\ Fresh(d))

\* Whatever the estate comes to in the end, the administrator is offered it.
OffersFollow == GoneIsOffered /\ BackIsOffered
============================================================================
