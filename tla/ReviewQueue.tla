---------------------------- MODULE ReviewQueue ----------------------------
(***************************************************************************)
(* The review queue of one saved CI policy: what previews publish into     *)
(* integration_ci_review_items and how administrators decide on it -       *)
(* dismiss, ignore (a durable suppression), restore, import and link.      *)
(*                                                                         *)
(* Previews and requests read first and write later; the writes are one    *)
(* transaction each. Nothing but revisions and content hashes ties a write *)
(* to what its author read. At most one preview of a policy can publish at *)
(* a time (PreviewRuns!PublicationIsFenced), so there is one here.         *)
(***************************************************************************)
EXTENDS Integers

CONSTANTS
    Ids,            \* immutable provider identities of one provider customer
    Admins,         \* platform administrators, one import or link each at a time
    Outcomes,       \* bound: what unmapped records may turn out to be
    MaxVersion,     \* bound: states of a provider record
    MaxPolicyRevision,      \* bound: revisions of the policy
    MaxConnectionRevision   \* bound: revisions of the connection

Actions == {"create", "update", "link", "conflict"}

ASSUME ReviewAssumption ==
    /\ Outcomes \subseteq Actions
    /\ MaxVersion \in Nat \ {0}
    /\ MaxPolicyRevision \in Nat \ {0}
    /\ MaxConnectionRevision \in Nat \ {0}

VARIABLES
    policy,      \* revision, and the identities its filters exclude
    connection,  \* revision, and whether it is enabled and active
    mapped,      \* the provider customer is mapped to the policy's customer
    suppressed,  \* active rows of integration_object_suppressions
    item,        \* review items
    provider,    \* what the provider reports
    ci,          \* version of the record the mapped CI was given, 0: not mapped
    created,     \* history: CIs created for an identity
    preview,     \* the preview that holds the policy's lease
    request      \* the import or link an administrator has in progress

scopeVars == <<policy, connection, mapped>>
vars == <<scopeVars, suppressed, item, provider, ci, created, preview, request>>

----------------------------------------------------------------------------
(* Data *)

Versions == 1..MaxVersion
PolicyRevisions == 1..MaxPolicyRevision
ConnectionRevisions == 1..MaxConnectionRevision

\* What the content hash covers: the record and what would be done with it.
Content == [version : Versions, action : Actions]
NoContent == [version |-> 0, action |-> "none"]

NoItem == [state |-> "absent", content |-> NoContent,
           policyRevision |-> 0, connectionRevision |-> 0]
NoPreview == [phase |-> "idle", policyRevision |-> 0, excluded |-> {},
              connectionRevision |-> 0, found |-> [x \in Ids |-> NoContent]]
NoRequest == [kind |-> "none", ready |-> FALSE, id |-> "none",
              content |-> NoContent, policyRevision |-> 0,
              connectionRevision |-> 0, guard |-> NoContent]

\* last_sync_run_id is kept as the two revisions that run was made under.
ItemRow == [state : {"pending", "dismissed", "resolved"}, content : Content,
            policyRevision : PolicyRevisions, connectionRevision : ConnectionRevisions]

\* A run in progress: the filters and the settings it works under, its result.
PreviewRow == [phase : {"idle", "claimed", "read"},
               policyRevision : PolicyRevisions \cup {0},
               excluded : SUBSET Ids,
               connectionRevision : ConnectionRevisions \cup {0},
               found : [Ids -> Content \cup {NoContent}]]

\* ready: the pending review item has been looked up; guard is its content.
RequestRow == [kind : {"import", "link"}, ready : BOOLEAN, id : Ids, content : Content,
               policyRevision : PolicyRevisions,
               connectionRevision : ConnectionRevisions,
               guard : Content \cup {NoContent}]

\* How a reported record compares with the CMDB. What an unmapped one is depends
\* on the other CIs: new, in conflict with their names or identifiers, or matched
\* by one strong identifier to a CI that has other values (update) or the same
\* (link). A mapped one is an update unless its CI has its values already.
Proposals(x) ==
    IF ci[x] = 0 THEN Outcomes
    ELSE IF ci[x] # provider[x].version THEN {"update"} ELSE {}

Reviewable(x) == {[version |-> provider[x].version, action |-> d] : d \in Proposals(x)}

----------------------------------------------------------------------------
(* Previews *)

\* A queued run takes the policy along, a direct one reads it when it starts.
ClaimPreview ==
    /\ preview.phase = "idle"
    /\ connection.active
    /\ preview' = [NoPreview EXCEPT !.phase = "claimed",
                      !.policyRevision = policy.revision, !.excluded = policy.excluded]
    /\ UNCHANGED <<scopeVars, suppressed, item, provider, ci, created, request>>

\* Read the provider under the current connection settings and classify what
\* the policy includes.
ReadProvider ==
    /\ preview.phase = "claimed"
    /\ mapped
    /\ \E found \in [Ids -> Content \cup {NoContent}] :
          /\ \A x \in Ids :
                IF provider[x].reported /\ x \notin preview.excluded /\ Reviewable(x) # {}
                THEN found[x] \in Reviewable(x) ELSE found[x] = NoContent
          /\ preview' = [preview EXCEPT !.phase = "read", !.found = found,
                                        !.connectionRevision = connection.revision]
    /\ UNCHANGED <<scopeVars, suppressed, item, provider, ci, created, request>>

\* Mutants of Upserted: a decision is kept whatever comes, or never.
UpsertedKeepingState(x) ==
    [state |-> IF item[x].state = "absent" THEN "pending" ELSE item[x].state,
     content |-> preview.found[x],
     policyRevision |-> preview.policyRevision,
     connectionRevision |-> preview.connectionRevision]
UpsertedAsPending(x) ==
    [state |-> "pending", content |-> preview.found[x],
     policyRevision |-> preview.policyRevision,
     connectionRevision |-> preview.connectionRevision]

\* A seen item is pending again if its content changed or it had been resolved.
Upserted(x) ==
    [state |-> IF item[x].state = "dismissed" /\ item[x].content = preview.found[x]
               THEN "dismissed" ELSE "pending",
     content |-> preview.found[x],
     policyRevision |-> preview.policyRevision,
     connectionRevision |-> preview.connectionRevision]

\* Replace the queue in the transaction that ends the run. The policy's revision
\* is not compared.
PublishPreview ==
    /\ preview.phase = "read"
    /\ item' = [x \in Ids |->
                  IF preview.found[x] # NoContent THEN Upserted(x)
                  ELSE IF item[x].state = "pending"
                       THEN [item[x] EXCEPT !.state = "resolved"] ELSE item[x]]
    /\ preview' = NoPreview
    /\ UNCHANGED <<scopeVars, suppressed, provider, ci, created, request>>

\* The preview fails, is cancelled or loses its lease.
AbandonPreview ==
    /\ preview.phase # "idle"
    /\ preview' = NoPreview
    /\ UNCHANGED <<scopeVars, suppressed, item, provider, ci, created, request>>

----------------------------------------------------------------------------
(* Decisions on an item *)

\* The endpoints that ask for a pending item do so before the transaction, which
\* takes the item in whatever state it is by then.
Dismiss(x) ==
    /\ item[x].state # "absent"
    /\ item' = [item EXCEPT ![x].state = "dismissed"]
    /\ UNCHANGED <<scopeVars, suppressed, provider, ci, created, preview, request>>

\* Mutant: the exclusion is saved without a new revision.
IgnoreQuietly(x) ==
    /\ item[x].state # "absent"
    /\ suppressed' = suppressed \cup {x}
    /\ policy' = [policy EXCEPT !.excluded = @ \cup {x}]
    /\ item' = [item EXCEPT ![x].state = "resolved"]
    /\ UNCHANGED <<connection, mapped, provider, ci, created, preview, request>>

Ignore(x) ==
    /\ item[x].state # "absent"
    /\ policy.revision < MaxPolicyRevision
    /\ suppressed' = suppressed \cup {x}
    /\ policy' = [revision |-> policy.revision + 1, excluded |-> policy.excluded \cup {x}]
    /\ item' = [item EXCEPT ![x].state = "resolved"]
    /\ UNCHANGED <<connection, mapped, provider, ci, created, preview, request>>

Restore(x) ==
    /\ x \in suppressed
    /\ policy.revision < MaxPolicyRevision
    /\ suppressed' = suppressed \ {x}
    /\ policy' = [revision |-> policy.revision + 1, excluded |-> policy.excluded \ {x}]
    /\ item' = [item EXCEPT ![x].state = "pending"]
    /\ UNCHANGED <<connection, mapped, provider, ci, created, preview, request>>

----------------------------------------------------------------------------
(* Imports and links *)

\* An import re-reads the provider under the current policy and settings.
ImportRead(a, x) ==
    /\ request[a].kind = "none"
    /\ mapped
    /\ provider[x].reported /\ x \notin policy.excluded
    /\ \E c \in Reviewable(x) :
          /\ c.action # "conflict"
          /\ request' = [request EXCEPT ![a] =
                [kind |-> "import", ready |-> FALSE, id |-> x, content |-> c,
                 policyRevision |-> policy.revision,
                 connectionRevision |-> connection.revision, guard |-> NoContent]]
    /\ UNCHANGED <<scopeVars, suppressed, item, provider, ci, created, preview>>

\* The pending review item of the identity, if there is one, is to be unchanged
\* when the import is applied.
ImportLookup(a) ==
    LET x == request[a].id
    IN  /\ request[a].kind = "import" /\ ~request[a].ready
        /\ request' = [request EXCEPT ![a] =
              [@ EXCEPT !.ready = TRUE,
                        !.guard = IF item[x].state = "pending" THEN item[x].content
                                                               ELSE NoContent]]
        /\ UNCHANGED <<scopeVars, suppressed, item, provider, ci, created, preview>>

\* _require_current_review_generation: the run that last saw the item was made
\* under the revisions that are current.
CurrentGeneration(x) ==
    /\ item[x].state = "pending"
    /\ item[x].policyRevision = policy.revision
    /\ item[x].connectionRevision = connection.revision
    /\ connection.active /\ mapped

\* A link takes the record from the reviewed item.
LinkReview(a, x) ==
    /\ request[a].kind = "none"
    /\ CurrentGeneration(x)
    /\ request' = [request EXCEPT ![a] =
          [kind |-> "link", ready |-> TRUE, id |-> x, content |-> item[x].content,
           policyRevision |-> policy.revision,
           connectionRevision |-> connection.revision, guard |-> item[x].content]]
    /\ UNCHANGED <<scopeVars, suppressed, item, provider, ci, created, preview>>

\* Mutants: the policy's revision, or the existing mapping, is not looked at.
ApplicableUnderAnyPolicy(a) ==
    LET q == request[a]
    IN  /\ q.ready
        /\ connection.active /\ mapped
        /\ connection.revision = q.connectionRevision
        /\ q.guard # NoContent =>
              item[q.id].state = "pending" /\ item[q.id].content = q.guard
ApplicableToAnyMapping(a) ==
    LET q == request[a]
    IN  /\ q.ready
        /\ connection.active /\ mapped
        /\ connection.revision = q.connectionRevision
        /\ policy.revision = q.policyRevision
        /\ q.guard # NoContent =>
              item[q.id].state = "pending" /\ item[q.id].content = q.guard

\* What apply_reviewed_provider_ci_import requires under its row locks.
Applicable(a) ==
    LET q == request[a]
    IN  /\ q.ready
        /\ connection.active /\ mapped
        /\ connection.revision = q.connectionRevision
        /\ policy.revision = q.policyRevision
        /\ q.guard # NoContent =>
              item[q.id].state = "pending" /\ item[q.id].content = q.guard
        /\ q.kind = "import" =>
              /\ q.content.action = "create" => ci[q.id] = 0
              /\ q.content.action = "update" => ci[q.id] # 0

\* Write the CI and its mapping and resolve the item: the one that was looked up,
\* or else whatever item of the identity is open.
Apply(a) ==
    LET q == request[a]
        x == q.id
    IN  /\ request[a].kind # "none"
        /\ Applicable(a)
        /\ ci' = [ci EXCEPT ![x] = q.content.version]
        /\ created' = IF q.kind = "import" /\ q.content.action = "create"
                      THEN [created EXCEPT ![x] = @ + 1] ELSE created
        /\ item' = IF item[x].state = "absent" THEN item
                   ELSE [item EXCEPT ![x].state = "resolved"]
        /\ request' = [request EXCEPT ![a] = NoRequest]
        /\ UNCHANGED <<scopeVars, suppressed, provider, preview>>

\* The request is refused, fails, or its process dies.
AbandonRequest(a) ==
    /\ request[a].kind # "none"
    /\ request' = [request EXCEPT ![a] = NoRequest]
    /\ UNCHANGED <<scopeVars, suppressed, item, provider, ci, created, preview>>

----------------------------------------------------------------------------
(* Policy, connection and provider *)

\* Saving the policy replaces its filters, the excluded identities among them.
SavePolicy(excluded) ==
    /\ policy.revision < MaxPolicyRevision
    /\ policy' = [revision |-> policy.revision + 1, excluded |-> excluded]
    /\ UNCHANGED <<connection, mapped, suppressed, item, provider, ci, created,
                   preview, request>>

\* Settings and lifecycle changes both count as a revision of the connection.
ChangeConnection(active) ==
    /\ connection.revision < MaxConnectionRevision
    /\ connection' = [revision |-> connection.revision + 1, active |-> active]
    /\ UNCHANGED <<policy, mapped, suppressed, item, provider, ci, created,
                   preview, request>>

MapCustomer ==
    /\ mapped' = ~mapped
    /\ UNCHANGED <<policy, connection, suppressed, item, provider, ci, created,
                   preview, request>>

\* The provider's record changes, disappears or comes back.
ProviderChanges(x) ==
    /\ provider' \in {[provider EXCEPT ![x].version = @ + 1],
                      [provider EXCEPT ![x].reported = ~@]}
    /\ provider'[x].version \in Versions
    /\ UNCHANGED <<scopeVars, suppressed, item, ci, created, preview, request>>

----------------------------------------------------------------------------

Init ==
    /\ policy = [revision |-> 1, excluded |-> {}]
    /\ connection = [revision |-> 1, active |-> TRUE]
    /\ mapped = TRUE
    /\ suppressed = {}
    /\ item = [x \in Ids |-> NoItem]
    /\ provider = [x \in Ids |-> [version |-> 1, reported |-> TRUE]]
    /\ ci = [x \in Ids |-> 0]
    /\ created = [x \in Ids |-> 0]
    /\ preview = NoPreview
    /\ request = [a \in Admins |-> NoRequest]

PreviewNext == ClaimPreview \/ ReadProvider \/ PublishPreview \/ AbandonPreview

DecisionNext == \E x \in Ids : Dismiss(x) \/ Ignore(x) \/ Restore(x)

RequestNext ==
    \E a \in Admins :
        \/ \E x \in Ids : ImportRead(a, x) \/ LinkReview(a, x)
        \/ ImportLookup(a) \/ Apply(a) \/ AbandonRequest(a)

ScopeNext ==
    \/ \E excluded \in SUBSET Ids : SavePolicy(excluded)
    \/ \E active \in BOOLEAN : ChangeConnection(active)
    \/ MapCustomer
    \/ \E x \in Ids : ProviderChanges(x)

Next == PreviewNext \/ DecisionNext \/ RequestNext \/ ScopeNext

Spec == Init /\ [][Next]_vars

\* Previews of a continuous policy are claimed again and again, read and publish
\* (PreviewRuns!DuePoliciesRun, PreviewRuns!RunsEnd); one that finds its customer
\* unmapped fails, and an attempt may fail, but not for ever.
Fairness ==
    /\ WF_vars(ClaimPreview)
    /\ SF_vars(ReadProvider)
    /\ SF_vars(PublishPreview)

FairSpec == Spec /\ Fairness

----------------------------------------------------------------------------
(* Properties *)

\* Every variable has its type.
TypeOK ==
    /\ policy \in [revision : PolicyRevisions, excluded : SUBSET Ids]
    /\ connection \in [revision : ConnectionRevisions, active : BOOLEAN]
    /\ mapped \in BOOLEAN
    /\ suppressed \in SUBSET Ids
    /\ item \in [Ids -> ItemRow \cup {NoItem}]
    /\ provider \in [Ids -> [version : Versions, reported : BOOLEAN]]
    /\ ci \in [Ids -> Versions \cup {0}]
    /\ created \in [Ids -> Nat]
    /\ preview \in PreviewRow
    /\ request \in [Admins -> RequestRow \cup {NoRequest}]

\* A revision of the policy stands for one set of filters: nothing that was
\* decided under the current revision concerns an identity it excludes.
RevisionsAreFilters ==
    /\ /\ preview.policyRevision <= policy.revision
       /\ preview.policyRevision = policy.revision => preview.excluded = policy.excluded
       /\ \A x \in preview.excluded : preview.found[x] = NoContent
    /\ \A x \in Ids :
          /\ item[x].policyRevision <= policy.revision
          /\ item[x].policyRevision = policy.revision => x \notin policy.excluded
    /\ \A a \in Admins :
          /\ request[a].policyRevision <= policy.revision
          /\ request[a].kind # "none" /\ request[a].policyRevision = policy.revision =>
                request[a].id \notin policy.excluded

\* Whatever administrators do at the same time, one provider identity gets at
\* most one new CI.
NoDuplicateCreate == \A x \in Ids : created[x] <= 1

\* The inductive invariant behind ImportsRespectExclusions and NoDuplicateCreate.
IInv ==
    /\ TypeOK
    /\ RevisionsAreFilters
    /\ \A x \in Ids : created[x] = 0 \/ (created[x] = 1 /\ ci[x] # 0)
    /\ \A x \in suppressed : item[x] # NoItem
    /\ preview.phase # "idle" => preview.policyRevision # 0
    /\ preview.phase = "read" => preview.connectionRevision # 0

\* An identity the saved policy excludes is never imported or linked, however old
\* the preview, the review item or the import that proposes it.
ImportsRespectExclusions ==
    [][\A x \in Ids : ci'[x] # ci[x] => x \notin policy.excluded]_vars

\* A dismissed item only becomes pending again with changed evidence, or because
\* its suppression was restored: previews that see the same evidence keep quiet.
DismissalsStand ==
    [][\A x \in Ids :
          item[x].state = "dismissed" /\ item'[x].state = "pending" =>
              item'[x].content # item[x].content \/ x \in suppressed \ suppressed']_vars

\* A record the policy includes and the CMDB lacks is not lost: sooner or later,
\* and again and again, it is in the queue, or was dismissed as it is now.
NothingIsLost ==
    <>[](connection.active /\ mapped) => \A x \in Ids :
        []<>(\/ ~provider[x].reported \/ x \in policy.excluded
             \/ ci[x] = provider[x].version
             \/ item[x].state = "pending"
             \/ item[x].state = "dismissed" /\ item[x].content.version = provider[x].version)

\* "Durable ignores [...] remain excluded until restored." (docs/CONNECTWISE.md:133)
\* An ignored identity is out of the review queue until it is restored. Not so: a
\* preview in flight, or a saved policy, puts it back.
IgnoredStaysOut == \A x \in suppressed : item[x].state # "pending"

\* "Import re-reads [...], so a stale preview cannot silently overwrite newer
\* evidence." (docs/CONNECTWISE.md:115) An import never gives a CI an older record
\* than it has. Not so: two imports apply what each of them read in either order.
NewerEvidenceStays ==
    [][\A a \in Admins : request[a].kind = "import" /\ request'[a] # request[a] =>
          \A x \in Ids : ci'[x] >= ci[x]]_vars

\* "Changed - an immutable provider mapping or unique strong identifier resolves
\* one CI [...] Only new, changed and identity-link rows can be selected."
\* (docs/CONNECTWISE.md:110, :115) An import is applied when nothing it was
\* decided on has changed. Not so: an update is refused without a mapping.
SelectableRowsApply ==
    \A a \in Admins :
        LET q == request[a]
        IN  /\ q.kind = "import" /\ q.ready
            /\ q.content \in Reviewable(q.id)
            /\ connection.active /\ mapped
            /\ q.connectionRevision = connection.revision
            /\ q.policyRevision = policy.revision
            /\ q.guard # NoContent =>
                  item[q.id].state = "pending" /\ item[q.id].content = q.guard
            => Applicable(a)
============================================================================
