------------------------- MODULE ReviewQueueProofs -------------------------
(***************************************************************************)
(* Theorems about ReviewQueue, for every set of identities and of          *)
(* administrators and every bound. The invariant is IInv: a revision of    *)
(* the policy names one set of exclusions, so whatever was read under the  *)
(* current revision respects the current exclusions.                       *)
(***************************************************************************)
EXTENDS ReviewQueue, TLAPS

----------------------------------------------------------------------------
(* Rows *)

\* An item that exists is a row of the queue.
LEMMA ItemIsRow ==
    ASSUME NEW x \in Ids, TypeOK, item[x].state # "absent"
    PROVE  item[x] \in ItemRow
  BY DEF TypeOK, NoItem

\* A request in progress is one of the two kinds.
LEMMA RequestIsRow ==
    ASSUME NEW a \in Admins, TypeOK, request[a].kind # "none"
    PROVE  request[a] \in RequestRow
  BY DEF TypeOK, NoRequest

\* Deciding on a row leaves everything else of it alone.
LEMMA DecidedRow ==
    ASSUME NEW row \in ItemRow, NEW s \in {"pending", "dismissed", "resolved"}
    PROVE  /\ [row EXCEPT !.state = s] \in ItemRow
           /\ [row EXCEPT !.state = s].state = s
           /\ [row EXCEPT !.state = s].content = row.content
           /\ [row EXCEPT !.state = s].policyRevision = row.policyRevision
           /\ [row EXCEPT !.state = s].connectionRevision = row.connectionRevision
  BY DEF ItemRow

\* What a preview proposes is content.
LEMMA ReviewableIsContent ==
    ASSUME NEW x \in Ids, TypeOK
    PROVE  Reviewable(x) \subseteq Content
  BY ReviewAssumption DEF TypeOK, Reviewable, Proposals, Content, Actions

----------------------------------------------------------------------------
(* The invariant *)

LEMMA InitInv == Init => IInv
  <1> SUFFICES ASSUME Init PROVE IInv
    OBVIOUS
  <1>1. 1 \in Versions /\ 1 \in PolicyRevisions /\ 1 \in ConnectionRevisions
    BY ReviewAssumption DEF Versions, PolicyRevisions, ConnectionRevisions
  <1>2. NoPreview \in PreviewRow
    BY DEF NoPreview, PreviewRow
  <1>3. TypeOK
    BY <1>1, <1>2 DEF Init, TypeOK
  <1>4. RevisionsAreFilters
    BY DEF Init, RevisionsAreFilters, NoPreview, NoItem, NoRequest
  <1>5. preview.phase = "idle"
    BY DEF Init, NoPreview
  <1>6. \A x \in Ids : created[x] = 0
    BY DEF Init
  <1>7. suppressed = {}
    BY DEF Init
  <1>8. QED
    BY <1>3, <1>4, <1>5, <1>6, <1>7 DEF IInv

\* A preview takes the filters and the revision of the policy together.
LEMMA ClaimPreviewInv == IInv /\ ClaimPreview => IInv'
  <1> SUFFICES ASSUME IInv, ClaimPreview PROVE IInv'
    OBVIOUS
  <1> USE DEF ClaimPreview, scopeVars
  <1>0. TypeOK /\ RevisionsAreFilters
    BY DEF IInv
  <1>1. /\ preview'.phase = "claimed"
        /\ preview'.policyRevision = policy.revision
        /\ preview'.excluded = policy.excluded
        /\ preview'.connectionRevision = 0
        /\ preview'.found = [x \in Ids |-> NoContent]
        /\ preview' \in PreviewRow
    BY <1>0 DEF TypeOK, NoPreview, PreviewRow
  <1>2. TypeOK'
    BY <1>0, <1>1 DEF TypeOK
  <1>3. RevisionsAreFilters'
    <2>1. policy'.revision = policy.revision /\ policy.revision \in Int
      BY <1>0 DEF TypeOK, PolicyRevisions
    <2>2. \A x \in preview'.excluded : preview'.found[x] = NoContent
      BY <1>0, <1>1 DEF TypeOK
    <2> QED
      BY <1>0, <1>1, <2>1, <2>2 DEF RevisionsAreFilters
  <1> QED
    BY <1>0, <1>1, <1>2, <1>3 DEF IInv, TypeOK, PolicyRevisions

\* What the preview's filters exclude is not among what it found.
LEMMA ReadProviderInv == IInv /\ ReadProvider => IInv'
  <1> SUFFICES ASSUME IInv, ReadProvider PROVE IInv'
    OBVIOUS
  <1> USE DEF ReadProvider, scopeVars
  <1>0. TypeOK /\ RevisionsAreFilters
    BY DEF IInv
  <1>1. PICK found \in [Ids -> Content \cup {NoContent}] :
          /\ \A x \in Ids :
                IF provider[x].reported /\ x \notin preview.excluded /\ Reviewable(x) # {}
                THEN found[x] \in Reviewable(x) ELSE found[x] = NoContent
          /\ preview' = [preview EXCEPT !.phase = "read", !.found = found,
                                        !.connectionRevision = connection.revision]
    OBVIOUS
  <1>2. /\ preview'.phase = "read"
        /\ preview'.policyRevision = preview.policyRevision
        /\ preview'.excluded = preview.excluded
        /\ preview'.connectionRevision = connection.revision
        /\ preview'.found = found
        /\ preview' \in PreviewRow
    BY <1>0, <1>1 DEF TypeOK, PreviewRow
  <1>3. TypeOK'
    BY <1>0, <1>2 DEF TypeOK
  <1>4. RevisionsAreFilters'
    <2>1. \A x \in preview'.excluded : preview'.found[x] = NoContent
      BY <1>0, <1>1, <1>2 DEF TypeOK, PreviewRow
    <2> QED
      BY <1>0, <1>2, <2>1 DEF RevisionsAreFilters
  <1> QED
    BY <1>0, <1>2, <1>3, <1>4 DEF IInv, TypeOK, ConnectionRevisions

\* A row that is new or refreshed carries the preview's revisions.
LEMMA UpsertedRow ==
    ASSUME NEW x \in Ids, IInv, preview.phase = "read", preview.found[x] # NoContent
    PROVE  /\ Upserted(x) \in ItemRow
           /\ Upserted(x).policyRevision = preview.policyRevision
           /\ Upserted(x).content = preview.found[x]
  BY DEF IInv, TypeOK, PreviewRow, ItemRow, Upserted

\* A refreshed row is not of an excluded identity if the revision is current.
LEMMA PublishPreviewInv == IInv /\ PublishPreview => IInv'
  <1> SUFFICES ASSUME IInv, PublishPreview PROVE IInv'
    OBVIOUS
  <1> USE DEF PublishPreview, scopeVars
  <1>0. TypeOK /\ RevisionsAreFilters
    BY DEF IInv
  <1>1. ASSUME NEW x \in Ids
        PROVE  \/ /\ preview.found[x] # NoContent
                  /\ item'[x] \in ItemRow
                  /\ item'[x].policyRevision = preview.policyRevision
               \/ /\ item[x] # NoItem
                  /\ item'[x] \in ItemRow
                  /\ item'[x].policyRevision = item[x].policyRevision
               \/ item'[x] = item[x]
    <2>1. CASE preview.found[x] # NoContent
      BY <2>1, UpsertedRow
    <2>2. CASE preview.found[x] = NoContent /\ item[x].state = "pending"
      <3>1. item[x] \in ItemRow /\ item[x] # NoItem
        BY <1>0, <2>2, ItemIsRow DEF NoItem
      <3>2. item'[x] = [item[x] EXCEPT !.state = "resolved"]
        BY <2>2
      <3>3. PICK row \in ItemRow : row = item[x]
        BY <3>1
      <3>4. /\ [row EXCEPT !.state = "resolved"] \in ItemRow
            /\ [row EXCEPT !.state = "resolved"].policyRevision = row.policyRevision
        BY DecidedRow
      <3> QED
        BY <3>1, <3>2, <3>3, <3>4
    <2>3. CASE preview.found[x] = NoContent /\ item[x].state # "pending"
      BY <2>3
    <2> QED
      BY <2>1, <2>2, <2>3
  <1>2. NoItem \notin ItemRow
    BY DEF NoItem, ItemRow
  <1>3. /\ preview' = NoPreview
        /\ NoPreview \in PreviewRow
        /\ NoPreview.phase = "idle"
        /\ NoPreview.policyRevision = 0
        /\ NoPreview.excluded = {}
    BY DEF NoPreview, PreviewRow
  <1>4. item' \in [Ids -> ItemRow \cup {NoItem}]
    <2>1. \A x \in Ids : item'[x] \in ItemRow \cup {NoItem}
      BY <1>0, <1>1 DEF TypeOK
    <2>2. item' = [x \in Ids |-> item'[x]]
      OBVIOUS
    <2> QED
      BY <2>1, <2>2
  <1>5. TypeOK'
    BY <1>0, <1>3, <1>4 DEF TypeOK
  <1>6. policy.revision \in Int /\ policy.revision > 0
    BY <1>0 DEF TypeOK, PolicyRevisions
  <1>7. ASSUME NEW x \in Ids
        PROVE  /\ item'[x].policyRevision <= policy.revision
               /\ item'[x].policyRevision = policy.revision => x \notin policy.excluded
    BY <1>0, <1>1 DEF RevisionsAreFilters
  <1>8. RevisionsAreFilters'
    BY <1>0, <1>3, <1>6, <1>7 DEF RevisionsAreFilters
  <1>9. \A x \in suppressed : item'[x] # NoItem
    BY <1>0, <1>1, <1>2 DEF IInv, TypeOK
  <1> QED
    BY <1>3, <1>5, <1>8, <1>9 DEF IInv

\* Without a preview there is nothing to say about it.
LEMMA AbandonPreviewInv == IInv /\ AbandonPreview => IInv'
  <1> SUFFICES ASSUME IInv, AbandonPreview PROVE IInv'
    OBVIOUS
  <1> USE DEF AbandonPreview, scopeVars
  <1>0. TypeOK /\ RevisionsAreFilters
    BY DEF IInv
  <1>1. /\ preview' = NoPreview
        /\ NoPreview \in PreviewRow
        /\ NoPreview.phase = "idle"
        /\ NoPreview.policyRevision = 0
        /\ NoPreview.excluded = {}
    BY DEF NoPreview, PreviewRow
  <1>2. TypeOK'
    BY <1>0, <1>1 DEF TypeOK
  <1>3. policy.revision \in Int /\ policy.revision > 0
    BY <1>0 DEF TypeOK, PolicyRevisions
  <1>4. RevisionsAreFilters'
    BY <1>0, <1>1, <1>3 DEF RevisionsAreFilters
  <1> QED
    BY <1>1, <1>2, <1>4 DEF IInv

\* Decisions on an item keep its content and its revisions.
LEMMA DecideInv ==
    ASSUME NEW x \in Ids, IInv, item[x].state # "absent",
           NEW s \in {"pending", "dismissed", "resolved"},
           item' = [item EXCEPT ![x].state = s]
    PROVE  /\ item' \in [Ids -> ItemRow \cup {NoItem}]
           /\ \A y \in Ids : item[y] # NoItem => item'[y] # NoItem
           /\ item'[x] # NoItem
           /\ \A y \in Ids : item'[y].policyRevision = item[y].policyRevision
  <1>1. TypeOK
    BY DEF IInv
  <1>2. item[x] \in ItemRow
    BY <1>1, ItemIsRow
  <1>3. item'[x] = [item[x] EXCEPT !.state = s]
    BY <1>1 DEF TypeOK
  <1>4. item'[x] \in ItemRow /\ item'[x].policyRevision = item[x].policyRevision
    BY <1>2, <1>3 DEF ItemRow
  <1>5. NoItem \notin ItemRow
    BY DEF NoItem, ItemRow
  <1>6. \A y \in Ids : y # x => item'[y] = item[y]
    BY <1>1 DEF TypeOK
  <1>7. item' \in [Ids -> ItemRow \cup {NoItem}]
    BY <1>1, <1>4 DEF TypeOK
  <1>8. item'[x] # NoItem
    BY <1>4, <1>5
  <1>9. \A y \in Ids : item[y] # NoItem => item'[y] # NoItem
    BY <1>6, <1>8
  <1>10. \A y \in Ids : item'[y].policyRevision = item[y].policyRevision
    BY <1>4, <1>6
  <1> QED
    BY <1>7, <1>8, <1>9, <1>10

\* A dismissal concerns neither revisions nor filters.
LEMMA DismissInv == ASSUME NEW x \in Ids, IInv, Dismiss(x) PROVE IInv'
  <1> USE DEF Dismiss, scopeVars
  <1>0. TypeOK /\ RevisionsAreFilters
    BY DEF IInv
  <1>1. /\ item' \in [Ids -> ItemRow \cup {NoItem}]
        /\ \A y \in Ids : item[y] # NoItem => item'[y] # NoItem
        /\ \A y \in Ids : item'[y].policyRevision = item[y].policyRevision
    BY DecideInv
  <1>2. TypeOK'
    BY <1>0, <1>1 DEF TypeOK
  <1>3. RevisionsAreFilters'
    BY <1>0, <1>1 DEF RevisionsAreFilters
  <1> QED
    BY <1>0, <1>1, <1>2, <1>3 DEF IInv, TypeOK

\* What is read or kept under an older revision says nothing about a new one.
LEMMA NewRevision ==
    ASSUME IInv, policy.revision < MaxPolicyRevision,
           policy' \in [revision : {policy.revision + 1}, excluded : SUBSET Ids],
           \A y \in Ids : item'[y].policyRevision = item[y].policyRevision,
           UNCHANGED <<preview, request>>
    PROVE  /\ policy' \in [revision : PolicyRevisions, excluded : SUBSET Ids]
           /\ RevisionsAreFilters'
  <1>0. TypeOK /\ RevisionsAreFilters
    BY DEF IInv
  <1>1. policy'.revision = policy.revision + 1 /\ policy'.excluded \in SUBSET Ids
    OBVIOUS
  <1>2. policy.revision \in Int /\ policy.revision >= 1 /\ MaxPolicyRevision \in Int
    BY <1>0, ReviewAssumption DEF TypeOK, PolicyRevisions
  <1>3. policy.revision + 1 \in PolicyRevisions
    BY <1>2 DEF PolicyRevisions
  <1>4. policy' \in [revision : PolicyRevisions, excluded : SUBSET Ids]
    BY <1>3
  <1>5. ASSUME NEW n, n \in PolicyRevisions \cup {0}, n <= policy.revision
        PROVE  n <= policy'.revision /\ n # policy'.revision
    BY <1>1, <1>2, <1>5 DEF PolicyRevisions
  <1>6. preview.policyRevision \in PolicyRevisions \cup {0}
    BY <1>0 DEF TypeOK, PreviewRow
  <1>7. \A y \in Ids : item[y].policyRevision \in PolicyRevisions \cup {0}
    BY <1>0 DEF TypeOK, ItemRow, NoItem
  <1>8. \A a \in Admins : request[a].policyRevision \in PolicyRevisions \cup {0}
    BY <1>0 DEF TypeOK, RequestRow, NoRequest
  <1>9. RevisionsAreFilters'
    BY <1>0, <1>5, <1>6, <1>7, <1>8 DEF RevisionsAreFilters
  <1> QED
    BY <1>4, <1>9

\* An ignore excludes and counts the revision up in one transaction.
LEMMA IgnoreInv == ASSUME NEW x \in Ids, IInv, Ignore(x) PROVE IInv'
  <1> USE DEF Ignore, scopeVars
  <1>0. TypeOK /\ RevisionsAreFilters
    BY DEF IInv
  <1>1. /\ item' \in [Ids -> ItemRow \cup {NoItem}]
        /\ \A y \in Ids : item[y] # NoItem => item'[y] # NoItem
        /\ item'[x] # NoItem
        /\ \A y \in Ids : item'[y].policyRevision = item[y].policyRevision
    BY DecideInv
  <1>2. policy' \in [revision : {policy.revision + 1}, excluded : SUBSET Ids]
    BY <1>0 DEF TypeOK
  <1>3. /\ policy' \in [revision : PolicyRevisions, excluded : SUBSET Ids]
        /\ RevisionsAreFilters'
    BY <1>1, <1>2, NewRevision
  <1>4. TypeOK'
    BY <1>0, <1>1, <1>3 DEF TypeOK
  <1> QED
    BY <1>0, <1>1, <1>3, <1>4 DEF IInv, TypeOK

\* So does a restore, which reopens the item.
LEMMA RestoreInv == ASSUME NEW x \in Ids, IInv, Restore(x) PROVE IInv'
  <1> USE DEF Restore, scopeVars
  <1>0. TypeOK /\ RevisionsAreFilters
    BY DEF IInv
  <1>1. item[x].state # "absent"
    BY <1>0 DEF IInv, TypeOK, ItemRow
  <1>2. /\ item' \in [Ids -> ItemRow \cup {NoItem}]
        /\ \A y \in Ids : item[y] # NoItem => item'[y] # NoItem
        /\ \A y \in Ids : item'[y].policyRevision = item[y].policyRevision
    BY <1>1, DecideInv
  <1>3. policy' \in [revision : {policy.revision + 1}, excluded : SUBSET Ids]
    BY <1>0 DEF TypeOK
  <1>4. /\ policy' \in [revision : PolicyRevisions, excluded : SUBSET Ids]
        /\ RevisionsAreFilters'
    BY <1>2, <1>3, NewRevision
  <1>5. TypeOK'
    BY <1>0, <1>2, <1>4 DEF TypeOK
  <1> QED
    BY <1>0, <1>2, <1>4, <1>5 DEF IInv, TypeOK

----------------------------------------------------------------------------
(* Requests *)

\* A request under the current revisions, of an identity that is not excluded.
LEMMA NewRequestInv ==
    ASSUME NEW a \in Admins, IInv, NEW q \in RequestRow,
           q.policyRevision = policy.revision, q.id \notin policy.excluded,
           request' = [request EXCEPT ![a] = q],
           UNCHANGED <<scopeVars, suppressed, item, provider, ci, created, preview>>
    PROVE  IInv'
  <1> USE DEF scopeVars
  <1>0. TypeOK /\ RevisionsAreFilters
    BY DEF IInv
  <1>1. request' \in [Admins -> RequestRow \cup {NoRequest}]
    BY <1>0 DEF TypeOK
  <1>2. TypeOK'
    BY <1>0, <1>1 DEF TypeOK
  <1>3. policy.revision \in Int
    BY <1>0 DEF TypeOK, PolicyRevisions
  <1>4. \A b \in Admins : request'[b] = IF b = a THEN q ELSE request[b]
    BY <1>0 DEF TypeOK
  <1>5. RevisionsAreFilters'
    BY <1>0, <1>3, <1>4 DEF RevisionsAreFilters
  <1> QED
    BY <1>2, <1>5 DEF IInv

\* An import is of a record the current policy includes.
LEMMA ImportReadInv ==
    ASSUME NEW a \in Admins, NEW x \in Ids, IInv, ImportRead(a, x)
    PROVE  IInv'
  <1> USE DEF ImportRead
  <1>0. TypeOK
    BY DEF IInv
  <1>1. PICK c \in Reviewable(x) :
          request' = [request EXCEPT ![a] =
                [kind |-> "import", ready |-> FALSE, id |-> x, content |-> c,
                 policyRevision |-> policy.revision,
                 connectionRevision |-> connection.revision, guard |-> NoContent]]
    OBVIOUS
  <1> DEFINE q == [kind |-> "import", ready |-> FALSE, id |-> x, content |-> c,
                   policyRevision |-> policy.revision,
                   connectionRevision |-> connection.revision, guard |-> NoContent]
  <1>2. c \in Content
    BY <1>0, ReviewableIsContent
  <1>3. q \in RequestRow /\ q.policyRevision = policy.revision /\ q.id = x
    BY <1>0, <1>2 DEF TypeOK, RequestRow
  <1>4. request' = [request EXCEPT ![a] = q]
    BY <1>1
  <1> HIDE DEF q
  <1> QED
    BY <1>3, <1>4, NewRequestInv

\* A link is of an item that was last seen under the current revision.
LEMMA LinkReviewInv ==
    ASSUME NEW a \in Admins, NEW x \in Ids, IInv, LinkReview(a, x)
    PROVE  IInv'
  <1> USE DEF LinkReview, CurrentGeneration
  <1>0. TypeOK /\ RevisionsAreFilters
    BY DEF IInv
  <1> DEFINE q == [kind |-> "link", ready |-> TRUE, id |-> x, content |-> item[x].content,
                   policyRevision |-> policy.revision,
                   connectionRevision |-> connection.revision, guard |-> item[x].content]
  <1>1. item[x].content \in Content
    BY <1>0, ItemIsRow DEF ItemRow
  <1>2. q \in RequestRow /\ q.policyRevision = policy.revision /\ q.id = x
    BY <1>0, <1>1 DEF TypeOK, RequestRow
  <1>3. x \notin policy.excluded
    BY <1>0 DEF RevisionsAreFilters
  <1>4. request' = [request EXCEPT ![a] = q]
    OBVIOUS
  <1> HIDE DEF q
  <1> QED
    BY <1>2, <1>3, <1>4, NewRequestInv

\* Looking an item up changes only what the import will ask of it.
LEMMA ImportLookupInv ==
    ASSUME NEW a \in Admins, IInv, ImportLookup(a)
    PROVE  IInv'
  <1> USE DEF ImportLookup, scopeVars
  <1>0. TypeOK /\ RevisionsAreFilters
    BY DEF IInv
  <1> DEFINE g == IF item[request[a].id].state = "pending"
                  THEN item[request[a].id].content ELSE NoContent
             q == [request[a] EXCEPT !.ready = TRUE, !.guard = g]
  <1>1. request[a] \in RequestRow
    BY <1>0, RequestIsRow
  <1>2. g \in Content \cup {NoContent}
    BY <1>0, <1>1, ItemIsRow DEF RequestRow, ItemRow
  <1>3. request' = [request EXCEPT ![a] = q]
    OBVIOUS
  <1> HIDE DEF g
  <1>4. /\ q \in RequestRow /\ q.kind = request[a].kind /\ q.id = request[a].id
        /\ q.policyRevision = request[a].policyRevision
    BY <1>1, <1>2 DEF RequestRow
  <1> HIDE DEF q
  <1>5. request' \in [Admins -> RequestRow \cup {NoRequest}]
    BY <1>0, <1>3, <1>4 DEF TypeOK
  <1>6. TypeOK'
    BY <1>0, <1>5 DEF TypeOK
  <1>7. \A b \in Admins : request'[b] = IF b = a THEN q ELSE request[b]
    BY <1>0, <1>3 DEF TypeOK
  <1>8. RevisionsAreFilters'
    BY <1>0, <1>4, <1>7 DEF RevisionsAreFilters
  <1> QED
    BY <1>6, <1>8 DEF IInv

\* A request that is over leaves nothing to be consistent with.
LEMMA RequestOver ==
    ASSUME NEW a \in Admins, IInv, request' = [request EXCEPT ![a] = NoRequest]
    PROVE  /\ request' \in [Admins -> RequestRow \cup {NoRequest}]
           /\ \A b \in Admins : request'[b] = request[b] \/ request'[b] = NoRequest
  BY DEF IInv, TypeOK

\* Only a create counts as one, and it leaves the identity mapped.
LEMMA ApplyInv == ASSUME NEW a \in Admins, IInv, Apply(a) PROVE IInv'
  <1> USE DEF scopeVars
  <1>0. TypeOK /\ RevisionsAreFilters
    BY DEF IInv
  <1> DEFINE q == request[a]
             x == q.id
  <1>1. q \in RequestRow
    BY <1>0, RequestIsRow DEF Apply
  <1>2. x \in Ids /\ q.content \in Content
    BY <1>1 DEF RequestRow
  <1>3. q.content.version \in Versions /\ q.content.version # 0
    BY <1>2, ReviewAssumption DEF Content, Versions
  <1>4. /\ ci' = [ci EXCEPT ![x] = q.content.version]
        /\ request' = [request EXCEPT ![a] = NoRequest]
        /\ UNCHANGED <<policy, connection, mapped, suppressed, provider, preview>>
    BY DEF Apply
  <1>5. /\ request' \in [Admins -> RequestRow \cup {NoRequest}]
        /\ \A b \in Admins : request'[b] = request[b] \/ request'[b] = NoRequest
    BY <1>4, RequestOver
  <1>6. /\ item' \in [Ids -> ItemRow \cup {NoItem}]
        /\ \A y \in Ids : item[y] # NoItem => item'[y] # NoItem
        /\ \A y \in Ids : item'[y].policyRevision = item[y].policyRevision
    <2>1. CASE item[x].state = "absent"
      BY <1>0, <2>1 DEF Apply, TypeOK
    <2>2. CASE item[x].state # "absent"
      <3>1. item' = [item EXCEPT ![x].state = "resolved"]
        BY <2>2 DEF Apply
      <3> QED
        BY <1>2, <2>2, <3>1, DecideInv
    <2> QED
      BY <2>1, <2>2
  <1>7. ci' \in [Ids -> Versions \cup {0}] /\ \A y \in Ids : ci[y] # 0 => ci'[y] # 0
    BY <1>0, <1>2, <1>3, <1>4 DEF TypeOK
  <1>8. /\ created' \in [Ids -> Nat]
        /\ \A y \in Ids : created'[y] = 0 \/ (created'[y] = 1 /\ ci'[y] # 0)
    <2>1. CASE q.kind = "import" /\ q.content.action = "create"
      <3>1. ci[x] = 0
        BY <2>1 DEF Apply, Applicable
      <3>2. created[x] = 0
        BY <1>2, <3>1 DEF IInv
      <3>3. created' = [created EXCEPT ![x] = @ + 1]
        BY <2>1 DEF Apply
      <3>4. created' = [created EXCEPT ![x] = 1]
        BY <3>2, <3>3
      <3> HIDE DEF q
      <3> QED
        BY <1>0, <1>2, <1>3, <1>4, <1>7, <3>4 DEF IInv, TypeOK
    <2>2. CASE ~(q.kind = "import" /\ q.content.action = "create")
      <3>1. created' = created
        BY <2>2 DEF Apply
      <3> QED
        BY <1>0, <1>7, <3>1 DEF IInv, TypeOK
    <2> QED
      BY <2>1, <2>2
  <1>9. TypeOK'
    BY <1>0, <1>4, <1>5, <1>6, <1>7, <1>8 DEF TypeOK
  <1>10. NoRequest.policyRevision = 0 /\ NoRequest.kind = "none"
    BY DEF NoRequest
  <1>11. policy.revision \in Int /\ policy.revision > 0
    BY <1>0 DEF TypeOK, PolicyRevisions
  <1>12. RevisionsAreFilters'
    BY <1>0, <1>4, <1>5, <1>6, <1>10, <1>11 DEF RevisionsAreFilters
  <1> HIDE DEF q
  <1> QED
    BY <1>0, <1>4, <1>6, <1>8, <1>9, <1>12 DEF IInv, TypeOK

\* Nor is there anything to say about a request that was given up.
LEMMA AbandonRequestInv == ASSUME NEW a \in Admins, IInv, AbandonRequest(a) PROVE IInv'
  <1> USE DEF AbandonRequest, scopeVars
  <1>0. TypeOK /\ RevisionsAreFilters
    BY DEF IInv
  <1>1. /\ request' \in [Admins -> RequestRow \cup {NoRequest}]
        /\ \A b \in Admins : request'[b] = request[b] \/ request'[b] = NoRequest
    BY RequestOver
  <1>2. TypeOK'
    BY <1>0, <1>1 DEF TypeOK
  <1>3. NoRequest.policyRevision = 0 /\ NoRequest.kind = "none"
    BY DEF NoRequest
  <1>4. policy.revision \in Int /\ policy.revision > 0
    BY <1>0 DEF TypeOK, PolicyRevisions
  <1>5. RevisionsAreFilters'
    BY <1>0, <1>1, <1>3, <1>4 DEF RevisionsAreFilters
  <1> QED
    BY <1>2, <1>5 DEF IInv

----------------------------------------------------------------------------
(* Scope *)

\* A saved policy has a new revision, whatever filters it has.
LEMMA SavePolicyInv ==
    ASSUME IInv, NEW excluded \in SUBSET Ids, SavePolicy(excluded) PROVE IInv'
  <1> USE DEF SavePolicy
  <1>0. TypeOK /\ RevisionsAreFilters
    BY DEF IInv
  <1>1. policy' \in [revision : {policy.revision + 1}, excluded : SUBSET Ids]
    OBVIOUS
  <1>2. /\ policy' \in [revision : PolicyRevisions, excluded : SUBSET Ids]
        /\ RevisionsAreFilters'
    BY <1>1, NewRevision
  <1>3. TypeOK'
    BY <1>0, <1>2 DEF TypeOK
  <1> QED
    BY <1>2, <1>3 DEF IInv

\* The connection, the customer's mapping and the provider are free to change.
LEMMA OutsideInv ==
    ASSUME IInv,
           \/ \E active \in BOOLEAN : ChangeConnection(active)
           \/ MapCustomer
           \/ \E x \in Ids : ProviderChanges(x)
    PROVE  IInv'
  <1>0. TypeOK /\ RevisionsAreFilters
    BY DEF IInv
  <1>1. UNCHANGED <<policy, suppressed, item, ci, created, preview, request>>
    BY DEF ChangeConnection, MapCustomer, ProviderChanges, scopeVars
  <1>2. connection' \in [revision : ConnectionRevisions, active : BOOLEAN]
    BY <1>0, ReviewAssumption
    DEF ChangeConnection, MapCustomer, ProviderChanges, scopeVars, TypeOK, ConnectionRevisions
  <1>3. mapped' \in BOOLEAN
    BY <1>0 DEF ChangeConnection, MapCustomer, ProviderChanges, scopeVars, TypeOK
  <1>4. provider' \in [Ids -> [version : Versions, reported : BOOLEAN]]
    <2>1. ASSUME NEW x \in Ids, ProviderChanges(x)
          PROVE  provider' \in [Ids -> [version : Versions, reported : BOOLEAN]]
      <3>1. provider[x] \in [version : Versions, reported : BOOLEAN]
        BY <1>0 DEF TypeOK
      <3>2. CASE provider' = [provider EXCEPT ![x].version = @ + 1]
        <4> DEFINE n == provider[x].version + 1
        <4>1. provider' = [provider EXCEPT ![x] = [provider[x] EXCEPT !.version = n]]
          BY <3>2
        <4> HIDE DEF n
        <4>2. provider'[x] = [provider[x] EXCEPT !.version = n]
          BY <1>0, <4>1 DEF TypeOK
        <4>3. provider'[x].version = n
          BY <3>1, <4>2
        <4>4. n \in Versions
          BY <2>1, <4>3 DEF ProviderChanges
        <4> QED
          BY <1>0, <3>1, <4>1, <4>4 DEF TypeOK
      <3>3. CASE provider' = [provider EXCEPT ![x].reported = ~@]
        BY <1>0, <3>1, <3>3 DEF TypeOK
      <3> QED
        BY <2>1, <3>2, <3>3 DEF ProviderChanges
    <2> QED
      BY <1>0, <2>1 DEF ChangeConnection, MapCustomer, TypeOK
  <1>5. TypeOK'
    BY <1>0, <1>1, <1>2, <1>3, <1>4 DEF TypeOK
  <1>6. RevisionsAreFilters'
    BY <1>0, <1>1 DEF RevisionsAreFilters
  <1> QED
    BY <1>1, <1>5, <1>6 DEF IInv

----------------------------------------------------------------------------
(* Theorems *)

LEMMA NextInv == IInv /\ [Next]_vars => IInv'
  <1> SUFFICES ASSUME IInv, [Next]_vars PROVE IInv'
    OBVIOUS
  <1>1. CASE PreviewNext
    BY <1>1, ClaimPreviewInv, ReadProviderInv, PublishPreviewInv, AbandonPreviewInv
       DEF PreviewNext
  <1>2. CASE DecisionNext
    BY <1>2, DismissInv, IgnoreInv, RestoreInv DEF DecisionNext
  <1>3. CASE RequestNext
    BY <1>3, ImportReadInv, LinkReviewInv, ImportLookupInv, ApplyInv, AbandonRequestInv
       DEF RequestNext
  <1>4. CASE ScopeNext
    BY <1>4, SavePolicyInv, OutsideInv DEF ScopeNext
  <1>5. CASE UNCHANGED vars
    BY <1>5 DEF vars, scopeVars, IInv, TypeOK, RevisionsAreFilters
  <1> QED
    BY <1>1, <1>2, <1>3, <1>4, <1>5 DEF Next

\* The inductive invariant of the queue and of the requests on it.
THEOREM Invariant == Spec => []IInv
  BY InitInv, NextInv, PTL DEF Spec

\* Every variable keeps its type.
THEOREM TypeCorrect == Spec => []TypeOK
  <1>1. IInv => TypeOK
    BY DEF IInv
  <1> QED
    BY <1>1, Invariant, PTL

\* However many administrators import an identity, it becomes one new CI.
THEOREM CreatedAtMostOnce == Spec => []NoDuplicateCreate
  <1>1. IInv => NoDuplicateCreate
    <2> SUFFICES ASSUME IInv, NEW x \in Ids PROVE created[x] <= 1
      BY DEF NoDuplicateCreate
    <2>1. created[x] \in Nat /\ (created[x] = 0 \/ created[x] = 1)
      BY DEF IInv, TypeOK
    <2> QED
      BY <2>1
  <1> QED
    BY <1>1, Invariant, PTL

\* The step that writes a CI is taken under the revision its request was made
\* under, and so under the same exclusions.
THEOREM ExclusionsAreRespected == Spec => ImportsRespectExclusions
  <1>1. IInv /\ [Next]_vars => [\A x \in Ids : ci'[x] # ci[x] => x \notin policy.excluded]_vars
    <2> SUFFICES ASSUME IInv, Next, NEW x \in Ids, ci'[x] # ci[x]
                 PROVE  x \notin policy.excluded
      BY DEF vars
    <2>1. PICK a \in Admins : Apply(a)
      BY DEF Next, PreviewNext, DecisionNext, RequestNext, ScopeNext,
             ClaimPreview, ReadProvider, PublishPreview, AbandonPreview,
             Dismiss, Ignore, Restore, ImportRead, ImportLookup, LinkReview,
             AbandonRequest, SavePolicy, ChangeConnection, MapCustomer, ProviderChanges
    <2>2. x = request[a].id
      BY <2>1 DEF Apply, IInv, TypeOK
    <2>3. request[a].policyRevision = policy.revision /\ request[a].kind # "none"
      BY <2>1 DEF Apply, Applicable
    <2> QED
      BY <2>2, <2>3 DEF IInv, RevisionsAreFilters
  <1> QED
    BY <1>1, Invariant, PTL DEF Spec, ImportsRespectExclusions

\* Only a preview that found other content reopens a dismissed item, or a restore.
THEOREM DismissalsAreKept == Spec => DismissalsStand
  <1>1. IInv /\ [Next]_vars =>
          [\A x \in Ids :
             item[x].state = "dismissed" /\ item'[x].state = "pending" =>
                 item'[x].content # item[x].content \/ x \in suppressed \ suppressed']_vars
    <2> SUFFICES ASSUME IInv, Next, NEW x \in Ids,
                        item[x].state = "dismissed", item'[x].state = "pending"
                 PROVE  item'[x].content # item[x].content \/ x \in suppressed \ suppressed'
      BY DEF vars
    <2>0. TypeOK
      BY DEF IInv
    <2>1. CASE PublishPreview
      <3>1. preview.found[x] # NoContent /\ item'[x] = Upserted(x)
        BY <2>1 DEF PublishPreview
      <3> QED
        BY <3>1 DEF Upserted
    <2>2. ASSUME NEW y \in Ids, Restore(y)
          PROVE  x \in suppressed \ suppressed'
      BY <2>0, <2>2 DEF Restore, TypeOK
    <2>3. ASSUME NEW y \in Ids, NEW s \in {"dismissed", "resolved"},
                 item' = [item EXCEPT ![y].state = s]
          PROVE  FALSE
      <3>1. CASE y = x
        <4>1. item[x] \in ItemRow
          BY <2>0, ItemIsRow
        <4>2. item'[x] = [item[x] EXCEPT !.state = s]
          BY <2>0, <2>3, <3>1 DEF TypeOK
        <4> QED
          BY <4>1, <4>2, DecidedRow
      <3>2. CASE y # x
        BY <2>0, <2>3, <3>2 DEF TypeOK
      <3> QED
        BY <3>1, <3>2
    <2>4. ASSUME NEW y \in Ids, Dismiss(y) \/ Ignore(y) PROVE FALSE
      BY <2>3, <2>4 DEF Dismiss, Ignore
    <2>5. ASSUME NEW a \in Admins, Apply(a) PROVE FALSE
      <3>1. request[a].id \in Ids
        BY <2>0, <2>5, RequestIsRow DEF Apply, RequestRow
      <3> QED
        BY <2>3, <2>5, <3>1 DEF Apply
    <2>6. item' # item
      OBVIOUS
    <2> QED
      BY <2>1, <2>2, <2>4, <2>5, <2>6
      DEF Next, PreviewNext, DecisionNext, RequestNext, ScopeNext,
          ClaimPreview, ReadProvider, AbandonPreview, ImportRead, ImportLookup,
          LinkReview, AbandonRequest, SavePolicy, ChangeConnection, MapCustomer,
          ProviderChanges
  <1> QED
    BY <1>1, Invariant, PTL DEF Spec, DismissalsStand
============================================================================
