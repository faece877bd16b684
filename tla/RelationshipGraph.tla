------------------------- MODULE RelationshipGraph -------------------------
(***************************************************************************)
(* The relationships of one customer's configuration items and the          *)
(* suggestions a provider's previews make for them                          *)
(* (src/src/cmdb/repository.py, src/backend/main.py,                        *)
(* src/src/cmdb/relationship_candidates.py and relationship_automation.py). *)
(*                                                                         *)
(* An operator's request reads the relationships, checks, and then inserts  *)
(* in a transaction of its own.  A preview stores what the provider         *)
(* suggests for one mapped CI, reads the queue back and approves what the   *)
(* policy lets it approve, each in a transaction of its own.  Suggestions   *)
(* are decided under a row lock, on the revision that was read.             *)
(***************************************************************************)
EXTENDS Integers, FiniteSets, Functions, TLC

CONSTANTS CIs, Edges, Requests, Passes, Symmetric, Suggested, Automatic, Prints,
          AutoGenerations, MinObservations,
          MaxTime, MaxGeneration, MaxRevision   \* bounds

States == {"none", "pending", "approved", "rejected", "ignored"}
Idle == [kind |-> "idle"]

\* An edge is <<from, to, type>>.
GraphAssumption ==
    /\ IsFiniteSet(CIs)
    /\ \A e \in Edges : e = <<e[1], e[2], e[3]>> /\ e[1] \in CIs /\ e[2] \in CIs \ {e[1]}
    /\ Suggested \subseteq Edges /\ Automatic \subseteq Suggested
    /\ \A e \in Suggested : e[3] \notin Symmetric \cup {"depends_on"}
    /\ MinObservations \in Nat \ {0} /\ AutoGenerations \subseteq 1..MaxGeneration
    /\ MaxTime \in Nat /\ MaxGeneration \in Nat \ {0} /\ MaxRevision \in Nat

VARIABLES edges,       \* edge -> is it live, and whose is its row
          retired,     \* configuration items that are retired
          candidates,  \* suggested edge -> the row of the suggestion
          generation,  \* revision of policy, connection and customer mapping
          ready,       \* connection enabled, customer and CI mapped
          request,     \* operator's request -> what it has read
          pass,        \* preview -> what it observed and has still to approve
          stale        \* ghost: edges inserted on a list that was out of date

vars == <<edges, retired, candidates, generation, ready, request, pass, stale>>

NoEdge == [live |-> FALSE, owner |-> "none"]
NoCandidate == [state |-> "none", retired |-> FALSE, seen |-> 0, print |-> "none",
                context |-> 0, revision |-> 0, observations |-> 0]

Init == /\ edges = [e \in Edges |-> NoEdge]
        /\ retired = {}
        /\ candidates = [k \in Suggested |-> NoCandidate]
        /\ generation = 1
        /\ ready = TRUE
        /\ request = [q \in Requests |-> Idle]
        /\ pass = [p \in Passes |-> Idle]
        /\ stale = {}

-----------------------------------------------------------------------------
Live == {e \in Edges : edges[e].live}
Reverse(e) == <<e[2], e[1], e[3]>>

\* The edges that are the same relationship as e: itself, and for a symmetric
\* type its reverse.
Matching(live, e) == live \cap ({e} \cup IF e[3] \in Symmetric THEN {Reverse(e)} ELSE {})

\* What "from" depends on among the live edges, in any number of steps.
DependenciesOf(live, from) ==
    LET reach[n \in 0..Cardinality(CIs)] ==
            IF n = 0 THEN {from}
            ELSE reach[n - 1] \cup
                 {d[2] : d \in {f \in live : f[3] = "depends_on" /\ f[1] \in reach[n - 1]}}
    IN reach[Cardinality(CIs)]

ClosesCycle(live, e) == e[3] = "depends_on" /\ e[1] \in DependenciesOf(live, e[2])

Active(e) == {e[1], e[2]} \cap retired = {}

\* The insertion's ON CONFLICT clause: a row set by hand stays so, and a row
\* that was removed is live again.
Inserted(e, owner) ==
    [edges EXCEPT ![e] = [live |-> TRUE,
                          owner |-> IF @.owner = "manual" THEN "manual" ELSE owner]]

\* Mutant: the cycle check is left to the database, which has none.
BeginCreateUnchecked(q, e) ==
    /\ request[q] = Idle
    /\ Matching(Live, e) = {}
    /\ request' = [request EXCEPT ![q] = [kind |-> "create", edge |-> e, read |-> Live]]
    /\ UNCHANGED <<edges, retired, candidates, generation, ready, pass, stale>>

\* An operator's new relationship: both checks are made on the list as read.
BeginCreate(q, e) ==
    /\ request[q] = Idle
    /\ Matching(Live, e) = {}
    /\ ~ClosesCycle(Live, e)
    /\ request' = [request EXCEPT ![q] = [kind |-> "create", edge |-> e, read |-> Live]]
    /\ UNCHANGED <<edges, retired, candidates, generation, ready, pass, stale>>

\* The transaction checks that both items are in the customer and not retired.
\* It takes the customer's advisory lock, but does not read the edges again.
FinishCreate(q) ==
    /\ request[q].kind = "create"
    /\ LET e == request[q].edge
       IN IF Active(e)
          THEN /\ edges' = Inserted(e, "manual")
               /\ stale' = IF request[q].read = Live THEN stale \ {e} ELSE stale \cup {e}
          ELSE UNCHANGED <<edges, stale>>
    /\ request' = [request EXCEPT ![q] = Idle]
    /\ UNCHANGED <<retired, candidates, generation, ready, pass>>

DeleteRelationship(e) ==
    /\ edges[e].live
    /\ edges' = [edges EXCEPT ![e].live = FALSE]
    /\ UNCHANGED <<retired, candidates, generation, ready, request, pass, stale>>

\* A configuration item is retired. (Every statement tests retired_at; none sets it, so
\* this is done to the database.)
RetireItem(c) ==
    /\ c \notin retired
    /\ retired' = retired \cup {c}
    /\ UNCHANGED <<edges, candidates, generation, ready, request, pass, stale>>

\* The connection is saved, or enabled and disabled; likewise the policy and the mappings.
ChangeProvider ==
    /\ \/ generation < MaxGeneration /\ generation' = generation + 1 /\ ready' = TRUE
       \/ ready /\ ready' = FALSE /\ UNCHANGED generation
    /\ UNCHANGED <<edges, retired, candidates, request, pass, stale>>

-----------------------------------------------------------------------------
\* An operator opens a suggestion, or the handler reads it: the revision goes
\* into the request.  Suggestions of a deactivated mapping are not listed.
OpenCandidate(q, k) ==
    /\ request[q] = Idle
    /\ candidates[k].state # "none" /\ ready
    /\ request' = [request EXCEPT ![q] = [kind |-> "decide", key |-> k,
                                          read |-> candidates[k]]]
    /\ UNCHANGED <<edges, retired, candidates, generation, ready, pass, stale>>

\* Mutant: a decision is taken on whatever the suggestion now says.
UnchangedUnchecked(k, read) == candidates[k].state = read.state

\* The revision the decision was read with.
Unchanged(k, read) == candidates[k].revision = read.revision

\* Rejecting and ignoring ask for the revision alone, and may follow an
\* approval: the edge it made stays.
Close(q, state) ==
    /\ request[q].kind = "decide"
    /\ LET k == request[q].key
       IN IF Unchanged(k, request[q].read)
          THEN /\ candidates[k].revision < MaxRevision
               /\ candidates' = [candidates EXCEPT ![k].state = state, ![k].revision = @ + 1]
          ELSE UNCHANGED candidates
    /\ request' = [request EXCEPT ![q] = Idle]
    /\ UNCHANGED <<edges, retired, generation, ready, pass, stale>>

\* Mutant: any stored generation will do.
AnyContextIsCurrent(context) == ready /\ context > 0

\* The stored provider generation must be the one in force.
ContextIsCurrent(context) == ready /\ context = generation

MayApprove(k, read) ==
    /\ Unchanged(k, read)
    /\ ContextIsCurrent(candidates[k].context)
    /\ ~candidates[k].retired
    /\ Active(k)

\* The edge is inserted, unless it is there, and the suggestion is closed, in
\* one transaction under the customer's advisory lock.
Approved(k) ==
    /\ candidates[k].revision < MaxRevision
    /\ edges' = IF Matching(Live, k) = {} THEN Inserted(k, "provider") ELSE edges
    /\ candidates' = [candidates EXCEPT ![k].state = "approved", ![k].revision = @ + 1]
    /\ UNCHANGED stale

Approve(q) ==
    /\ request[q].kind = "decide"
    /\ IF MayApprove(request[q].key, request[q].read)
       THEN Approved(request[q].key)
       ELSE UNCHANGED <<edges, candidates, stale>>
    /\ request' = [request EXCEPT ![q] = Idle]
    /\ UNCHANGED <<retired, generation, ready, pass>>

-----------------------------------------------------------------------------
\* A preview ends with what the provider says of the mapped CI as of a time,
\* under the generation it started with.  An edge that exists is no suggestion,
\* and a record without suggestions stores nothing.
BeginPass(p) ==
    /\ pass[p] = Idle /\ ready
    /\ \E found \in SUBSET (Suggested \ Live) \ {{}}, time \in 1..MaxTime :
       \E print \in [found -> Prints] :
          pass' = [pass EXCEPT ![p] = [kind |-> "store", print |-> print, time |-> time,
                                       generation |-> generation]]
    /\ UNCHANGED <<edges, retired, candidates, generation, ready, request, stale>>

EndPass(p) == pass' = [pass EXCEPT ![p] = Idle]

\* A closed suggestion reopens on evidence with another fingerprint.
NextState(row, print) ==
    IF row.state = "none" \/ (row.state \in {"rejected", "ignored"} /\ row.print # print)
    THEN "pending" ELSE row.state

\* Mutant: the last preview to store wins.
ObservedLast(row, print, time, context) ==
    [state |-> NextState(row, print), retired |-> FALSE, seen |-> time,
     print |-> print, context |-> context, revision |-> row.revision + 1,
     observations |-> row.observations + 1]

\* Evidence older than the row's is not stored.
Observed(row, print, time, context) ==
    IF time < row.seen THEN row
    ELSE [state |-> NextState(row, print), retired |-> FALSE, seen |-> time,
          print |-> print, context |-> context, revision |-> row.revision + 1,
          observations |-> row.observations + 1]

\* What the observation does not name is retired, unless it was seen since.
Unseen(row, time) ==
    IF row.state = "none" \/ row.retired \/ row.seen > time THEN row
    ELSE [row EXCEPT !.retired = TRUE, !.revision = @ + 1]

StoreCandidates(p) ==
    /\ pass[p].kind = "store"
    /\ LET w == pass[p]
       IN IF ContextIsCurrent(w.generation) /\ \A k \in DOMAIN w.print : Active(k)
          THEN /\ \A k \in Suggested : candidates[k].revision < MaxRevision
               /\ candidates' = [k \in Suggested |->
                     IF k \in DOMAIN w.print
                     THEN Observed(candidates[k], w.print[k], w.time, w.generation)
                     ELSE Unseen(candidates[k], w.time)]
               /\ pass' = [pass EXCEPT ![p] = [kind |-> "list", generation |-> w.generation]]
          ELSE EndPass(p) /\ UNCHANGED candidates
    /\ UNCHANGED <<edges, retired, generation, ready, request, stale>>

\* The policy approves what explicit identities show, seen often enough.
AutoEligible(k, policy) ==
    /\ policy \in AutoGenerations
    /\ candidates[k].state = "pending" /\ ~candidates[k].retired
    /\ k \in Automatic
    /\ candidates[k].observations >= MinObservations

ListPending(p) ==
    /\ pass[p].kind = "list"
    /\ LET todo == {k \in Suggested : ready /\ AutoEligible(k, pass[p].generation)}
       IN pass' = [pass EXCEPT ![p] = [kind |-> "approve", generation |-> @.generation,
                                       read |-> Restrict(candidates, todo)]]
    /\ UNCHANGED <<edges, retired, candidates, generation, ready, request, stale>>

\* One suggestion of the list: a changed generation ends the pass, any other
\* refusal leaves the suggestion to a person.
AutoApprove(p) ==
    /\ pass[p].kind = "approve" /\ DOMAIN pass[p].read # {}
    /\ \E k \in DOMAIN pass[p].read :
          /\ IF MayApprove(k, pass[p].read[k]) /\ candidates[k].context = pass[p].generation
             THEN Approved(k)
             ELSE UNCHANGED <<edges, candidates, stale>>
          /\ IF ContextIsCurrent(pass[p].generation)
             THEN pass' = [pass EXCEPT ![p].read = Restrict(@, DOMAIN @ \ {k})]
             ELSE EndPass(p)
    /\ UNCHANGED <<retired, generation, ready, request>>

FinishPass(p) ==
    /\ pass[p].kind = "approve" /\ DOMAIN pass[p].read = {}
    /\ EndPass(p)
    /\ UNCHANGED <<edges, retired, candidates, generation, ready, request, stale>>

-----------------------------------------------------------------------------
EditNext(manual) ==
    \/ \E q \in Requests, e \in manual : BeginCreate(q, e)
    \/ \E q \in Requests : FinishCreate(q)
    \/ \E e \in manual : DeleteRelationship(e)

CandidateNext ==
    \/ \E c \in CIs : RetireItem(c)
    \/ ChangeProvider
    \/ \E q \in Requests, k \in Suggested : OpenCandidate(q, k)
    \/ \E q \in Requests : Approve(q) \/ \E state \in {"rejected", "ignored"} : Close(q, state)
    \/ \E p \in Passes : \/ BeginPass(p) \/ StoreCandidates(p) \/ ListPending(p)
                         \/ AutoApprove(p) \/ FinishPass(p)

Next == EditNext(Edges) \/ CandidateNext

Spec == Init /\ [][Next]_vars

-----------------------------------------------------------------------------
\* Type correctness.
TypeOK ==
    /\ edges \in [Edges -> [live : BOOLEAN, owner : {"none", "manual", "provider"}]]
    /\ retired \subseteq CIs /\ stale \subseteq Edges
    /\ generation \in 1..MaxGeneration /\ ready \in BOOLEAN
    /\ \A k \in Suggested : /\ candidates[k].state \in States
                            /\ candidates[k].seen \in 0..MaxTime
                            /\ candidates[k].revision \in 0..MaxRevision
    /\ \A q \in Requests : request[q].kind \in {"idle", "create", "decide"}
    /\ \A p \in Passes : pass[p].kind \in {"idle", "store", "list", "approve"}

\* docs/DATA_MODEL.md promises no dependency cycle and no second edge for a
\* symmetric relationship.  The checks read a list that a concurrent request
\* may outdate; every other edge keeps the promise.
SoundButForStaleChecks ==
    LET sound == Live \ stale
    IN \A e \in sound : /\ ~ClosesCycle(sound \ {e}, e)
                        /\ Matching(sound, e) = {e}

\* Whoever approves, approves the evidence that was read: it is still the
\* suggestion's, not replaced or retired by another preview, when the edge is
\* made.
ReadBy(k, row) ==
    \/ \E q \in Requests : /\ request[q].kind = "decide" /\ request'[q] = Idle
                           /\ request[q].key = k /\ request[q].read = row
    \/ \E p \in Passes : /\ pass[p].kind = "approve" /\ pass'[p] # pass[p]
                         /\ k \in DOMAIN pass[p].read /\ pass[p].read[k] = row

ApprovedAsRead ==
    [][\A k \in Suggested : candidates[k].state # "approved" /\ candidates'[k].state = "approved"
          => ReadBy(k, candidates[k])]_vars

\* A preview that is overtaken leaves the newer evidence alone: neither the
\* evidence nor the suggestion's place in the queue goes back in time.
NewestEvidenceStands ==
    [][\A p \in Passes, k \in Suggested :
          pass[p].kind = "store" /\ pass'[p] # pass[p] /\ pass[p].time < candidates[k].seen
          => candidates'[k] = candidates[k]]_vars

\* Automation makes an edge only while the policy that allows it is in force:
\* saving a policy without automation stops a preview that is under way.
AutomationFollowsPolicy ==
    [][\A p \in Passes : pass[p].kind = "approve" /\ pass'[p] # pass[p] /\ candidates' # candidates
          => ready /\ generation \in AutoGenerations]_vars
=============================================================================
