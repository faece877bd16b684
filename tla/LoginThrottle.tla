--------------------------- MODULE LoginThrottle ---------------------------
(***************************************************************************)
(* The local sign-in throttle: the rows of auth_login_attempts and the      *)
(* login requests of every replica that reserve, finish and complete them.  *)
(* Reserving is one transaction under the advisory locks of the identifier  *)
(* and of the requester, so it is one action; checking the password is not  *)
(* part of it, and any number of requests may be between the two.           *)
(*                                                                         *)
(* Time is a counter.  The rows the 30-day clean-up deletes are older than  *)
(* every window and count for nothing, so they are kept.                    *)
(***************************************************************************)
EXTENDS Integers, Sequences, FiniteSets

CONSTANTS Identifiers,   \* hashes of the addresses that sign in
          Requesters,    \* hashes of the networks they sign in from
          Requests,      \* login requests, on any replica
          IdLimit,       \* identifier_limit: 5
          SourceLimit,   \* source_limit: 20
          Window,        \* identifier_window_seconds = source_window_seconds
          PendingTtl,    \* pending_ttl_seconds
          AuditWindow,   \* audit_window_seconds
          MaxRows, MaxTime

VARIABLES attempts,      \* auth_login_attempts, oldest first
          request,       \* the step of every login request, and its row
          now

ThrottleAssumption ==
    /\ IdLimit \in Nat \ {0} /\ SourceLimit \in Nat \ {0}
    /\ Window \in Nat /\ PendingTtl \in Nat /\ AuditWindow \in Nat
    /\ MaxRows \in Nat /\ MaxTime \in Nat

vars == <<attempts, request, now>>

Rows == DOMAIN attempts
Never == -1

Row == [identifier: Identifiers, requester: Requesters,
        outcome: {"pending", "password_failed", "password_verified",
                  "succeeded", "throttled"},
        reason: {"none", "source", "identifier"},
        created: 0..MaxTime, completed: {Never} \union 0..MaxTime, cleared: BOOLEAN]

TypeOK == /\ attempts \in Seq(Row) /\ Len(attempts) <= MaxRows
          /\ request \in [Requests -> [at: {"idle", "checking", "verified"},
                                       row: 0..MaxRows]]
          /\ now \in 0..MaxTime

Init == /\ attempts = <<>>
        /\ request = [q \in Requests |-> [at |-> "idle", row |-> 0]]
        /\ now = 0

(***************************************************************************)
(* What counts against a limit, and until when.                             *)
(***************************************************************************)
Expiry(r) == attempts[r].created +
             (IF attempts[r].outcome = "pending" THEN PendingTtl ELSE Window)

\* Mutant: a guess in flight counts for nothing.
CountedWhenFailed == {r \in Rows : attempts[r].outcome = "password_failed" /\ Expiry(r) > now}

Counted == {r \in Rows : /\ attempts[r].outcome \in {"pending", "password_failed"}
                         /\ Expiry(r) > now}

SourceCounted(s) == {r \in Counted : attempts[r].requester = s}

IdentifierCounted(i) ==
    {r \in Counted : /\ attempts[r].identifier = i
                     /\ attempts[r].outcome = "pending" \/ ~attempts[r].cleared}

\* The expirations in order; the one whose passing brings the bucket below its limit.
Release(rows, limit) ==
    LET later(r) == {x \in rows : \/ Expiry(x) > Expiry(r)
                                  \/ Expiry(x) = Expiry(r) /\ x > r}
    IN  Expiry(CHOOSE r \in rows : Cardinality(later(r)) = limit - 1)

RecentAudit(i, s, reason) ==
    \E r \in Rows : /\ attempts[r].outcome = "throttled"
                    /\ attempts[r].reason = reason
                    /\ attempts[r].created >= now - AuditWindow
                    /\ IF reason = "source" THEN attempts[r].requester = s
                                            ELSE attempts[r].identifier = i

NewRow(i, s, outcome, reason) ==
    [identifier |-> i, requester |-> s, outcome |-> outcome, reason |-> reason,
     created |-> now, completed |-> IF outcome = "throttled" THEN now ELSE Never,
     cleared |-> FALSE]

Answer(q) == request' = [request EXCEPT ![q] = [at |-> "idle", row |-> 0]]

(***************************************************************************)
(* POST /api/login.                                                         *)
(***************************************************************************)
ReserveAttempt(q, i, s) ==
    LET sourceBlocked == Cardinality(SourceCounted(s)) >= SourceLimit
        idBlocked == Cardinality(IdentifierCounted(i)) >= IdLimit
        reason == IF sourceBlocked THEN "source" ELSE "identifier"
    IN  IF sourceBlocked \/ idBlocked
        THEN /\ Answer(q)
             /\ attempts' = IF RecentAudit(i, s, reason) THEN attempts
                            ELSE Append(attempts, NewRow(i, s, "throttled", reason))
        ELSE /\ attempts' = Append(attempts, NewRow(i, s, "pending", "none"))
             /\ request' = [request EXCEPT ![q] = [at |-> "checking",
                                                   row |-> Len(attempts) + 1]]

\* finish_local_login_attempt: only a reservation that is still pending.
FinishAttempt(r, outcome) ==
    attempts' = IF attempts[r].outcome # "pending" THEN attempts
                ELSE [attempts EXCEPT ![r].outcome = outcome, ![r].completed = now]

\* identifier_cleared_at of the failures of one identifier.
Cleared(i) == [r \in Rows |->
    IF attempts[r].identifier = i /\ attempts[r].outcome = "password_failed"
    THEN [attempts[r] EXCEPT !.cleared = TRUE] ELSE attempts[r]]

ClearFailures(i) == attempts' = Cleared(i)

CompleteLogin(i) ==
    attempts' = [r \in Rows |->
        IF attempts[r].identifier = i /\ attempts[r].outcome = "password_verified"
        THEN [attempts[r] EXCEPT !.outcome = "succeeded"] ELSE Cleared(i)[r]]

Login(q) == \E i \in Identifiers, s \in Requesters :
    /\ request[q].at = "idle" /\ Len(attempts) < MaxRows
    /\ ReserveAttempt(q, i, s)
    /\ UNCHANGED now

\* The password was wrong, or checking it raised: the answer is 401 or 500.
PasswordFails(q) == /\ request[q].at = "checking"
                    /\ FinishAttempt(request[q].row, "password_failed")
                    /\ Answer(q)
                    /\ UNCHANGED now

PasswordMatches(q) == /\ request[q].at = "checking"
                      /\ FinishAttempt(request[q].row, "password_verified")
                      /\ request' = [request EXCEPT ![q].at = "verified"]
                      /\ UNCHANGED now

\* _issue_session, at once or after the second factor.
SessionIssued(q) == /\ request[q].at = "verified"
                    /\ CompleteLogin(attempts[request[q].row].identifier)
                    /\ Answer(q)
                    /\ UNCHANGED now

\* A second factor that is never given, or a replica that dies in a request.
Abandon(q) == /\ request[q].at # "idle" /\ Answer(q)
              /\ UNCHANGED <<attempts, now>>

\* A completed recovery, a changed password or address, a re-enabled account.
AccountRecovered(i) == ClearFailures(i) /\ UNCHANGED <<request, now>>

Tick == /\ now < MaxTime /\ now' = now + 1
        /\ UNCHANGED <<attempts, request>>

Next == \/ \E q \in Requests : \/ Login(q) \/ PasswordFails(q) \/ PasswordMatches(q)
                               \/ SessionIssued(q) \/ Abandon(q)
        \/ \E i \in Identifiers : AccountRecovered(i)
        \/ Tick

Spec == Init /\ [][Next]_vars

(***************************************************************************)
(* Properties.                                                              *)
(***************************************************************************)
\* A failure that was recorded after its reservation had run out: the one way
\* past the limit, and bounded by how long a password check takes.
Outlived(r) == /\ attempts[r].outcome = "password_failed"
               /\ attempts[r].completed >= attempts[r].created + PendingTtl

\* However many requests of however many replicas run at once, the guesses in
\* flight and the failures of the window together stay within both limits:
\* reserve_local_login_attempt "across every PostgreSQL-backed replica".
LimitsHold ==
    /\ \A i \in Identifiers :
          Cardinality({r \in IdentifierCounted(i) : ~Outlived(r)}) <= IdLimit
    /\ \A s \in Requesters :
          Cardinality({r \in SourceCounted(s) : ~Outlived(r)}) <= SourceLimit

\* Who waits as long as Retry-After says finds a place in the bucket that
\* refused, if nobody else took one meanwhile, and no sooner: the time that is
\* answered is the first one at which the bucket is below its limit.
RetryAfterIsExact ==
    \A i \in Identifiers, s \in Requesters :
        \A bucket \in {<<SourceCounted(s), SourceLimit>>,
                       <<IdentifierCounted(i), IdLimit>>} :
            LET rows == bucket[1]
                free(t) == Cardinality({r \in rows : Expiry(r) > t}) < bucket[2]
            IN  Cardinality(rows) >= bucket[2] =>
                    /\ Release(rows, bucket[2]) > now
                    /\ free(Release(rows, bucket[2]))
                    /\ ~free(Release(rows, bucket[2]) - 1)
=============================================================================
