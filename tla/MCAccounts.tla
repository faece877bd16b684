----------------------------- MODULE MCAccounts -----------------------------
(***************************************************************************)
(* One instance of each of the three modules of local accounts.  They share *)
(* no state here, so a behaviour follows one of them: "part" is chosen at   *)
(* the start, and the credentials are explored with the password changes of *)
(* an account and with its second factor in turn.                           *)
(***************************************************************************)
EXTENDS Integers, Sequences, FiniteSets, TLC

CONSTANTS Requests, Users, Identifiers, Requesters, Counters,
          IdLimit, SourceLimit, Window, PendingTtl, AuditWindow, MaxRows, MaxTime,
          MaxAttempts, KeptChallenges, LinkLimit,
          MaxPasswords, MaxEnrollments, MaxCodes, MaxChallenges, MaxSessions, MaxLinks,
          MaxTokens

VARIABLES part,
          attempts, signIn, now,
          required, password, mfa, challenges, sessions, links, request, issued, spent, reused,
          user, tokens, admin

T == INSTANCE LoginThrottle WITH request <- signIn
C == INSTANCE Credentials
U == INSTANCE UserAccess WITH request <- admin

ASSUME AccountsAssumption == T!ThrottleAssumption /\ C!CredentialsAssumption

throttle == <<attempts, signIn, now>>
credentials == <<required, password, mfa, challenges, sessions, links, request, issued,
                 spent, reused>>
access == <<user, tokens, admin>>
vars == <<part, throttle, credentials, access>>

MCInit == /\ part \in {"throttle", "passwords", "factors", "users"}
          /\ T!Init /\ C!Init /\ U!Init
          /\ part # "factors" => ~required
          /\ part # "users" => \A u \in Users : user[u].role = "platform_admin"

\* The challenges and sessions that there are at a time while factors are explored: a
\* challenge may displace another or open a session beside one that was opened before.
FewRows == Len(challenges') + Len(sessions') <= 3

MCNext == /\ part' = part
          /\ \/ part = "throttle" /\ T!Next /\ UNCHANGED <<credentials, access>>
             \/ part = "passwords" /\ C!PasswordNext /\ UNCHANGED <<throttle, access>>
             \/ part = "factors" /\ C!FactorNext /\ FewRows /\ UNCHANGED <<throttle, access>>
             \/ /\ part = "factors" /\ UNCHANGED <<throttle, access>>
                /\ \E q \in Requests : C!SignIn(q) \/ C!RevokeUserSessions(q)
                /\ FewRows
             \/ part = "users" /\ U!Next /\ UNCHANGED <<throttle, credentials>>

MCSpec == MCInit /\ [][MCNext]_vars

Symmetry == {p @@ i @@ s : p \in Permutations(Requests), i \in Permutations(Identifiers),
                          s \in Permutations(Requesters)}

\* The variables of every part have their types.
TypeOK == T!TypeOK /\ C!TypeOK /\ U!TypeOK

\* Sign-ins in parallel never get more guesses than the limits of the identifier and
\* of its requester allow, and whoever is refused is told the time to wait.
ThrottleIsExact == part = "throttle" => T!LimitsHold /\ T!RetryAfterIsExact

\* A proof is used up by the first request that gets it accepted: a challenge, a link to
\* set a password, a code of the second factor, which only an enrolment that replaced
\* the code's own while the code was being checked accepts again.
ProofsAreSpentOnce ==
    part \in {"passwords", "factors"} =>
        C!FactorsAreSpentOnce /\ C!ChallengesOpenOneSession /\ C!OneLinkWins

\* Access ends with what it was granted for: sessions with the password, tokens with
\* the account or its role.
AccessEnds == /\ part \in {"passwords", "factors"} => C!SessionsFollowPassword
              /\ part = "users" => U!WithdrawalEndsTokens

AdminsAreLostOnlyByOverlap == U!AdminsAreLostOnlyByOverlap
=============================================================================
