---------------------------- MODULE Credentials ----------------------------
(***************************************************************************)
(* The credentials of one active local account: its password, its second    *)
(* factor, its login challenges, recovery links and browser sessions, and   *)
(* the requests that read and write them.  Every operator on a row stands   *)
(* for one repository transaction; a request is a sequence of them, with    *)
(* nothing held in between.  Only complete_password_reset is finer: it      *)
(* locks two rows one after the other.                                      *)
(*                                                                         *)
(* Passwords are numbered in the order they were set, second factors in the *)
(* order they were enrolled, and an authenticator code is its time step.    *)
(***************************************************************************)
EXTENDS Integers, Sequences, FiniteSets

CONSTANTS Requests,       \* requests in flight, on any replica
          Counters,       \* the time steps verify_totp accepts at the moment
          MaxAttempts,    \* max_attempts of a challenge: 5
          KeptChallenges, \* live challenges a new one leaves open: 4
          LinkLimit,      \* identifier_limit of recovery links: 3
          MaxPasswords, MaxEnrollments, MaxCodes, MaxChallenges, MaxSessions, MaxLinks

VARIABLES required,       \* _mfa_policy_requires: the account or the policy asks for MFA
          password,       \* local_auth_credentials: the number of the current one
          mfa,            \* user_mfa_credentials and user_mfa_recovery_codes
          challenges,     \* auth_login_challenges, oldest first
          sessions,       \* user_sessions, oldest first
          links,          \* auth_password_resets, oldest first
          request,        \* the progress of every request
          issued,         \* enrolments and recovery codes handed out so far
          spent, reused   \* history: the codes accepted, each with the enrolment that
                          \* accepted it, and whether one was accepted again unduly

CredentialsAssumption ==
    /\ Counters \subseteq Nat \ {0}
    /\ MaxAttempts \in Nat /\ KeptChallenges \in Nat /\ LinkLimit \in Nat
    /\ MaxPasswords \in Nat /\ MaxEnrollments \in Nat /\ MaxCodes \in Nat
    /\ MaxChallenges \in Nat /\ MaxSessions \in Nat /\ MaxLinks \in Nat

vars == <<required, password, mfa, challenges, sessions, links, request, issued, spent, reused>>
factors == <<required, mfa, issued, spent, reused>>

Idle == [at |-> "idle", for |-> "none", row |-> 0, epoch |-> 0, secret |-> 0, code |-> 0]
NoMfa == [status |-> "none", secret |-> 0, last |-> 0, codes |-> {}]

TypeOK ==
    /\ required \in BOOLEAN /\ password \in 0..MaxPasswords
    /\ mfa \in [status: {"none", "pending", "enabled"}, secret: 0..MaxEnrollments,
                last: {0} \union Counters, codes: SUBSET (1..MaxCodes)]
    /\ \A c \in DOMAIN challenges :
          challenges[c] \in [purpose: {"verify", "enroll"}, live: BOOLEAN,
                             attempts: 0..MaxAttempts, epoch: 0..MaxPasswords]
    /\ \A s \in DOMAIN sessions :
          sessions[s] \in [live: BOOLEAN, epoch: 0..MaxPasswords, challenge: 0..MaxChallenges,
                           straddled: BOOLEAN]
    /\ \A l \in DOMAIN links :
          links[l] \in [state: {"live", "consumed", "invalidated", "expired"},
                        recent: BOOLEAN, after: 0..MaxLinks]
    /\ \A q \in Requests :
          /\ request[q].at \in {"idle", "authenticated", "challenge", "issue", "factor",
                                "accept", "recovery", "rejected", "enrollment", "proved",
                                "revoke", "linkLocked", "bothLocked"}
          /\ request[q].for \in {"none", "verify", "enroll", "confirm", "regenerate",
                                 "disable", "change", "reset"}

Init == /\ required \in BOOLEAN /\ password = 0 /\ mfa = NoMfa
        /\ challenges = <<>> /\ sessions = <<>> /\ links = <<>>
        /\ request = [q \in Requests |-> Idle]
        /\ issued = [secrets |-> 0, codes |-> 0]
        /\ spent = {} /\ reused = FALSE

Go(q, r) == request' = [request EXCEPT ![q] = r]
Move(q, at) == Go(q, [request[q] EXCEPT !.at = at])
Answer(q) == Go(q, Idle)
\* The factor is decided: the code and the secret it was checked with are dropped.
Decide(q, at) == Go(q, [request[q] EXCEPT !.at = at, !.secret = 0, !.code = 0])
At(q, at) == request[q].at = at

SignedIn == \E s \in DOMAIN sessions : sessions[s].live
CredentialFree(q) == \A p \in Requests \ {q} : ~At(p, "bothLocked")

(***************************************************************************)
(* Repository transactions.                                                 *)
(***************************************************************************)
LiveChallenge(c) == challenges[c].live /\ challenges[c].attempts < MaxAttempts

CreateChallenge(purpose, epoch) ==
    LET newer(c) == {d \in DOMAIN challenges : d > c /\ challenges[d].live}
        kept == [c \in DOMAIN challenges |->
                   IF challenges[c].live /\ Cardinality(newer(c)) >= KeptChallenges
                   THEN [challenges[c] EXCEPT !.live = FALSE] ELSE challenges[c]]
    IN  challenges' = Append(kept, [purpose |-> purpose, live |-> TRUE, attempts |-> 0,
                                    epoch |-> epoch])

\* Mutant: attempts are counted beyond the limit.
RecordEveryAttempt(c) == challenges' = [challenges EXCEPT ![c].attempts = @ + 1]

RecordChallengeAttempt(c) ==
    challenges' = IF LiveChallenge(c) THEN [challenges EXCEPT ![c].attempts = @ + 1]
                                      ELSE challenges

CreateSession(epoch, c) ==
    sessions' = Append(sessions, [live |-> TRUE, epoch |-> epoch, challenge |-> c,
                                  straddled |-> epoch # password])

EndSessions == [s \in DOMAIN sessions |-> [sessions[s] EXCEPT !.live = FALSE]]

\* A code is spent by the enrolment in the row.  That it was spent before is undue if
\* the same enrolment spent it, or if the row is still the one the code was checked with.
Spend(code, own) ==
    /\ spent' = spent \union {<<code, mfa.secret>>}
    /\ reused' = (reused \/ \E use \in spent : use[1] = code /\ (own \/ use[2] = mfa.secret))

SpendStep(s, k) == Spend(<<s, "step", k>>, s = mfa.secret)

\* save_mfa_enrollment replaces whatever credential there is.
SaveEnrollment ==
    /\ issued.secrets < MaxEnrollments
    /\ issued' = [issued EXCEPT !.secrets = @ + 1]
    /\ mfa' = [status |-> "pending", secret |-> issued.secrets + 1, last |-> 0, codes |-> {}]
    /\ UNCHANGED <<spent, reused>>

NewCodes == /\ issued.codes < MaxCodes
            /\ issued' = [issued EXCEPT !.codes = @ + 1]

\* Neither write of a time step k asks which secret s the code was checked with.
CanEnable == mfa.status = "pending"
EnableMfa(s, k) == /\ NewCodes
                   /\ mfa' = [mfa EXCEPT !.status = "enabled", !.last = k,
                                         !.codes = {issued.codes + 1}]
                   /\ SpendStep(s, k)

CanAccept(k) == mfa.status = "enabled" /\ mfa.last < k
AcceptCounter(s, k) == mfa' = [mfa EXCEPT !.last = k] /\ SpendStep(s, k)

ConsumeRecoveryCode(n) == /\ mfa' = [mfa EXCEPT !.codes = @ \ {n}]
                          /\ Spend(<<0, "recovery", n>>, TRUE)

\* disable_mfa leaves the recovery codes in their table: the next enrolment clears it.
DisableMfa == mfa' = [NoMfa EXCEPT !.codes = mfa.codes]

ReplaceRecoveryCodes ==
    IF mfa.status = "enabled"
    THEN NewCodes /\ mfa' = [mfa EXCEPT !.codes = {issued.codes + 1}]
    ELSE UNCHANGED <<mfa, issued>>

SetPassword == password < MaxPasswords /\ password' = password + 1

(***************************************************************************)
(* POST /api/login: the password, the factor that is due, the session.      *)
(***************************************************************************)
Authenticate(q) == /\ At(q, "idle")
                   /\ Go(q, [Idle EXCEPT !.at = "authenticated", !.epoch = password])
                   /\ UNCHANGED <<password, factors, challenges, sessions, links>>

ChooseFactor(q) ==
    /\ At(q, "authenticated")
    /\ CASE mfa.status = "enabled" ->
                Go(q, [request[q] EXCEPT !.at = "challenge", !.for = "verify"])
         [] mfa.status # "enabled" /\ required ->
                Go(q, [request[q] EXCEPT !.at = "challenge", !.for = "enroll"])
         [] OTHER -> Move(q, "issue")
    /\ UNCHANGED <<password, factors, challenges, sessions, links>>

NewLoginChallenge(q) ==
    /\ At(q, "challenge") /\ Len(challenges) < MaxChallenges
    /\ CreateChallenge(request[q].for, request[q].epoch)
    /\ Answer(q)
    /\ UNCHANGED <<password, factors, sessions, links>>

IssueSession(q) ==
    /\ At(q, "issue") /\ Len(sessions) < MaxSessions
    /\ CreateSession(request[q].epoch, request[q].row)
    /\ Answer(q)
    /\ UNCHANGED <<password, factors, challenges, links>>

(***************************************************************************)
(* POST /api/login/mfa and the enrolment a challenge may start.             *)
(***************************************************************************)
StartEnrollment(q) ==
    /\ At(q, "idle")
    /\ \/ SignedIn
       \/ \E c \in DOMAIN challenges : LiveChallenge(c) /\ challenges[c].purpose = "enroll"
    /\ SaveEnrollment
    /\ UNCHANGED <<required, password, challenges, sessions, links, request>>

AnswerChallenge(q) == \E c \in DOMAIN challenges :
    /\ At(q, "idle") /\ LiveChallenge(c)
    /\ challenges[c].purpose = "enroll" => mfa.status = "pending"
    /\ Go(q, [at |-> IF challenges[c].purpose = "verify" THEN "factor" ELSE "enrollment",
              for |-> challenges[c].purpose, row |-> c, epoch |-> challenges[c].epoch,
              secret |-> IF challenges[c].purpose = "verify" THEN 0 ELSE mfa.secret,
              code |-> 0])
    /\ UNCHANGED <<password, factors, challenges, sessions, links>>

\* POST /api/me/mfa/confirm: the same check for a signed-in user.
ConfirmEnrollment(q) ==
    /\ At(q, "idle") /\ SignedIn /\ mfa.status = "pending"
    /\ Go(q, [Idle EXCEPT !.at = "enrollment", !.for = "confirm", !.secret = mfa.secret])
    /\ UNCHANGED <<password, factors, challenges, sessions, links>>

\* The code fits the secret that was read; enable_mfa asks only for the status.
Enable(q) == \E k \in Counters :
    /\ At(q, "enrollment")
    /\ IF CanEnable
       THEN /\ EnableMfa(request[q].secret, k)
            /\ IF request[q].for = "confirm" THEN Answer(q) ELSE Decide(q, "proved")
       ELSE Answer(q) /\ UNCHANGED <<mfa, issued, spent, reused>>
    /\ UNCHANGED <<required, password, challenges, sessions, links>>

\* _verify_enabled_mfa reads the credential, and a code with six digits is checked
\* against its secret and its last step ...
ReadFactor(q) ==
    /\ At(q, "factor") /\ mfa.status = "enabled"
    /\ \/ Move(q, "recovery")
       \/ \E k \in Counters :
            /\ CanAccept(k)
            /\ Go(q, [request[q] EXCEPT !.at = "accept", !.secret = mfa.secret, !.code = k])
    /\ UNCHANGED <<password, factors, challenges, sessions, links>>

\* Mutant: the step that was new when the credential was read is taken as new.
AcceptReadFactor(q) ==
    /\ At(q, "accept")
    /\ AcceptCounter(request[q].secret, request[q].code) /\ Decide(q, "proved")
    /\ UNCHANGED <<required, password, issued, challenges, sessions, links>>

\* ... and taken in a transaction of its own, ...
AcceptFactor(q) ==
    /\ At(q, "accept")
    /\ IF CanAccept(request[q].code)
       THEN AcceptCounter(request[q].secret, request[q].code) /\ Decide(q, "proved")
       ELSE Decide(q, "rejected") /\ UNCHANGED <<mfa, spent, reused>>
    /\ UNCHANGED <<required, password, issued, challenges, sessions, links>>

\* ... as a recovery code is, whatever has become of the credential by then.
UseRecoveryCode(q) == \E n \in mfa.codes :
    /\ At(q, "recovery")
    /\ ConsumeRecoveryCode(n) /\ Decide(q, "proved")
    /\ UNCHANGED <<required, password, issued, challenges, sessions, links>>

\* A code that is not accepted costs a login challenge one of its attempts.
FactorRejected(q) ==
    /\ request[q].at \in {"factor", "recovery", "rejected", "enrollment"}
    /\ Answer(q)
    /\ IF request[q].row # 0 THEN RecordChallengeAttempt(request[q].row)
                             ELSE UNCHANGED challenges
    /\ UNCHANGED <<password, factors, sessions, links>>

ConsumeChallenge(q) ==
    LET c == request[q].row IN
    /\ At(q, "proved") /\ request[q].for \in {"verify", "enroll"}
    /\ IF LiveChallenge(c)
       THEN challenges' = [challenges EXCEPT ![c].live = FALSE] /\ Move(q, "issue")
       ELSE Answer(q) /\ UNCHANGED challenges
    /\ UNCHANGED <<password, factors, sessions, links>>

ChallengeExpires == \E c \in DOMAIN challenges :
    /\ challenges[c].live
    /\ challenges' = [challenges EXCEPT ![c].live = FALSE]
    /\ UNCHANGED <<password, factors, sessions, links, request>>

(***************************************************************************)
(* A signed-in user's own second factor and password.                       *)
(***************************************************************************)
\* POST /api/me/mfa/recovery-codes
RegenerateCodes(q) ==
    /\ At(q, "idle") /\ SignedIn
    /\ Go(q, [Idle EXCEPT !.at = "factor", !.for = "regenerate"])
    /\ UNCHANGED <<password, factors, challenges, sessions, links>>

\* POST /api/me/mfa/disable
DisableMyMfa(q) ==
    /\ At(q, "idle") /\ SignedIn /\ ~required
    /\ Go(q, [Idle EXCEPT !.at = "factor", !.for = "disable"])
    /\ UNCHANGED <<password, factors, challenges, sessions, links>>

\* PUT /api/me/password, with the current password
ChangeMyPassword(q) ==
    /\ At(q, "idle") /\ SignedIn
    /\ Go(q, [Idle EXCEPT !.at = IF mfa.status = "enabled" THEN "factor" ELSE "proved",
                          !.for = "change"])
    /\ UNCHANGED <<password, factors, challenges, sessions, links>>

ProvedRegenerate(q) ==
    /\ At(q, "proved") /\ request[q].for = "regenerate"
    /\ ReplaceRecoveryCodes /\ Answer(q)
    /\ UNCHANGED <<required, password, challenges, sessions, links, spent, reused>>

ProvedDisable(q) ==
    /\ At(q, "proved") /\ request[q].for = "disable"
    /\ IF mfa.status = "none" THEN Answer(q) /\ UNCHANGED mfa
                              ELSE DisableMfa /\ Move(q, "revoke")
    /\ UNCHANGED <<required, password, challenges, sessions, links, issued, spent, reused>>

ProvedChange(q) ==
    /\ At(q, "proved") /\ request[q].for = "change"
    /\ CredentialFree(q) /\ SetPassword
    /\ Move(q, "revoke")
    /\ UNCHANGED <<factors, challenges, sessions, links>>

\* Mutant: an administrator's reset leaves the sessions.
ResetPasswordOnly(q) ==
    /\ At(q, "idle") /\ CredentialFree(q) /\ SetPassword
    /\ UNCHANGED <<factors, challenges, sessions, links, request>>

\* PUT /api/users/{id}/password
ResetUserPassword(q) ==
    /\ At(q, "idle") /\ CredentialFree(q) /\ SetPassword
    /\ Go(q, [Idle EXCEPT !.at = "revoke", !.for = "change"])
    /\ UNCHANGED <<factors, challenges, sessions, links>>

\* POST /api/users/{id}/mfa/reset: the factor is seen to be on, the administrator gives
\* proofs of another account, and then it is disabled as by its owner.
ResetUserMfa(q) ==
    /\ At(q, "idle") /\ mfa.status = "enabled"
    /\ Go(q, [Idle EXCEPT !.at = "proved", !.for = "disable"])
    /\ UNCHANGED <<password, factors, challenges, sessions, links>>

RevokeUserSessions(q) ==
    /\ At(q, "revoke") /\ sessions' = EndSessions
    /\ Answer(q)
    /\ UNCHANGED <<password, factors, challenges, links>>

Logout == \E s \in DOMAIN sessions :
    /\ sessions[s].live
    /\ sessions' = [sessions EXCEPT ![s].live = FALSE]
    /\ UNCHANGED <<password, factors, challenges, links, request>>

(***************************************************************************)
(* Recovery links.                                                          *)
(***************************************************************************)
ConsumedLinks == {l \in DOMAIN links : links[l].state = "consumed"}

CreateLink ==
    /\ Len(links) < MaxLinks
    /\ Cardinality({l \in DOMAIN links : links[l].recent}) < LinkLimit
    /\ links' = Append(links, [state |-> "live", recent |-> TRUE,
                               after |-> Cardinality(ConsumedLinks)])
    /\ UNCHANGED <<password, factors, challenges, sessions, request>>

\* SELECT ... FOR UPDATE OF reset, credential: the link's row first ...
Holds(q, l) == request[q].at \in {"linkLocked", "bothLocked"} /\ request[q].row = l

LockLink(q) == \E l \in DOMAIN links :
    /\ At(q, "idle") /\ links[l].state = "live"
    /\ \A p \in Requests : ~Holds(p, l)
    /\ Go(q, [Idle EXCEPT !.at = "linkLocked", !.for = "reset", !.row = l])
    /\ UNCHANGED <<password, factors, challenges, sessions, links>>

\* ... then the credential's, which every other change of the password needs.
LockCredential(q) == /\ At(q, "linkLocked") /\ CredentialFree(q)
                     /\ Move(q, "bothLocked")
                     /\ UNCHANGED <<password, factors, challenges, sessions, links>>

\* The other live links of the account must be free to be invalidated.
Blocked(q) == \E p \in Requests \ {q}, l \in DOMAIN links :
                 Holds(p, l) /\ links[l].state = "live"

CompleteReset(q) ==
    /\ At(q, "bothLocked") /\ ~Blocked(q) /\ SetPassword
    /\ links' = [l \in DOMAIN links |->
                   CASE l = request[q].row -> [links[l] EXCEPT !.state = "consumed"]
                     [] links[l].state = "live" /\ l # request[q].row ->
                            [links[l] EXCEPT !.state = "invalidated"]
                     [] OTHER -> links[l]]
    /\ sessions' = EndSessions
    /\ Move(q, "revoke")
    /\ UNCHANGED <<factors, challenges>>

\* Two completions wait for each other's row: the database fails one of them.
DeadlockVictim(q) ==
    /\ \E p \in Requests \ {q} : {request[p].at, request[q].at} = {"linkLocked", "bothLocked"}
    /\ Answer(q)
    /\ UNCHANGED <<password, factors, challenges, sessions, links>>

LinksAge == /\ links' = [l \in DOMAIN links |->
                  [links[l] EXCEPT !.recent = FALSE,
                                   !.state = IF @ = "live" /\ ~links[l].recent
                                             THEN "expired" ELSE @]]
            /\ links' # links
            /\ \A q \in Requests, l \in DOMAIN links : ~Holds(q, l)
            /\ UNCHANGED <<password, factors, challenges, sessions, request>>

SignIn(q) == Authenticate(q) \/ ChooseFactor(q) \/ NewLoginChallenge(q) \/ IssueSession(q)

SecondFactor(q) ==
    \/ StartEnrollment(q) \/ AnswerChallenge(q) \/ ConfirmEnrollment(q) \/ Enable(q)
    \/ ReadFactor(q) \/ AcceptFactor(q) \/ UseRecoveryCode(q) \/ FactorRejected(q)
    \/ ConsumeChallenge(q) \/ RegenerateCodes(q) \/ ProvedRegenerate(q)
    \/ DisableMyMfa(q) \/ ProvedDisable(q) \/ ResetUserMfa(q)

PasswordChange(q) ==
    \/ ChangeMyPassword(q) \/ ProvedChange(q) \/ ResetUserPassword(q)
    \/ LockLink(q) \/ LockCredential(q) \/ CompleteReset(q) \/ DeadlockVictim(q)

\* The steps of accounts without and with a second factor.
PasswordNext == \/ \E q \in Requests : SignIn(q) \/ PasswordChange(q) \/ RevokeUserSessions(q)
                \/ Logout \/ CreateLink \/ LinksAge

FactorNext == \/ \E q \in Requests : SecondFactor(q)
              \/ ChallengeExpires

Next == PasswordNext \/ FactorNext

Spec == Init /\ [][Next]_vars

(***************************************************************************)
(* Properties.                                                              *)
(***************************************************************************)
\* However many requests check a code at once, and whichever of them replaces, disables
\* or confirms the factor meanwhile: no enrolment accepts a code twice, its own or that of
\* an enrolment it replaced, and no recovery code is accepted twice.  A code is accepted
\* again only by an enrolment that replaced the code's own after the code was checked.
FactorsAreSpentOnce == ~reused

\* Not so: no code is accepted twice.  enable_mfa and accept_mfa_counter write to the
\* enrolment there is, which need not be the one whose secret the code was checked with.
CodesAreSpentOnce == \A u, w \in spent : u[1] = w[1] => u = w

\* A login challenge opens one session at most, however often its code is sent.
ChallengesOpenOneSession ==
    \A s1, s2 \in DOMAIN sessions :
        s1 # s2 /\ sessions[s1].challenge # 0 => sessions[s1].challenge # sessions[s2].challenge

\* Once a change of the password has been answered, no session that was opened
\* with an older one is left, but for a sign-in that had checked the older one
\* before the change and opened its session after it.
SessionsFollowPassword ==
    \A s \in DOMAIN sessions :
        sessions[s].live /\ sessions[s].epoch # password =>
            \/ sessions[s].straddled
            \/ \E q \in Requests : At(q, "revoke") /\ request[q].for = "change"

\* Of the recovery links that were open at one time at most one ever sets a
\* password: a completion closes the others, also those being completed at once.
OneLinkWins == \A l1, l2 \in ConsumedLinks : l1 # l2 => links[l1].after # links[l2].after
=============================================================================
