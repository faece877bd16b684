----------------------------- MODULE UserAccess -----------------------------
(***************************************************************************)
(* User administration: roles, account status and API access, and the       *)
(* personal API tokens that go with them.  A request reads the account and  *)
(* counts the administrators, then stores; core.LOCK is taken only around   *)
(* the store, and only by one process, so requests interleave freely.       *)
(* Withdrawing access revokes the tokens it lists, one transaction each.    *)
(***************************************************************************)
EXTENDS Integers, Sequences, FiniteSets

CONSTANTS Users, Requests, MaxTokens

VARIABLES user,        \* users and user_platform_roles
          tokens,      \* user_api_tokens, oldest first
          request

vars == <<user, tokens, request>>

Idle == [at |-> "idle", target |-> "none", value |-> [none |-> TRUE],
         counted |-> {}, listed |-> {}]

TypeOK ==
    /\ user \in [Users -> [role: {"platform_admin", "msp_operator"}, api: BOOLEAN,
                           status: {"absent", "active", "disabled", "archived"}]]
    /\ \A t \in DOMAIN tokens :
          tokens[t] \in [owner: Users, live: BOOLEAN, straddled: BOOLEAN]
    /\ \A q \in Requests : /\ request[q].at \in {"idle", "store", "insert", "list", "revoke"}
                           /\ request[q].counted \subseteq Users
                           /\ request[q].listed \subseteq DOMAIN tokens

Admins == {u \in Users : user[u].role = "platform_admin" /\ user[u].status = "active"}
Access(u) == user[u].status = "active" /\ user[u].api
LiveTokens(u) == {t \in DOMAIN tokens : tokens[t].owner = u /\ tokens[t].live}

\* One or two administrators at first; the other accounts are still to be created.
Init == /\ \E a, b \in Users :
                 user = [u \in Users |-> [role |-> IF u \in {a, b} THEN "platform_admin"
                                                                   ELSE "msp_operator",
                                          status |-> IF u \in {a, b} THEN "active" ELSE "absent",
                                          api |-> FALSE]]
        /\ tokens = <<>>
        /\ request = [q \in Requests |-> Idle]

Go(q, r) == request' = [request EXCEPT ![q] = r]
Answer(q) == Go(q, Idle)

(***************************************************************************)
(* Repository transactions.                                                 *)
(***************************************************************************)
\* The password, role and grants of a new account; API access is off.
InsertUser(u) == user' = [user EXCEPT ![u] = [role |-> "msp_operator", status |-> "active",
                                              api |-> FALSE]]

\* update_user writes the values it is given over whatever is stored.
WriteUser(u, v) == user' = [user EXCEPT ![u].role = v.role, ![u].api = v.api]

WriteStatus(u, status) == user' = [user EXCEPT ![u].status = status]

InsertToken(u) ==
    tokens' = Append(tokens, [owner |-> u, live |-> TRUE, straddled |-> ~Access(u)])

RevokeToken(t) == tokens' = [tokens EXCEPT ![t].live = FALSE]

(***************************************************************************)
(* Requests of an active platform administrator.                            *)
(***************************************************************************)
CreateUser(u) == /\ Admins # {} /\ user[u].status = "absent"
                 /\ InsertUser(u)
                 /\ UNCHANGED <<tokens, request>>

\* _managed_user: the account exists; the actor may administer every account.
Managed(u) == user[u].status # "absent" /\ Admins # {}

\* Mutant: the target itself is one of those who remain.
NoAdminLeft(u) == user[u].role = "platform_admin" /\ Cardinality(Admins) < 1

FinalAdmin(u) == user[u].role = "platform_admin" /\ Cardinality(Admins) <= 1

Checked(q, u, value) ==
    Go(q, [Idle EXCEPT !.at = "store", !.target = u, !.value = value, !.counted = Admins])

\* PATCH /api/users/{id}; an administrator may demote itself.
UpdateUser(q) == \E u \in Users, role \in {"platform_admin", "msp_operator"}, api \in BOOLEAN :
    /\ request[q].at = "idle" /\ Managed(u)
    /\ ~(role # "platform_admin" /\ FinalAdmin(u))
    /\ Checked(q, u, [role |-> role, api |-> api])
    /\ UNCHANGED <<user, tokens>>

\* POST /api/users/{id}/status; nobody disables the account it acts with.
UpdateUserStatus(q) == \E u \in Users, status \in {"active", "disabled"} :
    /\ request[q].at = "idle" /\ Managed(u)
    /\ status = "disabled" => Admins \ {u} # {} /\ ~FinalAdmin(u)
    /\ Checked(q, u, [status |-> status])
    /\ UNCHANGED <<user, tokens>>

\* DELETE /api/users/{id}
ArchiveUser(q) == \E u \in Users :
    /\ request[q].at = "idle" /\ Managed(u)
    /\ Admins \ {u} # {} /\ ~FinalAdmin(u)
    /\ Checked(q, u, [status |-> "archived"])
    /\ UNCHANGED <<user, tokens>>

Withdraws(value) == IF "api" \in DOMAIN value THEN ~value.api ELSE value.status # "active"

Store(q) ==
    LET r == request[q] IN
    /\ r.at = "store"
    /\ IF "api" \in DOMAIN r.value THEN WriteUser(r.target, r.value)
                                   ELSE WriteStatus(r.target, r.value.status)
    /\ IF Withdraws(r.value) THEN Go(q, [Idle EXCEPT !.at = "list", !.target = r.target])
                             ELSE Answer(q)
    /\ UNCHANGED tokens

\* revoke_user_api_tokens: what is listed now is revoked, one by one.
ListTokens(q) ==
    /\ request[q].at = "list"
    /\ Go(q, [request[q] EXCEPT !.at = "revoke", !.listed = LiveTokens(request[q].target)])
    /\ UNCHANGED <<user, tokens>>

RevokeListed(q) ==
    /\ request[q].at = "revoke"
    /\ IF request[q].listed = {}
       THEN Answer(q) /\ UNCHANGED tokens
       ELSE \E t \in request[q].listed :
               /\ RevokeToken(t)
               /\ Go(q, [request[q] EXCEPT !.listed = @ \ {t}])
    /\ UNCHANGED user

\* POST /api/users/{id}/tokens: the check ...
CreateApiToken(q) == \E u \in Users :
    /\ request[q].at = "idle" /\ Managed(u) /\ Access(u)
    /\ Go(q, [Idle EXCEPT !.at = "insert", !.target = u])
    /\ UNCHANGED <<user, tokens>>

\* ... and the insert, which does not look again.
StoreApiToken(q) == /\ request[q].at = "insert" /\ Len(tokens) < MaxTokens
                    /\ InsertToken(request[q].target)
                    /\ Answer(q)
                    /\ UNCHANGED user

RevokeApiToken == \E t \in DOMAIN tokens :
    /\ Managed(tokens[t].owner) /\ tokens[t].live /\ RevokeToken(t)
    /\ UNCHANGED <<user, request>>

Next == \/ \E q \in Requests : \/ UpdateUser(q) \/ UpdateUserStatus(q) \/ ArchiveUser(q)
                               \/ Store(q) \/ ListTokens(q) \/ RevokeListed(q)
                               \/ CreateApiToken(q) \/ StoreApiToken(q)
        \/ \E u \in Users : CreateUser(u)
        \/ RevokeApiToken

Spec == Init /\ [][Next]_vars

(***************************************************************************)
(* Properties.                                                              *)
(***************************************************************************)
\* "The final active platform administrator cannot be demoted", disabled or
\* archived (backend/main.py:3000, 3038, 3061).
AnAdminRemains == Admins # {}

\* The last administrator is lost only to a request whose count had gone stale
\* between its check and its store: one request after the other never loses it.
AdminsAreLostOnlyByOverlap ==
    [][Admins # {} /\ Admins' = {} =>
          \E q \in Requests : request[q].at = "store" /\ request[q].counted # Admins]_vars

\* Once a withdrawal of API access has been answered, no token of the account is
\* left, but for one whose request had passed its check before the withdrawal.
WithdrawalEndsTokens ==
    \A t \in DOMAIN tokens :
        tokens[t].live /\ ~Access(tokens[t].owner) =>
            \/ tokens[t].straddled
            \/ \E q \in Requests : /\ request[q].at \in {"list", "revoke"}
                                   /\ request[q].target = tokens[t].owner
=============================================================================
