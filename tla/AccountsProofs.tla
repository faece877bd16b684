--------------------------- MODULE AccountsProofs ---------------------------
(***************************************************************************)
(* Theorems about local accounts - the sign-in throttle, the credentials   *)
(* and user administration - for any number of users, requests and rows.   *)
(***************************************************************************)
EXTENDS MCAccounts, SequenceTheorems, FiniteSetTheorems, WellFoundedInduction, TLAPS

----------------------------------------------------------------------------
(* User administration *)

Roles == {"platform_admin", "msp_operator"}
Values == [role : Roles, api : BOOLEAN] \cup [status : {"active", "disabled", "archived"}]
Token == [owner : Users, live : BOOLEAN, straddled : BOOLEAN]
UserRow == [role : Roles, api : BOOLEAN,
            status : {"absent", "active", "disabled", "archived"}]
RequestRow == [at : {"idle", "store", "insert", "list", "revoke"}, target : Users \cup {"none"},
               value : Values \cup [none : {TRUE}], counted : SUBSET Users, listed : SUBSET Nat]

\* What is stored will leave its target without the rights of an administrator.
Demotes(value) == /\ "api" \in DOMAIN value => value.role # "platform_admin"
                  /\ "api" \notin DOMAIN value => value.status # "active"

\* A request that passed its check counted another administrator than its target.
Checked(row) ==
    /\ row.at # "idle" => row.target \in Users
    /\ row.at = "store" => /\ row.value \in Values
                           /\ Demotes(row.value) => row.counted # {row.target}

UserTypes == /\ user \in [Users -> UserRow]
             /\ tokens \in Seq(Token)
             /\ admin \in [Requests -> RequestRow]
             /\ \A q \in Requests : admin[q].listed \subseteq DOMAIN tokens

\* Of an account without access a live token is still to be revoked by a request that
\* has yet to list it or has listed it.
Ending(t) == \/ tokens[t].straddled
             \/ \E q \in Requests : /\ admin[q].target = tokens[t].owner
                                    /\ \/ admin[q].at = "list"
                                       \/ admin[q].at = "revoke" /\ t \in admin[q].listed

UserInv == /\ UserTypes
           /\ \A q \in Requests : Checked(admin[q])
           /\ \A t \in DOMAIN tokens :
                 tokens[t].live /\ ~U!Access(tokens[t].owner) => Ending(t)

LEMMA UserCardinality == \A S : U!Cardinality(S) = Cardinality(S)
  BY DEF U!Cardinality, Cardinality

LEMMA IdleUser == U!Idle \in RequestRow /\ U!Idle.at = "idle"
  BY DEF U!Idle, RequestRow

LEMMA UserInit == U!Init => UserInv
  <1> SUFFICES ASSUME U!Init PROVE UserInv
    OBVIOUS
  <1>1. tokens = <<>> /\ admin = [q \in Requests |-> U!Idle] /\ user \in [Users -> UserRow]
    BY DEF U!Init, UserRow, Roles
  <1>2. U!Idle.listed = {}
    BY DEF U!Idle
  <1> QED
    BY <1>1, <1>2, IdleUser DEF UserInv, UserTypes, Checked

\* A step of one request.
LEMMA UserStep ==
    ASSUME UserInv, NEW q \in Requests, NEW row \in RequestRow, U!Go(q, row)
    PROVE  /\ admin' \in [Requests -> RequestRow]
           /\ admin'[q] = row /\ \A p \in Requests \ {q} : admin'[p] = admin[p]
  BY DEF UserInv, UserTypes, U!Go

LEMMA CheckedTypes ==
    ASSUME UserInv, NEW q \in Requests, NEW u \in Users, NEW value \in Values,
           U!Checked(q, u, value), user' = user, tokens' = tokens, admin[q].at = "idle",
           Demotes(value) => U!Admins # {u}
    PROVE  UserInv'
  <1> DEFINE row == [U!Idle EXCEPT !.at = "store", !.target = u, !.value = value,
                                   !.counted = U!Admins]
  <1>1. /\ row \in RequestRow /\ row.at = "store" /\ row.target = u /\ row.value = value
        /\ row.counted = U!Admins /\ row.listed = {}
    BY DEF U!Idle, RequestRow, U!Admins
  <1>2. U!Go(q, row)
    BY DEF U!Checked
  <1> HIDE DEF row
  <1>3. /\ admin' \in [Requests -> RequestRow]
        /\ admin'[q] = row /\ \A p \in Requests \ {q} : admin'[p] = admin[p]
    BY <1>1, <1>2, UserStep
  <1>4. UserTypes'
    BY <1>1, <1>3 DEF UserInv, UserTypes
  <1>5. \A p \in Requests : Checked(admin[p])'
    BY <1>1, <1>3 DEF UserInv, Checked
  <1>6. ASSUME NEW t \in DOMAIN tokens, tokens[t].live, ~U!Access(tokens[t].owner)
        PROVE  Ending(t)'
    BY <1>3, <1>6 DEF UserInv, Ending
  <1> QED
    BY <1>4, <1>5, <1>6 DEF UserInv, U!Access

\* The checks of a demotion, of disabling and of archiving.
LEMMA NotTheLast ==
    ASSUME UserInv, NEW u \in Users, ~U!FinalAdmin(u)
    PROVE  U!Admins # {u}
  <1>1. ASSUME U!Admins = {u} PROVE FALSE
    <2>1. user[u].role = "platform_admin"
      BY <1>1 DEF U!Admins
    <2>2. Cardinality(U!Admins) = 1
      BY <1>1, FS_Singleton
    <2> QED
      BY <2>1, <2>2, UserCardinality DEF U!FinalAdmin
  <1> QED
    BY <1>1

LEMMA ChangeTypes ==
    ASSUME UserInv, NEW q \in Requests,
           U!UpdateUser(q) \/ U!UpdateUserStatus(q) \/ U!ArchiveUser(q)
    PROVE  UserInv'
  <1>1. user' = user /\ tokens' = tokens /\ admin[q].at = "idle"
    BY DEF U!UpdateUser, U!UpdateUserStatus, U!ArchiveUser
  <1>2. CASE U!UpdateUser(q)
    <2>1. PICK u \in Users, role \in Roles, api \in BOOLEAN :
             /\ role # "platform_admin" => ~U!FinalAdmin(u)
             /\ U!Checked(q, u, [role |-> role, api |-> api])
      BY <1>2 DEF U!UpdateUser, Roles
    <2> DEFINE value == [role |-> role, api |-> api]
    <2>2. value \in Values /\ (Demotes(value) => role # "platform_admin")
      BY DEF Values, Demotes
    <2>3. U!Checked(q, u, value)
      BY <2>1
    <2> HIDE DEF value
    <2>4. Demotes(value) => U!Admins # {u}
      BY <2>1, <2>2, NotTheLast
    <2> QED
      BY <1>1, <2>2, <2>3, <2>4, CheckedTypes
  <1>3. CASE U!UpdateUserStatus(q)
    <2>1. PICK u \in Users, status \in {"active", "disabled"} :
             /\ status = "disabled" => ~U!FinalAdmin(u)
             /\ U!Checked(q, u, [status |-> status])
      BY <1>3 DEF U!UpdateUserStatus
    <2> DEFINE value == [status |-> status]
    <2>2. value \in Values /\ (Demotes(value) => status # "active")
      BY DEF Values, Demotes
    <2>3. U!Checked(q, u, value)
      BY <2>1
    <2> HIDE DEF value
    <2>4. Demotes(value) => U!Admins # {u}
      BY <2>1, <2>2, NotTheLast
    <2> QED
      BY <1>1, <2>2, <2>3, <2>4, CheckedTypes
  <1>4. CASE U!ArchiveUser(q)
    <2>1. PICK u \in Users : ~U!FinalAdmin(u) /\ U!Checked(q, u, [status |-> "archived"])
      BY <1>4 DEF U!ArchiveUser
    <2>2. [status |-> "archived"] \in Values
      BY DEF Values
    <2> QED
      BY <1>1, <2>1, <2>2, NotTheLast, CheckedTypes
  <1> QED
    BY <1>2, <1>3, <1>4

\* Who loses access by what is stored has a request that will list its tokens.
LEMMA StoreTypes ==
    ASSUME UserInv, NEW q \in Requests, U!Store(q)
    PROVE  UserInv'
  <1> DEFINE u == admin[q].target
             value == admin[q].value
  <1>1. /\ user \in [Users -> UserRow] /\ tokens' = tokens /\ tokens \in Seq(Token)
        /\ u \in Users /\ value \in Values /\ admin[q].at = "store"
        /\ admin \in [Requests -> RequestRow]
    BY DEF UserInv, UserTypes, Checked, U!Store
  <1>2. /\ user' \in [Users -> UserRow]
        /\ \A x \in Users : U!Access(x) /\ ~U!Access(x)' => x = u /\ U!Withdraws(value)
    <2>1. CASE "api" \in DOMAIN value
      <3>1. value.role \in Roles /\ value.api \in BOOLEAN
        BY <1>1, <2>1 DEF Values
      <3>2. user' = [user EXCEPT ![u].role = value.role, ![u].api = value.api]
        BY <2>1 DEF U!Store, U!WriteUser
      <3> HIDE DEF value, u
      <3>3. user' \in [Users -> UserRow]
        BY <1>1, <3>1, <3>2 DEF UserRow
      <3>4. \A x \in Users : /\ user'[x].status = user[x].status
                             /\ x # u => user'[x] = user[x]
                             /\ user'[u].api = value.api
        BY <1>1, <3>2 DEF UserRow
      <3> QED
        BY <2>1, <3>1, <3>3, <3>4 DEF U!Access, U!Withdraws
    <2>2. CASE "api" \notin DOMAIN value
      <3>1. value.status \in {"active", "disabled", "archived"}
        BY <1>1, <2>2 DEF Values
      <3>2. user' = [user EXCEPT ![u].status = value.status]
        BY <2>2 DEF U!Store, U!WriteStatus
      <3> HIDE DEF value, u
      <3>3. user' \in [Users -> UserRow]
        BY <1>1, <3>1, <3>2 DEF UserRow
      <3>4. \A x \in Users : /\ user'[x].api = user[x].api
                             /\ x # u => user'[x] = user[x]
                             /\ user'[u].status = value.status
        BY <1>1, <3>2 DEF UserRow
      <3> QED
        BY <2>2, <3>1, <3>3, <3>4 DEF U!Access, U!Withdraws
    <2> QED
      BY <2>1, <2>2
  <1>3. \E row \in RequestRow :
           /\ U!Go(q, row) /\ row.listed = {}
           /\ row.at # "idle" => row.at = "list" /\ row.target = u
           /\ U!Withdraws(value) => row.at = "list" /\ row.target = u
    <2>1. CASE U!Withdraws(value)
      <3> DEFINE row == [U!Idle EXCEPT !.at = "list", !.target = u]
      <3>1. row \in RequestRow /\ row.at = "list" /\ row.target = u /\ row.listed = {}
        BY <1>1 DEF U!Idle, RequestRow
      <3>2. U!Go(q, row)
        BY <2>1 DEF U!Store
      <3> HIDE DEF row
      <3> QED
        BY <3>1, <3>2
    <2>2. CASE ~U!Withdraws(value)
      <3> DEFINE row == U!Idle
      <3>1. U!Go(q, row)
        BY <2>2 DEF U!Store, U!Answer
      <3>2. row \in RequestRow /\ row.at = "idle" /\ row.listed = {}
        BY IdleUser DEF U!Idle
      <3> HIDE DEF row
      <3> QED
        BY <2>2, <3>1, <3>2
    <2> QED
      BY <2>1, <2>2
  <1>4. PICK row \in RequestRow :
           /\ U!Go(q, row) /\ row.listed = {}
           /\ row.at # "idle" => row.at = "list" /\ row.target = u
           /\ U!Withdraws(value) => row.at = "list" /\ row.target = u
    BY <1>3
  <1>5. /\ admin' \in [Requests -> RequestRow]
        /\ admin'[q] = row /\ \A p \in Requests \ {q} : admin'[p] = admin[p]
    BY <1>4, UserStep
  <1>6. UserTypes' /\ \A p \in Requests : Checked(admin[p])'
    BY <1>1, <1>2, <1>4, <1>5 DEF UserInv, UserTypes, Checked
  <1>7. ASSUME NEW t \in DOMAIN tokens, tokens[t].live, ~U!Access(tokens[t].owner)'
        PROVE  Ending(t)'
    <2>1. tokens[t] \in Token /\ tokens[t].owner \in Users
      <3>1. tokens \in Seq(Token)
        BY <1>1
      <3>2. tokens[t] \in Token
        BY <3>1, LenProperties
      <3> QED
        BY <3>2 DEF Token
    <2>2. CASE U!Access(tokens[t].owner)
      BY <1>1, <1>2, <1>4, <1>5, <1>7, <2>1, <2>2 DEF Ending
    <2>3. CASE ~U!Access(tokens[t].owner)
      <3>1. Ending(t)
        BY <1>7, <2>3 DEF UserInv
      <3> QED
        BY <1>1, <1>5, <3>1 DEF Ending
    <2> QED
      BY <2>2, <2>3
  <1> QED
    BY <1>1, <1>6, <1>7 DEF UserInv, U!Access

\* What is listed is revoked.
LEMMA RevokeTypes ==
    ASSUME UserInv, NEW q \in Requests, U!ListTokens(q) \/ U!RevokeListed(q)
    PROVE  UserInv'
  <1>1. /\ user' = user /\ user \in [Users -> UserRow] /\ tokens \in Seq(Token)
        /\ admin \in [Requests -> RequestRow] /\ Checked(admin[q])
        /\ admin[q].listed \subseteq DOMAIN tokens /\ DOMAIN tokens \subseteq Nat
    BY LenProperties DEF UserInv, UserTypes, U!ListTokens, U!RevokeListed
  <1>2. CASE U!ListTokens(q)
    <2> DEFINE row == [admin[q] EXCEPT !.at = "revoke",
                                       !.listed = U!LiveTokens(admin[q].target)]
    <2>1. U!LiveTokens(admin[q].target) \subseteq DOMAIN tokens
      BY DEF U!LiveTokens
    <2>2. /\ row \in RequestRow /\ row.at = "revoke" /\ row.target = admin[q].target
          /\ row.listed = U!LiveTokens(admin[q].target)
      BY <1>1, <2>1 DEF RequestRow
    <2>3. U!Go(q, row) /\ tokens' = tokens /\ admin[q].at = "list"
      BY <1>2 DEF U!ListTokens
    <2> HIDE DEF row
    <2>4. /\ admin' \in [Requests -> RequestRow]
          /\ admin'[q] = row /\ \A p \in Requests \ {q} : admin'[p] = admin[p]
      BY <2>2, <2>3, UserStep
    <2>5. UserTypes' /\ \A p \in Requests : Checked(admin[p])'
      BY <1>1, <2>1, <2>2, <2>3, <2>4 DEF UserInv, UserTypes, Checked
    <2>6. ASSUME NEW t \in DOMAIN tokens, tokens[t].live, ~U!Access(tokens[t].owner)
          PROVE  Ending(t)'
      <3>1. Ending(t)
        BY <2>6 DEF UserInv
      <3> QED
        BY <2>2, <2>3, <2>4, <2>6, <3>1 DEF Ending, U!LiveTokens
    <2> QED
      BY <1>1, <2>3, <2>5, <2>6 DEF UserInv, U!Access
  <1>3. CASE U!RevokeListed(q) /\ admin[q].listed = {}
    <2>1. U!Go(q, U!Idle) /\ tokens' = tokens /\ admin[q].at = "revoke"
      BY <1>3 DEF U!RevokeListed, U!Answer
    <2>2. /\ admin' \in [Requests -> RequestRow]
          /\ admin'[q] = U!Idle /\ \A p \in Requests \ {q} : admin'[p] = admin[p]
      BY <2>1, IdleUser, UserStep
    <2>3. U!Idle.listed = {}
      BY DEF U!Idle
    <2>4. UserTypes' /\ \A p \in Requests : Checked(admin[p])'
      BY <1>1, <2>1, <2>2, <2>3, IdleUser DEF UserInv, UserTypes, Checked
    <2>5. ASSUME NEW t \in DOMAIN tokens, tokens[t].live, ~U!Access(tokens[t].owner)
          PROVE  Ending(t)'
      <3>1. Ending(t)
        BY <2>5 DEF UserInv
      <3> QED
        BY <1>3, <2>1, <2>2, <3>1 DEF Ending
    <2> QED
      BY <1>1, <2>1, <2>4, <2>5 DEF UserInv, U!Access
  <1>4. CASE U!RevokeListed(q) /\ admin[q].listed # {}
    <2>1. PICK n \in admin[q].listed :
             /\ tokens' = [tokens EXCEPT ![n].live = FALSE]
             /\ U!Go(q, [admin[q] EXCEPT !.listed = admin[q].listed \ {n}])
             /\ admin[q].at = "revoke"
      BY <1>4 DEF U!RevokeListed, U!RevokeToken
    <2> DEFINE row == [admin[q] EXCEPT !.listed = admin[q].listed \ {n}]
    <2>2. /\ row \in RequestRow /\ row.at = "revoke" /\ row.target = admin[q].target
          /\ row.listed = admin[q].listed \ {n}
      BY <1>1, <2>1 DEF RequestRow
    <2>3. U!Go(q, row)
      BY <2>1
    <2> HIDE DEF row
    <2>4. /\ admin' \in [Requests -> RequestRow]
          /\ admin'[q] = row /\ \A p \in Requests \ {q} : admin'[p] = admin[p]
      BY <2>2, <2>3, UserStep
    <2>5. /\ tokens' \in Seq(Token) /\ DOMAIN tokens' = DOMAIN tokens
          /\ ~tokens'[n].live /\ \A t \in DOMAIN tokens \ {n} : tokens'[t] = tokens[t]
      <3>1. tokens[n] \in Token /\ n \in 1..Len(tokens)
        BY <1>1, <2>1, LenProperties
      <3>2. [tokens[n] EXCEPT !.live = FALSE] \in Token
        BY <3>1 DEF Token
      <3>3. tokens' = [tokens EXCEPT ![n] = [tokens[n] EXCEPT !.live = FALSE]]
        BY <2>1
      <3>4. [tokens[n] EXCEPT !.live = FALSE].live = FALSE
        BY <3>1 DEF Token
      <3> QED
        BY <1>1, <3>1, <3>2, <3>3, <3>4, ExceptSeq, LenProperties
    <2>6. UserTypes' /\ \A p \in Requests : Checked(admin[p])'
      <3>1. user' = user /\ user \in [Users -> UserRow]
        BY <1>1, <1>4 DEF UserInv, UserTypes, U!RevokeListed, U!RevokeToken
      <3>2. \A p \in Requests : admin[p].listed \subseteq DOMAIN tokens /\ Checked(admin[p])
        BY DEF UserInv, UserTypes
      <3>3. \A p \in Requests : admin'[p].listed \subseteq DOMAIN tokens'
        BY <2>2, <2>4, <2>5, <3>2
      <3>4. row.target \in Users /\ Checked(row)
        BY <2>1, <2>2, <3>2 DEF Checked
      <3> QED
        BY <2>4, <2>5, <3>1, <3>2, <3>3, <3>4 DEF UserTypes
    <2>7. ASSUME NEW t \in DOMAIN tokens, tokens'[t].live, ~U!Access(tokens'[t].owner)
          PROVE  Ending(t)'
      <3>1. t # n /\ tokens'[t] = tokens[t]
        BY <2>5, <2>7
      <3>2. Ending(t)
        BY <2>7, <3>1 DEF UserInv
      <3> QED
        BY <2>1, <2>2, <2>4, <3>1, <3>2 DEF Ending
    <2> QED
      BY <1>1, <2>5, <2>6, <2>7 DEF UserInv, U!Access
  <1> QED
    BY <1>2, <1>3, <1>4

\* A token that is inserted after its owner lost access straddles the loss.
LEMMA TokenTypes ==
    ASSUME UserInv, NEW q \in Requests, U!CreateApiToken(q) \/ U!StoreApiToken(q)
    PROVE  UserInv'
  <1>1. /\ user' = user /\ user \in [Users -> UserRow] /\ tokens \in Seq(Token)
        /\ admin \in [Requests -> RequestRow] /\ Checked(admin[q])
        /\ admin[q].at \notin {"list", "revoke"}
    BY DEF UserInv, UserTypes, U!CreateApiToken, U!StoreApiToken
  <1>2. CASE U!CreateApiToken(q)
    <2>1. PICK u \in Users : U!Go(q, [U!Idle EXCEPT !.at = "insert", !.target = u])
      BY <1>2 DEF U!CreateApiToken
    <2> DEFINE row == [U!Idle EXCEPT !.at = "insert", !.target = u]
    <2>2. row \in RequestRow /\ row.at = "insert" /\ row.target = u /\ row.listed = {}
      BY DEF U!Idle, RequestRow
    <2>3. U!Go(q, row) /\ tokens' = tokens
      BY <1>2, <2>1 DEF U!CreateApiToken
    <2> HIDE DEF row
    <2>4. /\ admin' \in [Requests -> RequestRow]
          /\ admin'[q] = row /\ \A p \in Requests \ {q} : admin'[p] = admin[p]
      BY <2>2, <2>3, UserStep
    <2>5. UserTypes' /\ \A p \in Requests : Checked(admin[p])'
      BY <1>1, <2>2, <2>3, <2>4 DEF UserInv, UserTypes, Checked
    <2>6. ASSUME NEW t \in DOMAIN tokens, Ending(t) PROVE Ending(t)'
      BY <1>1, <2>3, <2>4, <2>6 DEF Ending
    <2> QED
      BY <1>1, <2>3, <2>5, <2>6 DEF UserInv, U!Access
  <1>3. CASE U!StoreApiToken(q)
    <2> DEFINE token == [owner |-> admin[q].target, live |-> TRUE,
                         straddled |-> ~U!Access(admin[q].target)]
               row == U!Idle
    <2>1. token \in Token /\ tokens' = Append(tokens, token)
      <3>1. admin[q].target \in Users
        BY <1>1, <1>3 DEF U!StoreApiToken, Checked
      <3>2. U!Access(admin[q].target) \in BOOLEAN
        BY <1>1, <3>1 DEF U!Access, UserRow
      <3> QED
        BY <1>3, <3>1, <3>2 DEF Token, U!StoreApiToken, U!InsertToken
    <2>2. U!Go(q, row) /\ row \in RequestRow /\ row.at = "idle" /\ row.listed = {}
      BY <1>3, IdleUser DEF U!StoreApiToken, U!Answer, U!Idle
    <2>3. ~token.straddled => U!Access(token.owner)
      OBVIOUS
    <2> HIDE DEF row, token
    <2>4. /\ admin' \in [Requests -> RequestRow]
          /\ admin'[q] = row /\ \A p \in Requests \ {q} : admin'[p] = admin[p]
      BY <2>2, UserStep
    <2>5. /\ tokens' \in Seq(Token) /\ DOMAIN tokens' = 1..Len(tokens) + 1
          /\ DOMAIN tokens = 1..Len(tokens) /\ Len(tokens) \in Nat
          /\ tokens'[Len(tokens) + 1] = token
          /\ \A t \in DOMAIN tokens : tokens'[t] = tokens[t]
      BY <1>1, <2>1, AppendProperties, LenProperties
    <2>6. UserTypes' /\ \A p \in Requests : Checked(admin[p])'
      BY <1>1, <2>2, <2>4, <2>5 DEF UserInv, UserTypes, Checked
    <2>7. ASSUME NEW t \in DOMAIN tokens', tokens'[t].live, ~U!Access(tokens'[t].owner)
          PROVE  Ending(t)'
      <3>1. CASE t = Len(tokens) + 1
        BY <2>3, <2>5, <2>7, <3>1 DEF Ending
      <3>2. CASE t \in DOMAIN tokens
        <4>1. Ending(t)
          BY <2>5, <2>7, <3>2 DEF UserInv
        <4> QED
          BY <1>1, <2>4, <2>5, <3>2, <4>1 DEF Ending
      <3> QED
        BY <2>5, <3>1, <3>2
    <2> QED
      BY <1>1, <2>6, <2>7 DEF UserInv, U!Access
  <1> QED
    BY <1>2, <1>3

\* A new account, and a token that an administrator revokes.
LEMMA AccountTypes ==
    ASSUME UserInv, (\E u \in Users : U!CreateUser(u)) \/ U!RevokeApiToken
    PROVE  UserInv'
  <1>1. /\ admin' = admin /\ user \in [Users -> UserRow] /\ tokens \in Seq(Token)
        /\ DOMAIN tokens = 1..Len(tokens)
    BY LenProperties DEF UserInv, UserTypes, U!CreateUser, U!RevokeApiToken
  <1>2. ASSUME NEW u \in Users, U!CreateUser(u) PROVE UserInv'
    <2> DEFINE row == [role |-> "msp_operator", status |-> "active", api |-> FALSE]
    <2>1. row \in UserRow /\ row.api = FALSE
      BY DEF UserRow, Roles
    <2>2. user' = [user EXCEPT ![u] = row] /\ tokens' = tokens /\ user[u].status = "absent"
      BY <1>2 DEF U!CreateUser, U!InsertUser
    <2> HIDE DEF row
    <2>3. \A x \in Users : ~U!Access(x)' <=> ~U!Access(x)
      BY <1>1, <2>1, <2>2 DEF U!Access
    <2>4. UserTypes'
      BY <1>1, <2>1, <2>2 DEF UserInv, UserTypes
    <2>5. \A t \in DOMAIN tokens : tokens[t].owner \in Users
      <3>1. \A t \in DOMAIN tokens : tokens[t] \in Token
        BY <1>1, LenProperties
      <3> QED
        BY <3>1 DEF Token
    <2>6. \A t \in DOMAIN tokens : Ending(t) => Ending(t)'
      BY <1>1, <2>2 DEF Ending
    <2> QED
      BY <1>1, <2>2, <2>3, <2>4, <2>5, <2>6 DEF UserInv, Checked
  <1>3. CASE U!RevokeApiToken
    <2>1. PICK n \in DOMAIN tokens : tokens' = [tokens EXCEPT ![n].live = FALSE]
      BY <1>3 DEF U!RevokeApiToken, U!RevokeToken
    <2>2. user' = user
      BY <1>3 DEF U!RevokeApiToken
    <2>3. tokens[n] \in Token /\ n \in 1..Len(tokens)
      BY <1>1, LenProperties
    <2>4. /\ [tokens[n] EXCEPT !.live = FALSE] \in Token
          /\ [tokens[n] EXCEPT !.live = FALSE].live = FALSE
      BY <2>3 DEF Token
    <2>5. /\ tokens' \in Seq(Token) /\ DOMAIN tokens' = DOMAIN tokens
          /\ ~tokens'[n].live /\ \A t \in DOMAIN tokens \ {n} : tokens'[t] = tokens[t]
      BY <1>1, <2>1, <2>3, <2>4, ExceptSeq, LenProperties
    <2>6. UserTypes'
      BY <1>1, <2>2, <2>5 DEF UserInv, UserTypes
    <2>7. \A t \in DOMAIN tokens \ {n} : Ending(t) => Ending(t)'
      BY <1>1, <2>5 DEF Ending
    <2> QED
      BY <1>1, <2>2, <2>5, <2>6, <2>7 DEF UserInv, Checked, U!Access
  <1> QED
    BY <1>2, <1>3

LEMMA UserNext == UserInv /\ [U!Next]_(U!vars) => UserInv'
  <1> SUFFICES ASSUME UserInv, [U!Next]_(U!vars) PROVE UserInv'
    OBVIOUS
  <1>1. ASSUME NEW q \in Requests,
               \/ U!UpdateUser(q) \/ U!UpdateUserStatus(q) \/ U!ArchiveUser(q) \/ U!Store(q)
               \/ U!ListTokens(q) \/ U!RevokeListed(q)
               \/ U!CreateApiToken(q) \/ U!StoreApiToken(q)
        PROVE  UserInv'
    BY <1>1, ChangeTypes, StoreTypes, RevokeTypes, TokenTypes
  <1>2. CASE UNCHANGED U!vars
    <2>1. user' = user /\ tokens' = tokens /\ admin' = admin
      BY <1>2 DEF U!vars
    <2> QED
      BY <2>1 DEF UserInv, UserTypes, Checked, Ending, U!Access
  <1> QED
    BY <1>1, <1>2, AccountTypes DEF U!Next

\* The account that is stored is not the last administrator if the count still holds.
LEMMA LosingAdmins ==
    ASSUME UserInv, U!Next, U!Admins # {}, U!Admins' = {}
    PROVE  \E q \in Requests : admin[q].at = "store" /\ admin[q].counted # U!Admins
  <1>0. user \in [Users -> UserRow]
    BY DEF UserInv, UserTypes
  <1>1. PICK x \in Users : user[x].role = "platform_admin" /\ user[x].status = "active"
    BY DEF U!Admins
  <1>2. ~(user'[x].role = "platform_admin" /\ user'[x].status = "active")
    BY DEF U!Admins
  <1>3. ASSUME NEW u \in Users, U!CreateUser(u) PROVE FALSE
    BY <1>0, <1>1, <1>2, <1>3 DEF U!CreateUser, U!InsertUser
  <1>4. PICK q \in Requests : U!Store(q)
    BY <1>1, <1>2, <1>3 DEF U!Next, U!UpdateUser, U!UpdateUserStatus, U!ArchiveUser,
       U!ListTokens, U!RevokeListed, U!CreateApiToken, U!StoreApiToken, U!RevokeApiToken
  <1>5. SUFFICES ASSUME admin[q].counted = U!Admins PROVE FALSE
    BY <1>4 DEF U!Store
  <1> DEFINE u == admin[q].target
             value == admin[q].value
  <1>6. /\ u \in Users /\ value \in Values /\ admin[q].at = "store"
        /\ Demotes(value) => U!Admins # {u}
    BY <1>4, <1>5 DEF UserInv, Checked, U!Store
  <1>7. /\ \A y \in Users \ {u} : user'[y] = user[y]
        /\ ~Demotes(value) /\ user[u].role = "platform_admin" /\ user[u].status = "active" =>
              user'[u].role = "platform_admin" /\ user'[u].status = "active"
    <2>1. CASE "api" \in DOMAIN value
      <3>1. user' = [user EXCEPT ![u].role = value.role, ![u].api = value.api]
        BY <1>4, <2>1 DEF U!Store, U!WriteUser
      <3> HIDE DEF u, value
      <3>2. /\ \A y \in Users \ {u} : user'[y] = user[y]
            /\ user'[u].role = value.role /\ user'[u].status = user[u].status
        BY <1>0, <1>6, <3>1 DEF UserRow
      <3> QED
        BY <2>1, <3>2 DEF Demotes
    <2>2. CASE "api" \notin DOMAIN value
      <3>1. user' = [user EXCEPT ![u].status = value.status]
        BY <1>4, <2>2 DEF U!Store, U!WriteStatus
      <3> HIDE DEF u, value
      <3>2. /\ \A y \in Users \ {u} : user'[y] = user[y]
            /\ user'[u].role = user[u].role /\ user'[u].status = value.status
        BY <1>0, <1>6, <3>1 DEF UserRow
      <3> QED
        BY <2>2, <3>2 DEF Demotes
    <2> QED
      BY <2>1, <2>2
  <1> HIDE DEF u, value
  <1>8. U!Admins = {u}
    <2>1. \A y \in Users \ {u} : y \notin U!Admins
      BY <1>7 DEF U!Admins
    <2> QED
      BY <1>1, <2>1 DEF U!Admins
  <1>9. ~Demotes(value)
    BY <1>6, <1>8
  <1> QED
    BY <1>1, <1>2, <1>7, <1>8, <1>9 DEF U!Admins

\* Once a withdrawal of access has been answered no token of the account is left, but
\* for one that was checked before it (revoke_user_api_tokens, create_user_api_token).
THEOREM WithdrawalEndsTokens == U!Spec => []U!WithdrawalEndsTokens
  <1>1. U!Init => UserInv
    BY UserInit
  <1>2. UserInv /\ [U!Next]_(U!vars) => UserInv'
    BY UserNext
  <1>3. UserInv => U!WithdrawalEndsTokens
    BY DEF UserInv, Ending, U!WithdrawalEndsTokens
  <1> QED
    BY <1>1, <1>2, <1>3, PTL DEF U!Spec

----------------------------------------------------------------------------
(* Credentials *)

Steps == {"idle", "authenticated", "challenge", "issue", "factor", "accept", "recovery",
          "rejected", "enrollment", "proved", "revoke", "linkLocked", "bothLocked"}
Purposes == {"none", "verify", "enroll", "confirm", "regenerate", "disable", "change",
             "reset"}
Login == [at : Steps, for : Purposes, row : Nat, epoch : 0..MaxPasswords,
          secret : 0..MaxEnrollments, code : {0} \cup Counters]
Mfa == [status : {"none", "pending", "enabled"}, secret : 0..MaxEnrollments,
        last : {0} \cup Counters, codes : SUBSET (1..MaxCodes)]
Challenge == [purpose : {"verify", "enroll"}, live : BOOLEAN,
              attempts : 0..MaxAttempts, epoch : 0..MaxPasswords]
Session == [live : BOOLEAN, epoch : 0..MaxPasswords, challenge : 0..MaxChallenges,
            straddled : BOOLEAN]
Link == [state : {"live", "consumed", "invalidated", "expired"},
         recent : BOOLEAN, after : 0..MaxLinks]

FactorTypes == /\ required \in BOOLEAN /\ mfa \in Mfa /\ reused \in BOOLEAN
               /\ issued \in [secrets : 0..MaxEnrollments, codes : 0..MaxCodes]

RowTypes == /\ challenges \in Seq(Challenge) /\ Len(challenges) <= MaxChallenges
            /\ sessions \in Seq(Session)
            /\ links \in Seq(Link) /\ Len(links) <= MaxLinks
            /\ password \in 0..MaxPasswords

\* What a request has read of the rows that it names.
Names(row) ==
    /\ row.at = "authenticated" => row.row = 0
    /\ row.at = "challenge" => row.for \in {"verify", "enroll"}
    /\ row.at \in {"factor", "enrollment", "accept", "recovery", "rejected", "proved",
                  "issue"} => row.row \in {0} \cup DOMAIN challenges
    /\ row.at \in {"factor", "enrollment", "accept", "recovery", "rejected", "proved"}
       /\ row.for \in {"verify", "enroll"} => row.row # 0
    /\ row.at \in {"linkLocked", "bothLocked"} =>
          row.row \in DOMAIN links /\ links[row.row].state = "live"

\* The factor there is is the last one that was enrolled.  When it is enabled it has
\* spent no step but up to its last one, when it is pending none, and no enrolment spent
\* a step of a later one; a recovery code that is kept is not spent.
FactorsKept ==
    /\ ~reused
    /\ mfa.secret <= issued.secrets /\ mfa.codes \subseteq 1..issued.codes
    /\ mfa.status # "none" => mfa.secret = issued.secrets
    /\ \A use \in spent : use[2] \in 0..issued.secrets
    /\ \A use \in spent, s, k \in Nat : use[1] = <<s, "step", k>> =>
          /\ s <= use[2]
          /\ use[2] = mfa.secret => /\ mfa.status # "pending"
                                    /\ mfa.status = "enabled" => k <= mfa.last
    /\ \A use \in spent, n \in Nat : use[1] = <<0, "recovery", n>> =>
          n <= issued.codes /\ n \notin mfa.codes

\* A request has read no secret but of an enrolment that was begun.
SecretsKnown == \A q \in Requests : request[q].secret <= issued.secrets

\* A challenge that is used up has one session or one request that will open it.
Opens(q, c) == request[q].at = "issue" /\ request[q].row = c /\ c # 0
ChallengesKept ==
    /\ \A s \in DOMAIN sessions : sessions[s].challenge # 0 =>
          /\ sessions[s].challenge \in DOMAIN challenges
          /\ ~challenges[sessions[s].challenge].live
    /\ \A q \in Requests, c \in DOMAIN challenges : Opens(q, c) =>
          /\ ~challenges[c].live
          /\ \A s \in DOMAIN sessions : sessions[s].challenge # c
          /\ \A p \in Requests : Opens(p, c) => p = q
    /\ C!ChallengesOpenOneSession

\* Links that are live were created after the last one that was consumed.
LinksKept ==
    /\ \A l \in DOMAIN links :
          /\ links[l].state = "live" => links[l].after = Cardinality(C!ConsumedLinks)
          /\ links[l].state = "consumed" => links[l].after < Cardinality(C!ConsumedLinks)
    /\ C!OneLinkWins

CredInv == /\ FactorTypes /\ RowTypes
           /\ request \in [Requests -> Login] /\ \A q \in Requests : Names(request[q])
           /\ FactorsKept /\ ChallengesKept /\ LinksKept /\ C!SessionsFollowPassword

CredKept == CredInv /\ SecretsKnown

LEMMA Bounds ==
    /\ Counters \subseteq Nat \ {0} /\ \A k \in {0} \cup Counters : k \in Nat
    /\ MaxAttempts \in Nat /\ KeptChallenges \in Nat /\ LinkLimit \in Nat
    /\ MaxPasswords \in Nat /\ MaxEnrollments \in Nat /\ MaxCodes \in Nat
    /\ MaxChallenges \in Nat /\ MaxSessions \in Nat /\ MaxLinks \in Nat
  BY AccountsAssumption DEF C!CredentialsAssumption

LEMMA CredCardinality == \A S : C!Cardinality(S) = Cardinality(S)
  BY DEF C!Cardinality, Cardinality

LEMMA IdleRow == C!Idle \in Login /\ C!Idle.at = "idle" /\ C!Idle.row = 0
  BY Bounds DEF C!Idle, Login, Steps, Purposes

LEMMA IdleLogin ==
    /\ Names(C!Idle)
    /\ \A at \in Steps, for \in Purposes :
          /\ [C!Idle EXCEPT !.at = at, !.for = for] \in Login
          /\ [C!Idle EXCEPT !.at = at, !.for = for].at = at
          /\ [C!Idle EXCEPT !.at = at, !.for = for].for = for
          /\ [C!Idle EXCEPT !.at = at, !.for = for].row = 0
  <1>1. Names(C!Idle)
    BY DEF C!Idle, Names
  <1>2. ASSUME NEW at \in Steps, NEW for \in Purposes
        PROVE  /\ [C!Idle EXCEPT !.at = at, !.for = for] \in Login
               /\ [C!Idle EXCEPT !.at = at, !.for = for].at = at
               /\ [C!Idle EXCEPT !.at = at, !.for = for].for = for
               /\ [C!Idle EXCEPT !.at = at, !.for = for].row = 0
    BY IdleRow DEF Login
  <1> QED
    BY <1>1, <1>2

LEMMA MovedLogin ==
    ASSUME NEW row \in Login, NEW at \in Steps
    PROVE  LET next == [row EXCEPT !.at = at]
           IN  /\ next \in Login /\ next.at = at /\ next.for = row.for /\ next.row = row.row
               /\ next.epoch = row.epoch /\ next.code = row.code
  BY DEF Login

LEMMA CredInit == C!Init => CredKept
  <1> SUFFICES ASSUME C!Init PROVE CredInv
    <2>1. ASSUME C!Init PROVE SecretsKnown
      BY <2>1 DEF C!Init, C!Idle, SecretsKnown
    <2> QED
      BY <2>1 DEF CredKept
  <1>1. FactorTypes /\ RowTypes
    <2>1. /\ 0 \in 0..MaxPasswords /\ 0 \in 0..MaxEnrollments /\ 0 \in 0..MaxCodes
          /\ 0 <= MaxChallenges /\ 0 <= MaxLinks
      BY Bounds
    <2>2. C!NoMfa \in Mfa
      BY <2>1 DEF C!NoMfa, Mfa
    <2>3. FactorTypes
      BY <2>1, <2>2 DEF C!Init, FactorTypes
    <2>4. RowTypes
      BY <2>1, EmptySeq DEF C!Init, RowTypes
    <2> QED
      BY <2>3, <2>4
  <1>2. request \in [Requests -> Login] /\ \A q \in Requests : Names(request[q])
    BY IdleRow, IdleLogin DEF C!Init
  <1>3. FactorsKept
    BY DEF C!Init, C!NoMfa, FactorsKept
  <1>4. ChallengesKept /\ C!SessionsFollowPassword
    BY DEF C!Init, ChallengesKept, C!ChallengesOpenOneSession, C!SessionsFollowPassword
  <1>5. LinksKept
    BY DEF C!Init, LinksKept, C!OneLinkWins, C!ConsumedLinks
  <1> QED
    BY <1>1, <1>2, <1>3, <1>4, <1>5 DEF CredInv

\* Challenges and sessions that there are may end and do not begin again.
Closes == /\ DOMAIN challenges \subseteq DOMAIN challenges'
          /\ \A c \in DOMAIN challenges : challenges'[c].live => challenges[c].live

Ends == /\ DOMAIN sessions' = DOMAIN sessions
        /\ \A s \in DOMAIN sessions :
              /\ sessions'[s].live => sessions[s].live
              /\ sessions'[s].challenge = sessions[s].challenge
              /\ sessions'[s].epoch = sessions[s].epoch
              /\ sessions'[s].straddled = sessions[s].straddled

Revokes(q) == request[q].at = "revoke" /\ request[q].for = "change"

LEMMA NamesStay ==
    ASSUME CredInv, Closes, links' = links, NEW row, Names(row)
    PROVE  Names(row)'
  BY DEF Names, Closes

LEMMA ChallengesStay ==
    ASSUME CredInv, Closes, Ends,
           \A q \in Requests, c \in DOMAIN challenges' : Opens(q, c)' =>
              \/ Opens(q, c)
              \/ /\ c \in DOMAIN challenges /\ challenges[c].live /\ ~challenges'[c].live
                 /\ \A p \in Requests : Opens(p, c)' => p = q \/ Opens(p, c)
    PROVE  ChallengesKept'
  <1>1. /\ ChallengesKept
        /\ \A q \in Requests : \A c : Opens(q, c) => c \in DOMAIN challenges
    BY DEF CredInv, Names, Opens
  <1>2. \A s \in DOMAIN sessions' : sessions'[s].challenge # 0 =>
           /\ sessions'[s].challenge \in DOMAIN challenges'
           /\ ~challenges'[sessions'[s].challenge].live
    BY <1>1 DEF ChallengesKept, Closes, Ends
  <1>3. ASSUME NEW q \in Requests, NEW c \in DOMAIN challenges', Opens(q, c)'
        PROVE  /\ ~challenges'[c].live
               /\ \A s \in DOMAIN sessions' : sessions'[s].challenge # c
               /\ \A p \in Requests : Opens(p, c)' => p = q
    <2>1. CASE Opens(q, c)
      <3>1. /\ c \in DOMAIN challenges /\ ~challenges[c].live
            /\ \A s \in DOMAIN sessions : sessions[s].challenge # c
            /\ \A p \in Requests : Opens(p, c) => p = q
        BY <1>1, <2>1 DEF ChallengesKept
      <3>2. \A p \in Requests : Opens(p, c)' => Opens(p, c)
        BY <1>3, <3>1
      <3> QED
        BY <3>1, <3>2 DEF Closes, Ends
    <2>2. CASE ~Opens(q, c)
      <3>1. /\ c \in DOMAIN challenges /\ challenges[c].live /\ ~challenges'[c].live
            /\ \A p \in Requests : Opens(p, c)' => p = q \/ Opens(p, c)
        BY <1>3, <2>2
      <3>2. \A p \in Requests : ~Opens(p, c)
        BY <1>1, <3>1 DEF ChallengesKept
      <3>3. c # 0
        BY <1>3 DEF Opens
      <3>4. \A s \in DOMAIN sessions : sessions[s].challenge # c
        BY <1>1, <3>1, <3>3 DEF ChallengesKept
      <3> QED
        BY <3>1, <3>2, <3>4 DEF Ends
    <2> QED
      BY <2>1, <2>2
  <1>4. C!ChallengesOpenOneSession'
    BY <1>1 DEF ChallengesKept, C!ChallengesOpenOneSession, Ends
  <1> QED
    BY <1>2, <1>3, <1>4 DEF ChallengesKept

LEMMA LinksStay ==
    ASSUME CredInv, links' = links PROVE LinksKept'
  BY DEF CredInv, LinksKept, C!ConsumedLinks, C!OneLinkWins

LEMMA FactorsStay ==
    ASSUME CredInv, UNCHANGED C!factors PROVE FactorTypes' /\ FactorsKept'
  BY DEF CredInv, FactorTypes, FactorsKept, C!factors

LEMMA SessionsStay ==
    ASSUME CredInv, Ends, password' = password,
           \A q \in Requests : Revokes(q) => Revokes(q)'
    PROVE  C!SessionsFollowPassword'
  <1> SUFFICES ASSUME NEW s \in DOMAIN sessions', sessions'[s].live,
                      sessions'[s].epoch # password', ~sessions'[s].straddled
               PROVE  \E q \in Requests : Revokes(q)'
    BY DEF C!SessionsFollowPassword, C!At, Revokes
  <1>1. \E q \in Requests : Revokes(q)
    BY DEF Ends, CredInv, C!SessionsFollowPassword, C!At, Revokes
  <1> QED
    BY <1>1

LEMMA RequestStep ==
    ASSUME CredInv, NEW q \in Requests, NEW row \in Login, C!Go(q, row)
    PROVE  /\ request' \in [Requests -> Login]
           /\ request'[q] = row /\ \A p \in Requests \ {q} : request'[p] = request[p]
  BY DEF CredInv, C!Go

\* A step of one request that changes none of the rows.
LEMMA LookingStep ==
    ASSUME CredInv, NEW q \in Requests, NEW row \in Login, C!Go(q, row), Names(row),
           row.at = "issue" => row.row = 0, request[q].at # "revoke",
           FactorTypes', FactorsKept',
           UNCHANGED <<password, challenges, sessions, links>>
    PROVE  CredInv'
  <1>1. /\ request' \in [Requests -> Login]
        /\ request'[q] = row /\ \A p \in Requests \ {q} : request'[p] = request[p]
    BY RequestStep
  <1>2. Closes /\ Ends
    BY DEF Closes, Ends
  <1>3. \A p \in Requests : Names(request[p])'
    BY <1>1 DEF CredInv, Names
  <1>4. ChallengesKept'
    <2>1. \A p \in Requests, c \in DOMAIN challenges' : Opens(p, c)' => Opens(p, c)
      BY <1>1 DEF Opens
    <2> QED
      BY <1>2, <2>1, ChallengesStay
  <1>5. C!SessionsFollowPassword'
    <2>1. \A p \in Requests : Revokes(p) => Revokes(p)'
      BY <1>1 DEF Revokes
    <2> QED
      BY <1>2, <2>1, SessionsStay
  <1>6. LinksKept'
    BY LinksStay
  <1>7. RowTypes'
    BY DEF CredInv, RowTypes
  <1> QED
    BY <1>1, <1>3, <1>4, <1>5, <1>6, <1>7 DEF CredInv

\* Sign-ins and what a signed-in user begins: a request reads and remembers.
LEMMA LookingKeeps ==
    ASSUME CredInv, NEW q \in Requests,
           \/ C!Authenticate(q) \/ C!ChooseFactor(q) \/ C!AnswerChallenge(q)
           \/ C!ConfirmEnrollment(q) \/ C!ReadFactor(q) \/ C!RegenerateCodes(q)
           \/ C!DisableMyMfa(q) \/ C!ChangeMyPassword(q) \/ C!ResetUserMfa(q)
           \/ C!LockLink(q) \/ C!LockCredential(q) \/ C!DeadlockVictim(q)
    PROVE  CredInv'
  <1>1. /\ UNCHANGED <<password, C!factors, challenges, sessions, links>>
        /\ request[q].at # "revoke"
    <2>1. UNCHANGED <<password, C!factors, challenges, sessions, links>>
      BY DEF C!Authenticate, C!ChooseFactor, C!AnswerChallenge, C!ConfirmEnrollment,
         C!ReadFactor, C!RegenerateCodes, C!DisableMyMfa, C!ChangeMyPassword,
         C!ResetUserMfa, C!LockLink, C!LockCredential, C!DeadlockVictim
    <2>2. CASE C!DeadlockVictim(q)
      BY <2>1, <2>2 DEF C!DeadlockVictim
    <2>3. CASE ~C!DeadlockVictim(q)
      BY <2>1, <2>3 DEF C!Authenticate, C!ChooseFactor, C!AnswerChallenge,
         C!ConfirmEnrollment, C!ReadFactor, C!RegenerateCodes, C!DisableMyMfa,
         C!ChangeMyPassword, C!ResetUserMfa, C!LockLink, C!LockCredential, C!At
    <2> QED
      BY <2>2, <2>3
  <1>2. /\ request[q] \in Login /\ Names(request[q]) /\ FactorTypes /\ RowTypes
        /\ DOMAIN challenges = 1..Len(challenges) /\ DOMAIN links = 1..Len(links)
    BY LenProperties DEF CredInv, RowTypes
  <1>3. FactorTypes' /\ FactorsKept'
    BY <1>1, FactorsStay
  <1> SUFFICES \E row \in Login : /\ C!Go(q, row) /\ Names(row)
                                  /\ row.at = "issue" => row.row = 0
    BY <1>1, <1>3, LookingStep
  <1>4. CASE C!Authenticate(q)
    <2> DEFINE row == [C!Idle EXCEPT !.at = "authenticated", !.epoch = password]
    <2>1. row \in Login /\ row.at = "authenticated" /\ row.row = 0
      BY <1>2, IdleRow DEF Login, Steps, RowTypes
    <2>2. C!Go(q, row)
      BY <1>4 DEF C!Authenticate
    <2> HIDE DEF row
    <2>3. Names(row)
      BY <2>1 DEF Names
    <2> QED
      BY <2>1, <2>2, <2>3
  <1>5. CASE C!ChooseFactor(q)
    <2>1. request[q].at = "authenticated" /\ request[q].row = 0
      BY <1>2, <1>5 DEF C!ChooseFactor, C!At, Names
    <2>2. \/ C!Move(q, "issue")
          \/ \E for \in {"verify", "enroll"} :
                C!Go(q, [request[q] EXCEPT !.at = "challenge", !.for = for])
      BY <1>5 DEF C!ChooseFactor
    <2>3. CASE C!Move(q, "issue")
      <3> DEFINE row == [request[q] EXCEPT !.at = "issue"]
      <3>1. row \in Login /\ row.at = "issue" /\ row.row = 0
        BY <1>2, <2>1 DEF Login, Steps
      <3>2. C!Go(q, row)
        BY <2>3 DEF C!Move
      <3> HIDE DEF row
      <3>3. Names(row)
        BY <3>1 DEF Names
      <3> QED
        BY <3>1, <3>2, <3>3
    <2>4. ASSUME NEW for \in {"verify", "enroll"},
                 C!Go(q, [request[q] EXCEPT !.at = "challenge", !.for = for])
          PROVE  \E row \in Login : /\ C!Go(q, row) /\ Names(row)
                                    /\ row.at = "issue" => row.row = 0
      <3> DEFINE row == [request[q] EXCEPT !.at = "challenge", !.for = for]
      <3>1. row \in Login /\ row.at = "challenge" /\ row.for = for
        BY <1>2 DEF Login, Steps, Purposes
      <3>2. C!Go(q, row)
        BY <2>4
      <3> HIDE DEF row
      <3>3. Names(row)
        BY <3>1 DEF Names
      <3> QED
        BY <3>1, <3>2, <3>3
    <2> QED
      BY <2>2, <2>3, <2>4
  <1>6. CASE C!AnswerChallenge(q)
    <2>1. PICK c \in DOMAIN challenges :
             C!Go(q, [at |-> IF challenges[c].purpose = "verify" THEN "factor"
                             ELSE "enrollment",
                      for |-> challenges[c].purpose, row |-> c,
                      epoch |-> challenges[c].epoch,
                      secret |-> IF challenges[c].purpose = "verify" THEN 0 ELSE mfa.secret,
                      code |-> 0])
      BY <1>6 DEF C!AnswerChallenge
    <2>2. /\ challenges[c].purpose \in {"verify", "enroll"}
          /\ challenges[c].epoch \in 0..MaxPasswords
          /\ mfa.secret \in 0..MaxEnrollments /\ c \in Nat \ {0}
      <3>1. challenges[c] \in Challenge /\ c \in Nat \ {0}
        BY <1>2, LenProperties DEF RowTypes
      <3> QED
        BY <1>2, <3>1 DEF Challenge, FactorTypes, Mfa
    <2> DEFINE row == [at |-> IF challenges[c].purpose = "verify" THEN "factor"
                              ELSE "enrollment",
                       for |-> challenges[c].purpose, row |-> c,
                       epoch |-> challenges[c].epoch,
                       secret |-> IF challenges[c].purpose = "verify" THEN 0
                                  ELSE mfa.secret,
                       code |-> 0]
    <2>3. row \in Login /\ row.at \in {"factor", "enrollment"} /\ row.row = c
      BY <2>2, Bounds DEF Login, Steps, Purposes
    <2>4. C!Go(q, row)
      BY <2>1
    <2> HIDE DEF row
    <2>5. Names(row)
      BY <2>2, <2>3 DEF Names
    <2> QED
      BY <2>3, <2>4, <2>5
  <1>7. CASE C!ConfirmEnrollment(q)
    <2> DEFINE row == [C!Idle EXCEPT !.at = "enrollment", !.for = "confirm",
                                     !.secret = mfa.secret]
    <2>1. mfa.secret \in 0..MaxEnrollments
      BY <1>2 DEF FactorTypes, Mfa
    <2>2. row \in Login /\ row.at = "enrollment" /\ row.for = "confirm" /\ row.row = 0
      BY <2>1, IdleRow DEF Login, Steps, Purposes
    <2>3. C!Go(q, row)
      BY <1>7 DEF C!ConfirmEnrollment
    <2> HIDE DEF row
    <2>4. Names(row)
      BY <2>2 DEF Names
    <2> QED
      BY <2>2, <2>3, <2>4
  <1>8. CASE C!ReadFactor(q)
    <2>1. /\ request[q].at = "factor" /\ mfa.secret \in 0..MaxEnrollments
          /\ \/ C!Go(q, [request[q] EXCEPT !.at = "recovery"])
             \/ \E k \in Counters :
                   C!Go(q, [request[q] EXCEPT !.at = "accept", !.secret = mfa.secret,
                                              !.code = k])
      BY <1>2, <1>8 DEF C!ReadFactor, C!Move, C!At, FactorTypes, Mfa
    <2>2. ASSUME C!Go(q, [request[q] EXCEPT !.at = "recovery"])
          PROVE  \E row \in Login : /\ C!Go(q, row) /\ Names(row)
                                    /\ row.at = "issue" => row.row = 0
      <3> DEFINE row == [request[q] EXCEPT !.at = "recovery"]
      <3>1. /\ row \in Login /\ row.at = "recovery" /\ row.for = request[q].for
            /\ row.row = request[q].row
        BY <1>2 DEF Login, Steps
      <3>2. C!Go(q, row)
        BY <2>2
      <3> HIDE DEF row
      <3>3. Names(row)
        BY <1>2, <2>1, <3>1 DEF Names
      <3> QED
        BY <3>1, <3>2, <3>3
    <2>3. ASSUME NEW k \in Counters,
                 C!Go(q, [request[q] EXCEPT !.at = "accept", !.secret = mfa.secret, !.code = k])
          PROVE  \E row \in Login : /\ C!Go(q, row) /\ Names(row)
                                    /\ row.at = "issue" => row.row = 0
      <3> DEFINE row == [request[q] EXCEPT !.at = "accept", !.secret = mfa.secret, !.code = k]
      <3>1. /\ row \in Login /\ row.at = "accept" /\ row.for = request[q].for
            /\ row.row = request[q].row
        BY <1>2, <2>1 DEF Login, Steps
      <3>2. C!Go(q, row)
        BY <2>3
      <3> HIDE DEF row
      <3>3. Names(row)
        BY <1>2, <2>1, <3>1 DEF Names
      <3> QED
        BY <3>1, <3>2, <3>3
    <2> QED
      BY <2>1, <2>2, <2>3
  <1>9. CASE \/ C!RegenerateCodes(q) \/ C!DisableMyMfa(q) \/ C!ChangeMyPassword(q)
             \/ C!ResetUserMfa(q)
    <2>1. PICK at \in {"factor", "proved"}, for \in {"regenerate", "disable", "change"} :
             C!Go(q, [C!Idle EXCEPT !.at = at, !.for = for])
      <3>1. CASE C!RegenerateCodes(q)
        BY <3>1 DEF C!RegenerateCodes
      <3>2. CASE C!DisableMyMfa(q)
        BY <3>2 DEF C!DisableMyMfa
      <3>3. CASE C!ChangeMyPassword(q)
        BY <3>3 DEF C!ChangeMyPassword
      <3>4. CASE C!ResetUserMfa(q)
        BY <3>4 DEF C!ResetUserMfa
      <3> QED
        BY <1>9, <3>1, <3>2, <3>3, <3>4
    <2> DEFINE row == [C!Idle EXCEPT !.at = at, !.for = for]
    <2>2. row \in Login /\ row.at = at /\ row.for = for /\ row.row = 0
      BY IdleRow DEF Login, Steps, Purposes
    <2> HIDE DEF row
    <2>3. Names(row)
      BY <2>2 DEF Names
    <2> QED
      BY <2>1, <2>2, <2>3 DEF row
  <1>10. CASE C!LockLink(q)
    <2>1. PICK l \in DOMAIN links :
             /\ links[l].state = "live"
             /\ C!Go(q, [C!Idle EXCEPT !.at = "linkLocked", !.for = "reset", !.row = l])
      BY <1>10 DEF C!LockLink
    <2> DEFINE row == [C!Idle EXCEPT !.at = "linkLocked", !.for = "reset", !.row = l]
    <2>2. row \in Login /\ row.at = "linkLocked" /\ row.row = l
      <3>1. l \in Nat
        BY <1>2, LenProperties DEF RowTypes
      <3> QED
        BY <3>1, IdleRow DEF Login, Steps, Purposes
    <2>3. C!Go(q, row)
      BY <2>1
    <2> HIDE DEF row
    <2>4. Names(row)
      BY <2>1, <2>2 DEF Names
    <2> QED
      BY <2>2, <2>3, <2>4
  <1>11. CASE C!LockCredential(q)
    <2> DEFINE row == [request[q] EXCEPT !.at = "bothLocked"]
    <2>1. row \in Login /\ row.at = "bothLocked" /\ row.row = request[q].row
      BY <1>2 DEF Login, Steps
    <2>2. C!Go(q, row) /\ request[q].at = "linkLocked"
      BY <1>11 DEF C!LockCredential, C!Move, C!At
    <2> HIDE DEF row
    <2>3. Names(row)
      BY <1>2, <2>1, <2>2 DEF Names
    <2> QED
      BY <2>1, <2>2, <2>3
  <1>12. CASE C!DeadlockVictim(q)
    BY <1>12, IdleRow, IdleLogin DEF C!DeadlockVictim, C!Answer
  <1> QED
    BY <1>4, <1>5, <1>6, <1>7, <1>8, <1>9, <1>10, <1>11, <1>12

LEMMA StandingFactor ==
    ASSUME FactorTypes, FactorsKept, mfa.status \in {"pending", "enabled"}
    PROVE  /\ mfa.secret = issued.secrets /\ mfa.secret \in Nat /\ mfa.last \in Nat
           /\ issued.codes \in Nat
  <1>1. mfa.secret = issued.secrets
    BY DEF FactorsKept
  <1>2. /\ mfa.secret \in 0..MaxEnrollments /\ mfa.last \in {0} \cup Counters
        /\ issued.codes \in 0..MaxCodes
    BY DEF FactorTypes, Mfa
  <1>3. mfa.last \in Nat
    BY <1>2, Bounds
  <1>4. mfa.secret \in Nat /\ issued.codes \in Nat
    BY <1>2, Bounds
  <1> QED
    BY <1>1, <1>3, <1>4

\* A step is new to the enrolment that spends it, and new altogether if that is the one
\* whose secret was read: no enrolment before it spent a step of a later secret.
LEMMA StepIsNew ==
    ASSUME FactorTypes, FactorsKept, NEW s \in Nat, NEW k \in Nat, C!SpendStep(s, k),
           mfa.status = "pending" \/ (mfa.status = "enabled" /\ mfa.last < k)
    PROVE  ~reused'
  <1>1. /\ mfa.secret = issued.secrets /\ mfa.secret \in Nat /\ mfa.last \in Nat
    BY StandingFactor
  <1>2. ASSUME NEW use \in spent, use[1] = <<s, "step", k>>, s = mfa.secret \/ use[2] = mfa.secret
        PROVE  FALSE
    <2>1. s <= use[2] /\ use[2] \in Nat /\ use[2] <= issued.secrets
      BY <1>1, <1>2 DEF FactorsKept
    <2>2. use[2] = mfa.secret
      BY <1>1, <1>2, <2>1
    <2> QED
      BY <1>1, <1>2, <2>2 DEF FactorsKept
  <1> QED
    BY <1>2 DEF C!SpendStep, C!Spend, FactorsKept

\* The steps that are spent keep to FactorsKept when the factor that spends one has it
\* as its last.
LEMMA StepsKept ==
    ASSUME FactorTypes, FactorsKept, NEW s \in Nat, NEW k \in Nat, C!SpendStep(s, k),
           s <= mfa.secret, issued'.secrets = issued.secrets, mfa'.secret = mfa.secret,
           mfa'.status = "enabled", mfa'.last = k, issued'.codes \in Nat,
           issued.codes <= issued'.codes,
           \A n \in mfa'.codes : n \in mfa.codes \/ n > issued.codes,
           mfa'.codes \subseteq 1..issued'.codes,
           mfa.status = "pending" \/ (mfa.status = "enabled" /\ mfa.last < k)
    PROVE  FactorsKept'
  <1>1. /\ mfa.secret = issued.secrets /\ mfa.secret \in Nat /\ mfa.last \in Nat
        /\ issued.codes \in Nat
    BY StandingFactor
  <1>2. spent' = spent \cup {<<<<s, "step", k>>, mfa.secret>>}
    BY DEF C!SpendStep, C!Spend
  <1>3. ~reused'
    BY StepIsNew
  <1>4. \A use \in spent' : use[2] \in 0..issued'.secrets
    BY <1>1, <1>2 DEF FactorsKept
  <1>5. ASSUME NEW use \in spent', NEW r \in Nat, NEW j \in Nat, use[1] = <<r, "step", j>>
        PROVE  r <= use[2] /\ (use[2] = mfa'.secret => j <= mfa'.last)
    <2>1. CASE use = <<<<s, "step", k>>, mfa.secret>>
      BY <1>5, <2>1
    <2>2. CASE use \in spent
      BY <1>1, <1>5, <2>2 DEF FactorsKept
    <2> QED
      BY <1>2, <2>1, <2>2
  <1>6. ASSUME NEW use \in spent', NEW n \in Nat, use[1] = <<0, "recovery", n>>
        PROVE  n <= issued'.codes /\ n \notin mfa'.codes
    <2>1. use \in spent
      BY <1>2, <1>6
    <2> QED
      BY <1>1, <1>6, <2>1 DEF FactorsKept
  <1> QED
    BY <1>1, <1>3, <1>4, <1>5, <1>6 DEF FactorsKept

LEMMA EnableFactors ==
    ASSUME CredInv, NEW s \in Nat, s <= issued.secrets, NEW k \in Counters, C!CanEnable,
           C!EnableMfa(s, k), required' = required
    PROVE  FactorTypes' /\ FactorsKept'
  <1>1. /\ FactorTypes /\ FactorsKept /\ mfa.status = "pending" /\ k \in Nat
        /\ mfa.secret \in Nat /\ issued.codes \in Nat /\ issued.codes + 1 \in 1..MaxCodes
        /\ issued.secrets \in Nat /\ mfa.secret = issued.secrets
    BY Bounds DEF CredInv, FactorTypes, FactorsKept, Mfa, C!CanEnable, C!EnableMfa, C!NewCodes
  <1>2. /\ issued' = [issued EXCEPT !.codes = issued.codes + 1]
        /\ mfa' = [mfa EXCEPT !.status = "enabled", !.last = k, !.codes = {issued.codes + 1}]
        /\ C!SpendStep(s, k)
    BY DEF C!EnableMfa, C!NewCodes
  <1>3. /\ mfa' \in Mfa /\ mfa'.secret = mfa.secret /\ mfa'.status = "enabled"
        /\ mfa'.last = k /\ mfa'.codes = {issued.codes + 1}
    BY <1>1, <1>2 DEF FactorTypes, Mfa
  <1>4. /\ issued' \in [secrets : 0..MaxEnrollments, codes : 0..MaxCodes]
        /\ issued'.secrets = issued.secrets /\ issued'.codes = issued.codes + 1
    BY <1>1, <1>2, Bounds DEF FactorTypes
  <1>5. FactorTypes'
    BY <1>1, <1>2, <1>3, <1>4 DEF FactorTypes, C!SpendStep, C!Spend
  <1>6. /\ s <= mfa.secret /\ issued'.codes \in Nat /\ issued.codes <= issued'.codes
        /\ \A n \in mfa'.codes : n \in mfa.codes \/ n > issued.codes
        /\ mfa'.codes \subseteq 1..issued'.codes
    BY <1>1, <1>3, <1>4
  <1> QED
    BY <1>1, <1>2, <1>3, <1>4, <1>5, <1>6, StepsKept

LEMMA AcceptFactors ==
    ASSUME CredInv, NEW s \in Nat, s <= issued.secrets, NEW k \in Nat, k \in {0} \cup Counters,
           C!CanAccept(k), C!AcceptCounter(s, k), required' = required, issued' = issued
    PROVE  FactorTypes' /\ FactorsKept'
  <1>1. /\ FactorTypes /\ FactorsKept /\ mfa.status = "enabled" /\ mfa.last < k
        /\ mfa.secret = issued.secrets /\ issued.codes \in Nat
        /\ mfa.codes \subseteq 1..issued.codes
    BY Bounds DEF CredInv, C!CanAccept, FactorTypes, FactorsKept
  <1>2. mfa' = [mfa EXCEPT !.last = k] /\ C!SpendStep(s, k)
    BY DEF C!AcceptCounter
  <1>3. /\ mfa' \in Mfa /\ mfa'.secret = mfa.secret /\ mfa'.status = "enabled"
        /\ mfa'.last = k /\ mfa'.codes = mfa.codes
    BY <1>1, <1>2 DEF FactorTypes, Mfa
  <1>4. FactorTypes'
    BY <1>1, <1>2, <1>3 DEF FactorTypes, C!SpendStep, C!Spend
  <1>5. /\ s <= mfa.secret /\ issued.codes <= issued'.codes /\ issued'.codes \in Nat
        /\ \A n \in mfa'.codes : n \in mfa.codes \/ n > issued.codes
        /\ mfa'.codes \subseteq 1..issued'.codes
    BY <1>1, <1>3
  <1> QED
    BY <1>1, <1>2, <1>3, <1>4, <1>5, StepsKept

LEMMA RecoveryFactors ==
    ASSUME CredInv, NEW n \in mfa.codes, C!ConsumeRecoveryCode(n),
           required' = required, issued' = issued
    PROVE  FactorTypes' /\ FactorsKept'
  <1>1. /\ FactorTypes /\ FactorsKept /\ n \in Nat /\ n <= issued.codes
        /\ mfa.secret \in Nat /\ issued.secrets \in Nat /\ mfa.secret <= issued.secrets
    <2>1. /\ FactorTypes /\ FactorsKept /\ n \in 1..issued.codes /\ issued.codes \in Nat
          /\ mfa.secret \in Nat /\ issued.secrets \in Nat /\ mfa.secret <= issued.secrets
      BY Bounds DEF CredInv, FactorTypes, FactorsKept, Mfa
    <2> QED
      BY <2>1
  <1> DEFINE code == <<0, "recovery", n>>
  <1>2. /\ mfa' = [mfa EXCEPT !.codes = mfa.codes \ {n}]
        /\ spent' = spent \cup {<<code, mfa.secret>>}
        /\ reused' = (reused \/ \E use \in spent : use[1] = code)
    BY DEF C!ConsumeRecoveryCode, C!Spend
  <1>3. /\ mfa' \in Mfa /\ mfa'.secret = mfa.secret /\ mfa'.status = mfa.status
        /\ mfa'.last = mfa.last /\ mfa'.codes = mfa.codes \ {n}
    BY <1>1, <1>2 DEF FactorTypes, Mfa
  <1>4. ~reused' /\ reused' \in BOOLEAN
    BY <1>1, <1>2 DEF FactorsKept
  <1>5. \A use \in spent' : use[2] \in 0..issued'.secrets
    BY <1>1, <1>2 DEF FactorsKept
  <1>6. ASSUME NEW use \in spent', NEW s \in Nat, NEW j \in Nat, use[1] = <<s, "step", j>>
        PROVE  use \in spent
    BY <1>2, <1>6
  <1>7. ASSUME NEW use \in spent', NEW m \in Nat, use[1] = <<0, "recovery", m>>
        PROVE  m <= issued.codes /\ m \notin mfa'.codes
    <2>1. CASE use[1] = code
      BY <1>1, <1>3, <1>7, <2>1
    <2>2. CASE use \in spent
      BY <1>1, <1>3, <1>7, <2>2 DEF FactorsKept
    <2> QED
      BY <1>2, <2>1, <2>2
  <1> QED
    BY <1>1, <1>2, <1>3, <1>4, <1>5, <1>6, <1>7 DEF FactorTypes, FactorsKept

\* A new secret, new codes or no factor at all.
LEMMA ReplacedFactors ==
    ASSUME CredInv, UNCHANGED <<required, spent, reused>>,
           \/ C!SaveEnrollment
           \/ C!ReplaceRecoveryCodes
           \/ C!DisableMfa /\ issued' = issued
    PROVE  FactorTypes' /\ FactorsKept'
  <1>1. /\ FactorTypes /\ FactorsKept /\ issued.secrets \in Nat /\ issued.codes \in Nat
        /\ mfa.secret \in Nat
    BY Bounds DEF CredInv, FactorTypes, Mfa
  <1>2. CASE C!SaveEnrollment
    <2>1. /\ issued' \in [secrets : 0..MaxEnrollments, codes : 0..MaxCodes]
          /\ issued'.secrets = issued.secrets + 1 /\ issued'.codes = issued.codes
      BY <1>1, <1>2, Bounds DEF FactorTypes, C!SaveEnrollment
    <2>2. mfa' = [status |-> "pending", secret |-> issued.secrets + 1, last |-> 0,
                  codes |-> {}]
      BY <1>2 DEF C!SaveEnrollment
    <2>3. /\ mfa' \in Mfa /\ mfa'.secret = issued.secrets + 1 /\ mfa'.codes = {}
          /\ mfa'.status = "pending"
      BY <1>1, <1>2, <2>2, Bounds DEF Mfa, C!SaveEnrollment, FactorTypes
    <2> QED
      BY <1>1, <2>1, <2>3 DEF FactorTypes, FactorsKept
  <1>3. CASE C!ReplaceRecoveryCodes
    <2>1. CASE mfa.status = "enabled"
      <3>1. /\ issued' \in [secrets : 0..MaxEnrollments, codes : 0..MaxCodes]
            /\ issued'.secrets = issued.secrets /\ issued'.codes = issued.codes + 1
            /\ issued.codes + 1 \in 1..MaxCodes
        BY <1>1, <1>3, <2>1, Bounds DEF FactorTypes, C!ReplaceRecoveryCodes, C!NewCodes
      <3>2. mfa' = [mfa EXCEPT !.codes = {issued.codes + 1}]
        BY <1>3, <2>1 DEF C!ReplaceRecoveryCodes
      <3>3. /\ mfa' \in Mfa /\ mfa'.secret = mfa.secret /\ mfa'.status = mfa.status
            /\ mfa'.last = mfa.last /\ mfa'.codes = {issued.codes + 1}
        BY <1>1, <3>1, <3>2 DEF FactorTypes, Mfa
      <3> QED
        BY <1>1, <3>1, <3>3 DEF FactorTypes, FactorsKept
    <2>2. CASE mfa.status # "enabled"
      BY <1>1, <1>3, <2>2 DEF C!ReplaceRecoveryCodes, FactorTypes, FactorsKept
    <2> QED
      BY <2>1, <2>2
  <1>4. CASE C!DisableMfa /\ issued' = issued
    <2>1. /\ mfa' \in Mfa /\ mfa'.secret = 0 /\ mfa'.status = "none"
          /\ mfa'.codes = mfa.codes
      BY <1>1, <1>4, Bounds DEF C!DisableMfa, C!NoMfa, Mfa, FactorTypes
    <2> QED
      BY <1>1, <1>4, <2>1 DEF FactorTypes, FactorsKept
  <1> QED
    BY <1>2, <1>3, <1>4

\* Requests that prove, replace or give up the second factor.
LEMMA FactorKeeps ==
    ASSUME CredInv, SecretsKnown, NEW q \in Requests,
           \/ C!Enable(q) \/ C!AcceptFactor(q) \/ C!UseRecoveryCode(q)
           \/ C!ProvedRegenerate(q) \/ C!ProvedDisable(q)
    PROVE  CredInv'
  <1>1. /\ UNCHANGED <<password, challenges, sessions, links>> /\ required' = required
        /\ request[q].at # "revoke" /\ request[q] \in Login /\ Names(request[q])
        /\ request[q].secret <= issued.secrets
    BY DEF CredInv, SecretsKnown, C!Enable, C!AcceptFactor, C!UseRecoveryCode,
       C!ProvedRegenerate, C!ProvedDisable, C!At
  <1>2. FactorTypes' /\ FactorsKept'
    <2>1. CASE UNCHANGED C!factors
      BY <2>1, FactorsStay
    <2> DEFINE s == request[q].secret
    <2>0. s \in Nat /\ s <= issued.secrets
      BY <1>1, Bounds DEF Login
    <2> HIDE DEF s
    <2>2. CASE C!Enable(q)
      <3>1. \/ UNCHANGED C!factors
            \/ \E k \in Counters : C!CanEnable /\ C!EnableMfa(s, k)
        BY <1>1, <2>2 DEF C!Enable, C!factors, s
      <3> QED
        BY <1>1, <2>0, <2>1, <3>1, EnableFactors
    <2>3. CASE C!AcceptFactor(q)
      <3>1. request[q].code \in {0} \cup Counters /\ request[q].code \in Nat
        BY <1>1, Bounds DEF Login
      <3>2. \/ UNCHANGED C!factors
            \/ /\ C!CanAccept(request[q].code) /\ C!AcceptCounter(s, request[q].code)
               /\ issued' = issued
        BY <1>1, <2>3 DEF C!AcceptFactor, C!factors, s
      <3> QED
        BY <1>1, <2>0, <2>1, <3>1, <3>2, AcceptFactors
    <2>4. CASE C!UseRecoveryCode(q)
      BY <1>1, <2>4, RecoveryFactors DEF C!UseRecoveryCode
    <2>5. CASE C!ProvedRegenerate(q)
      BY <1>1, <2>5, ReplacedFactors DEF C!ProvedRegenerate
    <2>6. CASE C!ProvedDisable(q)
      BY <1>1, <2>1, <2>6, ReplacedFactors DEF C!ProvedDisable, C!factors
    <2> QED
      BY <2>2, <2>3, <2>4, <2>5, <2>6
  <1> SUFFICES \E row \in Login : /\ C!Go(q, row) /\ Names(row)
                                  /\ row.at = "issue" => row.row = 0
    BY <1>1, <1>2, LookingStep
  <1>3. \/ C!Go(q, C!Idle)
        \/ /\ \E at \in {"proved", "rejected"} : C!Decide(q, at)
           /\ request[q].at \in {"enrollment", "accept", "recovery"}
        \/ C!Move(q, "revoke")
    BY DEF C!Enable, C!AcceptFactor, C!UseRecoveryCode, C!ProvedRegenerate,
       C!ProvedDisable, C!Answer, C!At
  <1>4. CASE C!Go(q, C!Idle)
    BY <1>4, IdleRow, IdleLogin
  <1>5. ASSUME NEW at \in {"proved", "rejected"}, C!Decide(q, at),
               request[q].at \in {"enrollment", "accept", "recovery"}
        PROVE  \E row \in Login : /\ C!Go(q, row) /\ Names(row)
                                  /\ row.at = "issue" => row.row = 0
    <2> DEFINE row == [request[q] EXCEPT !.at = at, !.secret = 0, !.code = 0]
    <2>0. 0 \in 0..MaxEnrollments /\ 0 \in {0} \cup Counters
      BY Bounds
    <2>1. row \in Login /\ row.at = at /\ row.for = request[q].for
          /\ row.row = request[q].row
      BY <1>1, <2>0 DEF Login, Steps
    <2>2. C!Go(q, row)
      BY <1>5 DEF C!Decide
    <2> HIDE DEF row
    <2>3. Names(row)
      BY <1>1, <1>5, <2>1 DEF Names
    <2> QED
      BY <2>1, <2>2, <2>3
  <1>6. CASE C!Move(q, "revoke")
    <2> DEFINE row == [request[q] EXCEPT !.at = "revoke"]
    <2>1. row \in Login /\ row.at = "revoke"
      BY <1>1 DEF Login, Steps
    <2>2. C!Go(q, row)
      BY <1>6 DEF C!Move
    <2> HIDE DEF row
    <2>3. Names(row)
      BY <2>1 DEF Names
    <2> QED
      BY <2>1, <2>2, <2>3
  <1> QED
    BY <1>3, <1>4, <1>5, <1>6

\* A step of one request that may close challenges.
LEMMA ClosingStep ==
    ASSUME CredInv, NEW q \in Requests, NEW row \in Login, C!Go(q, row), Names(row)',
           Closes, RowTypes', request[q].at # "revoke",
           row.at = "issue" => /\ row.row \in DOMAIN challenges
                               /\ challenges[row.row].live /\ ~challenges'[row.row].live,
           UNCHANGED <<password, C!factors, sessions, links>>
    PROVE  CredInv'
  <1>1. /\ request' \in [Requests -> Login]
        /\ request'[q] = row /\ \A p \in Requests \ {q} : request'[p] = request[p]
    BY RequestStep
  <1>2. Ends
    BY DEF Ends
  <1>3. \A p \in Requests : Names(request[p])'
    <2>1. \A p \in Requests : Names(request[p]) => Names(request[p])' \/ request'[p] # request[p]
      <3> SUFFICES ASSUME NEW p \in Requests, Names(request[p]), request'[p] = request[p]
                   PROVE  Names(request[p])'
        OBVIOUS
      <3> QED
        BY DEF Names, Closes
    <2>2. Names(request[q])'
      BY <1>1 DEF Names
    <2> QED
      BY <1>1, <2>1, <2>2 DEF CredInv
  <1>4. ChallengesKept'
    <2>1. \A p \in Requests \ {q}, c \in DOMAIN challenges' : Opens(p, c)' => Opens(p, c)
      BY <1>1 DEF Opens
    <2>2. \A c \in DOMAIN challenges' : Opens(q, c)' =>
             c \in DOMAIN challenges /\ challenges[c].live /\ ~challenges'[c].live
      BY <1>1 DEF Opens
    <2>3. \A p \in Requests, c \in DOMAIN challenges' : Opens(p, c)' =>
             \/ Opens(p, c)
             \/ /\ c \in DOMAIN challenges /\ challenges[c].live /\ ~challenges'[c].live
                /\ \A o \in Requests : Opens(o, c)' => o = p \/ Opens(o, c)
      BY <2>1, <2>2
    <2> QED
      BY <1>2, <2>3, ChallengesStay
  <1>5. C!SessionsFollowPassword'
    <2>1. \A p \in Requests : Revokes(p) => Revokes(p)'
      BY <1>1 DEF Revokes
    <2> QED
      BY <1>2, <2>1, SessionsStay
  <1>6. LinksKept' /\ FactorTypes' /\ FactorsKept'
    BY LinksStay, FactorsStay
  <1> QED
    BY <1>1, <1>3, <1>4, <1>5, <1>6 DEF CredInv

LEMMA WrittenChallenge ==
    ASSUME CredInv, NEW c \in DOMAIN challenges, NEW row \in Challenge,
           row.live => challenges[c].live,
           challenges' = [challenges EXCEPT ![c] = row], UNCHANGED <<password, sessions, links>>
    PROVE  Closes /\ RowTypes' /\ challenges'[c] = row
  <1>1. challenges \in Seq(Challenge) /\ DOMAIN challenges = 1..Len(challenges) /\ RowTypes
    BY LenProperties DEF CredInv, RowTypes
  <1>2. /\ challenges' \in Seq(Challenge) /\ Len(challenges') = Len(challenges)
        /\ challenges'[c] = row
        /\ \A d \in 1..Len(challenges) : d # c => challenges'[d] = challenges[d]
    BY <1>1, ExceptSeq
  <1>3. DOMAIN challenges' = 1..Len(challenges')
    BY <1>2, LenProperties
  <1>4. Closes
    BY <1>1, <1>2, <1>3 DEF Closes
  <1> QED
    BY <1>1, <1>2, <1>4 DEF RowTypes

LEMMA NewChallenge ==
    ASSUME CredInv, NEW purpose \in {"verify", "enroll"}, NEW epoch \in 0..MaxPasswords,
           Len(challenges) < MaxChallenges, C!CreateChallenge(purpose, epoch),
           UNCHANGED <<password, sessions, links>>
    PROVE  Closes /\ RowTypes'
  <1>1. /\ challenges \in Seq(Challenge) /\ RowTypes /\ Len(challenges) \in Nat
        /\ DOMAIN challenges = 1..Len(challenges)
        /\ \A c \in DOMAIN challenges : challenges[c] \in Challenge
    BY LenProperties, ElementOfSeq DEF CredInv, RowTypes
  <1>2. PICK kept, row :
           /\ kept = [c \in DOMAIN challenges |-> kept[c]]
           /\ \A c \in DOMAIN challenges : \/ kept[c] = challenges[c]
                                           \/ kept[c] = [challenges[c] EXCEPT !.live = FALSE]
           /\ row = [purpose |-> purpose, live |-> TRUE, attempts |-> 0, epoch |-> epoch]
           /\ challenges' = Append(kept, row)
    BY DEF C!CreateChallenge
  <1>3. \A c \in DOMAIN challenges :
           /\ kept[c] \in Challenge
           /\ kept[c].live => challenges[c].live
    <2> SUFFICES ASSUME NEW c \in DOMAIN challenges
                 PROVE  kept[c] \in Challenge /\ (kept[c].live => challenges[c].live)
      OBVIOUS
    <2>1. PICK old \in Challenge : old = challenges[c]
      BY <1>1
    <2>2. kept[c] = old \/ kept[c] = [old EXCEPT !.live = FALSE]
      BY <1>2, <2>1
    <2>3. /\ [old EXCEPT !.live = FALSE] \in Challenge
          /\ ~[old EXCEPT !.live = FALSE].live
      BY DEF Challenge
    <2> QED
      BY <2>1, <2>2, <2>3
  <1>4. row \in Challenge
    BY <1>2, Bounds DEF Challenge
  <1>5. kept \in Seq(Challenge) /\ Len(kept) = Len(challenges)
    <2>1. kept \in [1..Len(challenges) -> Challenge]
      BY <1>1, <1>2, <1>3
    <2> QED
      BY <1>1, <2>1, SeqDef, LenProperties
  <1>6. /\ challenges' \in Seq(Challenge) /\ Len(challenges') = Len(challenges) + 1
        /\ \A c \in 1..Len(challenges) : challenges'[c] = kept[c]
    <2>1. /\ Append(kept, row) \in Seq(Challenge) /\ Len(Append(kept, row)) = Len(kept) + 1
          /\ \A c \in 1..Len(kept) : Append(kept, row)[c] = kept[c]
      BY <1>4, <1>5, AppendProperties
    <2>2. challenges' = Append(kept, row)
      BY <1>2
    <2> QED
      BY <1>5, <2>1, <2>2
  <1>7. DOMAIN challenges' = 1..Len(challenges')
    BY <1>6, LenProperties
  <1>8. Closes
    BY <1>1, <1>3, <1>6, <1>7 DEF Closes
  <1>9. Len(challenges') <= MaxChallenges
    BY <1>1, <1>6, Bounds
  <1> QED
    BY <1>1, <1>6, <1>8, <1>9 DEF RowTypes

LEMMA ClosingKeeps ==
    ASSUME CredInv, NEW q \in Requests,
           C!NewLoginChallenge(q) \/ C!FactorRejected(q) \/ C!ConsumeChallenge(q)
    PROVE  CredInv'
  <1>1. /\ UNCHANGED <<password, C!factors, sessions, links>>
        /\ request[q].at # "revoke" /\ request[q] \in Login /\ Names(request[q])
        /\ request \in [Requests -> Login] /\ RowTypes
    BY DEF CredInv, C!NewLoginChallenge, C!FactorRejected, C!ConsumeChallenge, C!At
  <1>2. ASSUME Closes, RowTypes', C!Answer(q)
        PROVE  CredInv'
    <2>1. Names(C!Idle)'
      BY IdleLogin, IdleRow DEF Names
    <2> QED
      BY <1>1, <1>2, <2>1, IdleRow, ClosingStep DEF C!Answer
  <1>3. CASE C!NewLoginChallenge(q)
    <2>1. request[q].for \in {"verify", "enroll"} /\ request[q].epoch \in 0..MaxPasswords
      BY <1>1, <1>3 DEF Login, Names, C!NewLoginChallenge, C!At
    <2>2. Closes /\ RowTypes'
      BY <1>1, <1>3, <2>1, NewChallenge DEF C!NewLoginChallenge
    <2> QED
      BY <1>2, <1>3, <2>2 DEF C!NewLoginChallenge
  <1>4. ASSUME UNCHANGED challenges PROVE Closes /\ RowTypes'
    BY <1>1, <1>4 DEF Closes, RowTypes
  <1>5. CASE C!FactorRejected(q)
    <2>1. ASSUME request[q].row # 0 PROVE Closes /\ RowTypes'
      <3> DEFINE c == request[q].row
                 row == [challenges[c] EXCEPT !.attempts = @ + 1]
      <3>1. c \in DOMAIN challenges /\ challenges[c] \in Challenge
        BY <1>1, <1>5, <2>1, ElementOfSeq DEF Names, C!FactorRejected, RowTypes
      <3>2. \/ challenges' = challenges
            \/ C!LiveChallenge(c) /\ challenges' = [challenges EXCEPT ![c] = row]
        BY <1>5, <2>1 DEF C!FactorRejected, C!RecordChallengeAttempt
      <3>3. ASSUME C!LiveChallenge(c) PROVE row \in Challenge /\ row.live = challenges[c].live
        <4>1. challenges[c].attempts + 1 \in 0..MaxAttempts
          BY <3>1, <3>3, Bounds DEF C!LiveChallenge, Challenge
        <4> QED
          BY <3>1, <4>1 DEF Challenge
      <3> HIDE DEF c, row
      <3>4. CASE challenges' = challenges
        BY <1>4, <3>4
      <3>5. CASE C!LiveChallenge(c) /\ challenges' = [challenges EXCEPT ![c] = row]
        <4>1. row \in Challenge /\ (row.live => challenges[c].live)
          BY <3>3, <3>5
        <4> QED
          BY <1>1, <3>1, <3>5, <4>1, WrittenChallenge
      <3> QED
        BY <3>2, <3>4, <3>5
    <2> QED
      BY <1>2, <1>4, <1>5, <2>1 DEF C!FactorRejected
  <1>6. CASE C!ConsumeChallenge(q)
    <2> DEFINE c == request[q].row
               row == [challenges[c] EXCEPT !.live = FALSE]
    <2>1. /\ c \in DOMAIN challenges /\ challenges[c] \in Challenge
          /\ row \in Challenge /\ row.live = FALSE
      <3>1. c \in DOMAIN challenges
        BY <1>1, <1>6 DEF Names, C!ConsumeChallenge, C!At
      <3>2. challenges[c] \in Challenge
        BY <1>1, <3>1, ElementOfSeq DEF RowTypes
      <3> QED
        BY <3>1, <3>2 DEF Challenge
    <2>2. CASE C!LiveChallenge(c)
      <3>1. challenges' = [challenges EXCEPT ![c] = row] /\ C!Move(q, "issue")
        BY <1>6, <2>2 DEF C!ConsumeChallenge
      <3>2. Closes /\ RowTypes' /\ challenges'[c] = row
        BY <1>1, <2>1, <3>1, WrittenChallenge
      <3>3. PICK next \in Login : next.at = "issue" /\ next.row = c /\ C!Go(q, next)
        BY <1>1, <3>1, MovedLogin DEF Steps, C!Move
      <3>4. C!Go(q, next)
        BY <3>3
      <3>5. Names(next)'
        BY <2>1, <3>2, <3>3 DEF Names, Closes
      <3>6. challenges[c].live /\ ~challenges'[c].live
        BY <2>1, <2>2, <3>2 DEF C!LiveChallenge
      <3> QED
        BY <1>1, <2>1, <3>2, <3>3, <3>4, <3>5, <3>6, ClosingStep
    <2>3. CASE ~C!LiveChallenge(c)
      BY <1>2, <1>4, <1>6, <2>3 DEF C!ConsumeChallenge
    <2> QED
      BY <2>2, <2>3
  <1> QED
    BY <1>3, <1>5, <1>6

\* Steps of no request: an enrolment begins, a challenge or a session ends.
LEMMA StandingKeeps ==
    ASSUME CredInv, (\E q \in Requests : C!StartEnrollment(q)) \/ C!ChallengeExpires \/ C!Logout
    PROVE  CredInv'
  <1>1. UNCHANGED <<password, links, request>> /\ required' = required
    BY DEF C!StartEnrollment, C!ChallengeExpires, C!Logout, C!factors
  <1>2. RowTypes /\ request \in [Requests -> Login] /\ \A q \in Requests : Names(request[q])
    BY DEF CredInv
  <1>3. FactorTypes' /\ FactorsKept'
    <2>1. CASE UNCHANGED C!factors
      BY <2>1, FactorsStay
    <2>2. CASE \E q \in Requests : C!StartEnrollment(q)
      BY <1>1, <2>2, ReplacedFactors DEF C!StartEnrollment, C!SaveEnrollment
    <2> QED
      BY <2>1, <2>2 DEF C!ChallengeExpires, C!Logout
  <1>4. Closes /\ Ends /\ RowTypes'
    <2>1. CASE \E q \in Requests : C!StartEnrollment(q)
      BY <1>1, <1>2, <2>1 DEF C!StartEnrollment, Closes, Ends, RowTypes
    <2>2. CASE C!ChallengeExpires
      <3>1. PICK c \in DOMAIN challenges :
               challenges' = [challenges EXCEPT ![c] = [challenges[c] EXCEPT !.live = FALSE]]
        BY <2>2 DEF C!ChallengeExpires
      <3>2. challenges[c] \in Challenge
        BY <1>2, ElementOfSeq DEF RowTypes
      <3>3. /\ [challenges[c] EXCEPT !.live = FALSE] \in Challenge
            /\ [challenges[c] EXCEPT !.live = FALSE].live = FALSE
        BY <3>2 DEF Challenge
      <3>4. sessions' = sessions
        BY <2>2 DEF C!ChallengeExpires
      <3> QED
        BY <1>1, <3>1, <3>3, <3>4, WrittenChallenge DEF Ends
    <2>3. CASE C!Logout
      <3>1. PICK s \in DOMAIN sessions :
               sessions' = [sessions EXCEPT ![s] = [sessions[s] EXCEPT !.live = FALSE]]
        BY <2>3 DEF C!Logout
      <3>2. /\ sessions \in Seq(Session) /\ DOMAIN sessions = 1..Len(sessions)
            /\ sessions[s] \in Session /\ challenges' = challenges
        BY <1>2, <2>3, LenProperties, ElementOfSeq DEF RowTypes, C!Logout
      <3> DEFINE row == [sessions[s] EXCEPT !.live = FALSE]
      <3>3. /\ row \in Session /\ row.live = FALSE /\ row.epoch = sessions[s].epoch
            /\ row.challenge = sessions[s].challenge /\ row.straddled = sessions[s].straddled
        BY <3>2 DEF Session
      <3> HIDE DEF row
      <3>4. /\ sessions' \in Seq(Session) /\ Len(sessions') = Len(sessions)
            /\ sessions'[s] = row
            /\ \A t \in 1..Len(sessions) : t # s => sessions'[t] = sessions[t]
        BY <3>1, <3>2, <3>3, ExceptSeq DEF row
      <3>5. DOMAIN sessions' = 1..Len(sessions')
        BY <3>4, LenProperties
      <3> QED
        BY <1>1, <1>2, <3>2, <3>3, <3>4, <3>5 DEF RowTypes, Closes, Ends
    <2> QED
      BY <2>1, <2>2, <2>3
  <1>5. \A q \in Requests : Names(request[q])'
    BY <1>1, <1>2, <1>4 DEF Names, Closes
  <1>6. ChallengesKept'
    <2>1. \A q \in Requests, c \in DOMAIN challenges' : Opens(q, c)' => Opens(q, c)
      BY <1>1 DEF Opens
    <2> QED
      BY <1>4, <2>1, ChallengesStay
  <1>7. C!SessionsFollowPassword'
    BY <1>1, <1>4, SessionsStay DEF Revokes
  <1> QED
    BY <1>1, <1>2, <1>3, <1>4, <1>5, <1>6, <1>7, LinksStay DEF CredInv

LEMMA EndedSessions ==
    ASSUME CredInv, sessions' = C!EndSessions
    PROVE  /\ sessions' \in Seq(Session) /\ Ends
           /\ \A s \in DOMAIN sessions' : ~sessions'[s].live
  <1>1. /\ sessions \in Seq(Session) /\ DOMAIN sessions = 1..Len(sessions)
        /\ Len(sessions) \in Nat
        /\ \A s \in DOMAIN sessions : sessions[s] \in Session
    BY LenProperties, ElementOfSeq DEF CredInv, RowTypes
  <1>2. /\ DOMAIN sessions' = DOMAIN sessions
        /\ sessions' = [s \in 1..Len(sessions) |-> sessions'[s]]
        /\ \A s \in DOMAIN sessions : sessions'[s] = [sessions[s] EXCEPT !.live = FALSE]
    BY <1>1 DEF C!EndSessions
  <1>3. \A s \in DOMAIN sessions :
           /\ sessions'[s] \in Session /\ ~sessions'[s].live
           /\ sessions'[s].challenge = sessions[s].challenge
           /\ sessions'[s].epoch = sessions[s].epoch
           /\ sessions'[s].straddled = sessions[s].straddled
    <2> SUFFICES ASSUME NEW s \in DOMAIN sessions
                 PROVE  /\ sessions'[s] \in Session /\ ~sessions'[s].live
                        /\ sessions'[s].challenge = sessions[s].challenge
                        /\ sessions'[s].epoch = sessions[s].epoch
                        /\ sessions'[s].straddled = sessions[s].straddled
      OBVIOUS
    <2> DEFINE old == sessions[s]
    <2>1. old \in Session /\ sessions'[s] = [old EXCEPT !.live = FALSE]
      BY <1>1, <1>2
    <2> HIDE DEF old
    <2>2. /\ [old EXCEPT !.live = FALSE] \in Session /\ ~[old EXCEPT !.live = FALSE].live
          /\ [old EXCEPT !.live = FALSE].challenge = old.challenge
          /\ [old EXCEPT !.live = FALSE].epoch = old.epoch
          /\ [old EXCEPT !.live = FALSE].straddled = old.straddled
      BY <2>1 DEF Session
    <2> QED
      BY <2>1, <2>2 DEF old
  <1>4. sessions' \in [1..Len(sessions) -> Session]
    BY <1>1, <1>2, <1>3
  <1> QED
    BY <1>1, <1>2, <1>3, <1>4, SeqDef DEF Ends

LEMMA NewSession ==
    ASSUME CredInv, NEW q \in Requests, C!IssueSession(q)
    PROVE  \E row \in Session :
              /\ row.epoch = request[q].epoch /\ row.challenge = request[q].row
              /\ row.straddled = (row.epoch # password)
              /\ sessions' \in Seq(Session)
              /\ DOMAIN sessions' = DOMAIN sessions \cup {Len(sessions) + 1}
              /\ Len(sessions) + 1 \notin DOMAIN sessions
              /\ sessions'[Len(sessions) + 1] = row
              /\ \A s \in DOMAIN sessions : sessions'[s] = sessions[s]
  <1>1. /\ sessions \in Seq(Session) /\ DOMAIN sessions = 1..Len(sessions)
        /\ Len(sessions) \in Nat /\ challenges \in Seq(Challenge)
        /\ DOMAIN challenges = 1..Len(challenges) /\ Len(challenges) \in Nat
        /\ Len(challenges) <= MaxChallenges /\ request[q] \in Login /\ Names(request[q])
    BY LenProperties DEF CredInv, RowTypes
  <1>2. request[q].epoch \in 0..MaxPasswords /\ request[q].row \in 0..MaxChallenges
    <2>1. request[q].epoch \in 0..MaxPasswords /\ request[q].row \in {0} \cup DOMAIN challenges
      BY <1>1 DEF Login, Names, C!IssueSession, C!At
    <2> QED
      BY <1>1, <2>1, Bounds
  <1>3. PICK row : /\ row = [live |-> TRUE, epoch |-> request[q].epoch,
                             challenge |-> request[q].row,
                             straddled |-> request[q].epoch # password]
                   /\ sessions' = Append(sessions, row)
    BY DEF C!IssueSession, C!CreateSession
  <1>4. /\ row \in Session /\ row.epoch = request[q].epoch /\ row.challenge = request[q].row
        /\ row.straddled = (row.epoch # password)
    BY <1>2, <1>3 DEF Session
  <1>5. /\ sessions' \in Seq(Session) /\ Len(sessions') = Len(sessions) + 1
        /\ sessions'[Len(sessions) + 1] = row
        /\ \A s \in 1..Len(sessions) : sessions'[s] = sessions[s]
    <2>1. sessions' = Append(sessions, row)
      BY <1>3
    <2> QED
      BY <1>1, <1>4, <2>1, AppendProperties
  <1>6. DOMAIN sessions' = 1..(Len(sessions) + 1)
    BY <1>5, LenProperties
  <1>7. /\ DOMAIN sessions' = DOMAIN sessions \cup {Len(sessions) + 1}
        /\ Len(sessions) + 1 \notin DOMAIN sessions
    BY <1>1, <1>6
  <1> QED
    BY <1>1, <1>4, <1>5, <1>7

LEMMA IssueKeeps ==
    ASSUME CredInv, NEW q \in Requests, C!IssueSession(q) PROVE CredInv'
  <1>1. /\ UNCHANGED <<password, C!factors, challenges, links>> /\ C!Go(q, C!Idle)
        /\ request[q].at = "issue" /\ Names(request[q]) /\ ChallengesKept /\ RowTypes
    BY DEF CredInv, C!IssueSession, C!At, C!Answer
  <1>2. /\ request' \in [Requests -> Login] /\ request'[q] = C!Idle
        /\ \A p \in Requests \ {q} : request'[p] = request[p]
    BY <1>1, IdleRow, RequestStep
  <1>3. PICK row \in Session :
           /\ row.epoch = request[q].epoch /\ row.challenge = request[q].row
           /\ row.straddled = (row.epoch # password)
           /\ sessions' \in Seq(Session)
           /\ DOMAIN sessions' = DOMAIN sessions \cup {Len(sessions) + 1}
           /\ Len(sessions) + 1 \notin DOMAIN sessions
           /\ sessions'[Len(sessions) + 1] = row
           /\ \A s \in DOMAIN sessions : sessions'[s] = sessions[s]
    BY NewSession
  <1>4. \A p \in Requests : Names(request[p])'
    <2>1. Names(request[q])'
      BY <1>2, IdleRow DEF Names
    <2>2. \A p \in Requests \ {q} : Names(request[p])'
      BY <1>1, <1>2 DEF CredInv, Names
    <2> QED
      BY <2>1, <2>2
  <1>5. row.challenge # 0 => /\ row.challenge \in DOMAIN challenges
                             /\ ~challenges[row.challenge].live
                             /\ \A s \in DOMAIN sessions : sessions[s].challenge # row.challenge
                             /\ \A p \in Requests \ {q} : ~Opens(p, row.challenge)
    BY <1>1, <1>3 DEF ChallengesKept, Opens, Names
  <1>6. ChallengesKept'
    <2>1. \A s \in DOMAIN sessions' : sessions'[s].challenge # 0 =>
             /\ sessions'[s].challenge \in DOMAIN challenges'
             /\ ~challenges'[sessions'[s].challenge].live
      BY <1>1, <1>3, <1>5 DEF ChallengesKept
    <2>2. \A p \in Requests, c \in DOMAIN challenges' : Opens(p, c)' =>
             Opens(p, c) /\ p # q /\ c # row.challenge
      BY <1>1, <1>2, <1>5, IdleRow DEF Opens
    <2>3. \A p \in Requests, c \in DOMAIN challenges' : Opens(p, c)' =>
             /\ ~challenges'[c].live
             /\ \A s \in DOMAIN sessions' : sessions'[s].challenge # c
             /\ \A o \in Requests : Opens(o, c)' => o = p
      BY <1>1, <1>3, <2>2 DEF ChallengesKept
    <2>4. C!ChallengesOpenOneSession'
      BY <1>1, <1>3, <1>5 DEF ChallengesKept, C!ChallengesOpenOneSession
    <2> QED
      BY <2>1, <2>3, <2>4 DEF ChallengesKept
  <1>7. C!SessionsFollowPassword'
    <2> SUFFICES ASSUME NEW s \in DOMAIN sessions', sessions'[s].live,
                        sessions'[s].epoch # password', ~sessions'[s].straddled
                 PROVE  \E p \in Requests : Revokes(p)'
      BY DEF C!SessionsFollowPassword, C!At, Revokes
    <2>1. s \in DOMAIN sessions /\ sessions'[s] = sessions[s]
      BY <1>1, <1>3
    <2>2. PICK p \in Requests : Revokes(p)
      BY <1>1, <2>1 DEF CredInv, C!SessionsFollowPassword, C!At, Revokes
    <2>3. Revokes(p)'
      BY <1>1, <1>2, <2>2 DEF Revokes
    <2> QED
      BY <2>3
  <1>8. RowTypes'
    BY <1>1, <1>3 DEF RowTypes
  <1> QED
    BY <1>1, <1>2, <1>4, <1>6, <1>7, <1>8, LinksStay, FactorsStay DEF CredInv

\* Steps of a change of the password: the sessions end, or the request will end them.
LEMMA PasswordKeeps ==
    ASSUME CredInv, NEW q \in Requests,
           \/ C!ProvedChange(q) \/ C!ResetUserPassword(q) \/ C!RevokeUserSessions(q)
    PROVE  CredInv'
  <1>1. /\ UNCHANGED <<C!factors, challenges, links>> /\ RowTypes
        /\ request \in [Requests -> Login] /\ request[q] \in Login /\ Names(request[q])
        /\ request[q].at # "issue"
    BY DEF CredInv, C!ProvedChange, C!ResetUserPassword, C!RevokeUserSessions, C!At
  <1>2. PICK row \in Login :
           /\ row.at \in {"idle", "revoke"}
           /\ C!Go(q, row)
           /\ ~C!RevokeUserSessions(q) => row.at = "revoke" /\ row.for = "change"
    <2>1. CASE C!RevokeUserSessions(q)
      BY <2>1, IdleRow DEF C!RevokeUserSessions, C!Answer
    <2>2. CASE C!ProvedChange(q)
      <3>1. request[q].for = "change" /\ C!Move(q, "revoke")
        BY <2>2 DEF C!ProvedChange
      <3> DEFINE row == [request[q] EXCEPT !.at = "revoke"]
      <3>2. row \in Login /\ row.at = "revoke" /\ row.for = "change"
        BY <1>1, <3>1, MovedLogin DEF Steps
      <3>3. C!Go(q, row)
        BY <3>1 DEF C!Move
      <3> HIDE DEF row
      <3> QED
        BY <3>2, <3>3
    <2>3. CASE C!ResetUserPassword(q)
      <3> DEFINE row == [C!Idle EXCEPT !.at = "revoke", !.for = "change"]
      <3>1. row \in Login /\ row.at = "revoke" /\ row.for = "change"
        BY IdleLogin DEF Steps, Purposes
      <3>2. C!Go(q, row)
        BY <2>3 DEF C!ResetUserPassword
      <3> HIDE DEF row
      <3> QED
        BY <3>1, <3>2
    <2> QED
      BY <2>1, <2>2, <2>3
  <1>3. /\ request' \in [Requests -> Login] /\ request'[q] = row
        /\ \A p \in Requests \ {q} : request'[p] = request[p]
    BY <1>2, RequestStep
  <1>4. Closes
    BY <1>1 DEF Closes
  <1>5. Ends /\ RowTypes'
    <2>1. CASE C!RevokeUserSessions(q)
      <3>1. sessions' \in Seq(Session) /\ Ends /\ password' = password
        BY <2>1, EndedSessions DEF C!RevokeUserSessions
      <3> QED
        BY <1>1, <3>1 DEF RowTypes
    <2>2. CASE ~C!RevokeUserSessions(q)
      <3>1. sessions' = sessions /\ password' = password + 1 /\ password < MaxPasswords
        BY <2>2 DEF C!ProvedChange, C!ResetUserPassword, C!SetPassword
      <3>2. password' \in 0..MaxPasswords
        BY <1>1, <3>1, Bounds DEF RowTypes
      <3> QED
        BY <1>1, <3>1, <3>2 DEF RowTypes, Ends
    <2> QED
      BY <2>1, <2>2
  <1>6. \A p \in Requests : Names(request[p])'
    BY <1>1, <1>2, <1>3 DEF CredInv, Names
  <1>7. ChallengesKept'
    <2>1. \A p \in Requests, c \in DOMAIN challenges' : Opens(p, c)' => Opens(p, c)
      BY <1>2, <1>3 DEF Opens
    <2> QED
      BY <1>4, <1>5, <2>1, ChallengesStay
  <1>8. C!SessionsFollowPassword'
    <2>1. CASE C!RevokeUserSessions(q)
      BY <2>1, EndedSessions DEF C!RevokeUserSessions, C!SessionsFollowPassword
    <2>2. CASE ~C!RevokeUserSessions(q)
      BY <1>2, <1>3, <2>2 DEF C!SessionsFollowPassword, C!At
    <2> QED
      BY <2>1, <2>2
  <1> QED
    BY <1>1, <1>3, <1>5, <1>6, <1>7, <1>8, LinksStay, FactorsStay DEF CredInv

LEMMA Consumption ==
    ASSUME RowTypes
    PROVE  /\ IsFiniteSet(C!ConsumedLinks) /\ Cardinality(C!ConsumedLinks) \in Nat
           /\ Cardinality(C!ConsumedLinks) <= Len(links) /\ Len(links) \in Nat
           /\ DOMAIN links = 1..Len(links)
           /\ \A l \in DOMAIN links : links[l] \in Link
  <1>1. /\ links \in Seq(Link) /\ Len(links) \in Nat /\ DOMAIN links = 1..Len(links)
        /\ \A l \in DOMAIN links : links[l] \in Link
    <2>1. links \in Seq(Link)
      BY DEF RowTypes
    <2>2. Len(links) \in Nat /\ DOMAIN links = 1..Len(links)
      BY <2>1, LenProperties
    <2> QED
      BY <2>1, <2>2, ElementOfSeq
  <1>2. IsFiniteSet(1..Len(links)) /\ Cardinality(1..Len(links)) = Len(links)
    BY <1>1, FS_Interval
  <1>3. C!ConsumedLinks \subseteq 1..Len(links)
    BY <1>1 DEF C!ConsumedLinks
  <1>4. /\ IsFiniteSet(C!ConsumedLinks)
        /\ Cardinality(C!ConsumedLinks) <= Cardinality(1..Len(links))
    BY <1>2, <1>3, FS_Subset
  <1>5. Cardinality(C!ConsumedLinks) \in Nat
    BY <1>4, FS_CardinalityType
  <1> QED
    BY <1>1, <1>2, <1>4, <1>5

\* A step of no request that writes the links of the account.
LEMMA LinkStep ==
    ASSUME CredInv, LinksKept', links' \in Seq(Link), Len(links') <= MaxLinks,
           \A q \in Requests, l \in DOMAIN links : C!Holds(q, l) =>
              l \in DOMAIN links' /\ links'[l].state = links[l].state,
           UNCHANGED <<password, C!factors, challenges, sessions, request>>
    PROVE  CredInv'
  <1>1. Closes /\ Ends /\ RowTypes'
    BY DEF CredInv, Closes, Ends, RowTypes
  <1>2. ASSUME NEW q \in Requests PROVE Names(request[q])'
    <2>1. /\ Names(request[q]) /\ request'[q] = request[q] /\ challenges' = challenges
          /\ \A l \in DOMAIN links : C!Holds(q, l) =>
                l \in DOMAIN links' /\ links'[l].state = links[l].state
      BY DEF CredInv
    <2>2. request[q].at \in {"linkLocked", "bothLocked"} =>
             /\ request[q].row \in DOMAIN links'
             /\ links'[request[q].row].state = "live"
      BY <2>1 DEF Names, C!Holds
    <2> QED
      BY <2>1, <2>2 DEF Names
  <1>3. ChallengesKept'
    <2>1. \A q \in Requests, c \in DOMAIN challenges' : Opens(q, c)' => Opens(q, c)
      BY DEF Opens
    <2> QED
      BY <1>1, <2>1, ChallengesStay
  <1>4. C!SessionsFollowPassword'
    BY <1>1, SessionsStay DEF Revokes
  <1> QED
    BY <1>1, <1>2, <1>3, <1>4, FactorsStay DEF CredInv

LEMMA CreateLinkKeeps == CredInv /\ C!CreateLink => CredInv'
  <1> SUFFICES ASSUME CredInv, C!CreateLink PROVE CredInv'
    OBVIOUS
  <1> DEFINE N == Cardinality(C!ConsumedLinks)
  <1>1. /\ RowTypes /\ LinksKept /\ IsFiniteSet(C!ConsumedLinks) /\ N \in Nat
        /\ N <= Len(links) /\ Len(links) \in Nat /\ DOMAIN links = 1..Len(links)
        /\ Len(links) < MaxLinks /\ links \in Seq(Link)
    BY Consumption DEF CredInv, RowTypes, C!CreateLink
  <1>2. PICK row : /\ row = [state |-> "live", recent |-> TRUE, after |-> N]
                   /\ links' = Append(links, row)
    BY CredCardinality DEF C!CreateLink
  <1>3. row \in Link /\ row.state = "live" /\ row.after = N
    <2>1. N \in 0..MaxLinks
      BY <1>1, Bounds
    <2> QED
      BY <1>2, <2>1 DEF Link
  <1>4. /\ links' \in Seq(Link) /\ Len(links') = Len(links) + 1
        /\ links'[Len(links) + 1] = row
        /\ \A l \in 1..Len(links) : links'[l] = links[l]
    <2>1. links' = Append(links, row)
      BY <1>2
    <2> QED
      BY <1>1, <1>3, <2>1, AppendProperties
  <1>5. DOMAIN links' = DOMAIN links \cup {Len(links) + 1}
    <2>1. DOMAIN links' = 1..(Len(links) + 1)
      BY <1>4, LenProperties
    <2> QED
      BY <1>1, <2>1
  <1>6. C!ConsumedLinks' = C!ConsumedLinks
    BY <1>1, <1>3, <1>4, <1>5 DEF C!ConsumedLinks
  <1>7. LinksKept'
    <2>1. N' = N
      BY <1>6
    <2>2. \A l \in DOMAIN links' : /\ links'[l].state = "live" => links'[l].after = N
                                   /\ links'[l].state = "consumed" => links'[l].after < N
      BY <1>1, <1>3, <1>4, <1>5 DEF LinksKept
    <2>3. C!OneLinkWins'
      <3>1. \A l \in C!ConsumedLinks : l \in DOMAIN links /\ links'[l] = links[l]
        BY <1>1, <1>4 DEF C!ConsumedLinks
      <3> QED
        BY <1>1, <1>6, <3>1 DEF LinksKept, C!OneLinkWins
    <2> QED
      BY <2>1, <2>2, <2>3 DEF LinksKept
  <1>8. Len(links') <= MaxLinks
    BY <1>1, <1>4, Bounds
  <1> QED
    BY <1>1, <1>4, <1>5, <1>7, <1>8, LinkStep DEF C!CreateLink

LEMMA LinksAgeKeeps == CredInv /\ C!LinksAge => CredInv'
  <1> SUFFICES ASSUME CredInv, C!LinksAge PROVE CredInv'
    OBVIOUS
  <1>1. /\ RowTypes /\ LinksKept /\ Len(links) \in Nat /\ DOMAIN links = 1..Len(links)
        /\ \A l \in DOMAIN links : links[l] \in Link
    BY Consumption DEF CredInv
  <1>2. /\ DOMAIN links' = DOMAIN links
        /\ links' = [l \in 1..Len(links) |-> links'[l]]
        /\ \A l \in DOMAIN links :
              links'[l] = [links[l] EXCEPT !.recent = FALSE,
                                           !.state = IF @ = "live" /\ ~links[l].recent
                                                     THEN "expired" ELSE @]
    BY <1>1 DEF C!LinksAge
  <1>3. \A l \in DOMAIN links :
           /\ links'[l] \in Link /\ links'[l].after = links[l].after
           /\ \/ links'[l].state = links[l].state
              \/ links'[l].state = "expired" /\ links[l].state = "live"
    <2> SUFFICES ASSUME NEW l \in DOMAIN links
                 PROVE  /\ links'[l] \in Link /\ links'[l].after = links[l].after
                        /\ \/ links'[l].state = links[l].state
                           \/ links'[l].state = "expired" /\ links[l].state = "live"
      OBVIOUS
    <2>1. links[l] \in Link
      BY <1>1
    <2>2. CASE links[l].state = "live" /\ ~links[l].recent
      <3>1. links'[l] = [links[l] EXCEPT !.recent = FALSE, !.state = "expired"]
        BY <1>2, <2>1, <2>2 DEF Link
      <3> QED
        BY <2>1, <2>2, <3>1 DEF Link
    <2>3. CASE ~(links[l].state = "live" /\ ~links[l].recent)
      <3>1. links'[l] = [links[l] EXCEPT !.recent = FALSE, !.state = links[l].state]
        BY <1>2, <2>1, <2>3 DEF Link
      <3> QED
        BY <2>1, <3>1 DEF Link
    <2> QED
      BY <2>2, <2>3
  <1>4. links' \in [1..Len(links) -> Link]
    BY <1>1, <1>2, <1>3
  <1>5. links' \in Seq(Link) /\ Len(links') = Len(links)
    BY <1>1, <1>4, SeqDef, LenProperties
  <1>6. C!ConsumedLinks' = C!ConsumedLinks
    BY <1>2, <1>3 DEF C!ConsumedLinks
  <1>7. LinksKept'
    <2>1. C!OneLinkWins'
      BY <1>1, <1>3, <1>6 DEF LinksKept, C!OneLinkWins, C!ConsumedLinks
    <2>2. \A l \in DOMAIN links' :
             /\ links'[l].state = "live" => links'[l].after = Cardinality(C!ConsumedLinks)
             /\ links'[l].state = "consumed" => links'[l].after < Cardinality(C!ConsumedLinks)
      <3> SUFFICES ASSUME NEW l \in DOMAIN links'
                   PROVE  /\ links'[l].state = "live" =>
                                links'[l].after = Cardinality(C!ConsumedLinks)
                          /\ links'[l].state = "consumed" =>
                                links'[l].after < Cardinality(C!ConsumedLinks)
        OBVIOUS
      <3>1. /\ l \in DOMAIN links /\ links'[l].after = links[l].after
            /\ \/ links'[l].state = links[l].state
               \/ links'[l].state = "expired"
        BY <1>2, <1>3
      <3>2. /\ links[l].state = "live" => links[l].after = Cardinality(C!ConsumedLinks)
            /\ links[l].state = "consumed" => links[l].after < Cardinality(C!ConsumedLinks)
        BY <1>1, <3>1 DEF LinksKept
      <3> QED
        BY <3>1, <3>2
    <2> QED
      BY <1>6, <2>1, <2>2 DEF LinksKept
  <1>8. \A q \in Requests, l \in DOMAIN links : ~C!Holds(q, l)
    BY DEF C!LinksAge
  <1>9. Len(links') <= MaxLinks
    BY <1>1, <1>5 DEF RowTypes
  <1> QED
    BY <1>5, <1>7, <1>8, <1>9, LinkStep DEF C!LinksAge

LEMMA CompleteResetKeeps ==
    ASSUME CredInv, NEW q \in Requests, C!CompleteReset(q) PROVE CredInv'
  <1> DEFINE N == Cardinality(C!ConsumedLinks)
  <1>1. /\ RowTypes /\ LinksKept /\ IsFiniteSet(C!ConsumedLinks) /\ N \in Nat
        /\ Len(links) \in Nat /\ DOMAIN links = 1..Len(links)
        /\ \A l \in DOMAIN links : links[l] \in Link
    BY Consumption DEF CredInv
  <1>2. PICK r : r = request[q].row
    OBVIOUS
  <1>3. r \in DOMAIN links /\ links[r].state = "live" /\ request[q] \in Login
    BY <1>2 DEF CredInv, Names, C!CompleteReset, C!At
  <1>4. \A p \in Requests \ {q} : request[p].at \notin {"linkLocked", "bothLocked"}
    BY DEF CredInv, Names, C!CompleteReset, C!Blocked, C!Holds
  <1>5. /\ DOMAIN links' = DOMAIN links
        /\ links' = [l \in 1..Len(links) |-> links'[l]]
        /\ \A l \in DOMAIN links :
              \/ l = r /\ links'[l] = [links[l] EXCEPT !.state = "consumed"]
              \/ /\ l # r /\ links[l].state = "live"
                 /\ links'[l] = [links[l] EXCEPT !.state = "invalidated"]
              \/ l # r /\ links[l].state # "live" /\ links'[l] = links[l]
    BY <1>1, <1>2 DEF C!CompleteReset
  <1>6. \A l \in DOMAIN links :
           /\ links'[l] \in Link /\ links'[l].after = links[l].after
           /\ \/ l = r /\ links'[l].state = "consumed"
              \/ l # r /\ links'[l].state \notin {"live", "consumed"}
                 /\ links[l].state # "consumed"
              \/ l # r /\ links[l].state # "live" /\ links'[l].state = links[l].state
    BY <1>1, <1>5 DEF Link
  <1>7. links' \in Seq(Link) /\ Len(links') = Len(links)
    <2>1. links' \in [1..Len(links) -> Link]
      BY <1>1, <1>5, <1>6
    <2> QED
      BY <1>1, <2>1, SeqDef, LenProperties
  <1>8. C!ConsumedLinks' = C!ConsumedLinks \cup {r} /\ r \notin C!ConsumedLinks
    BY <1>3, <1>5, <1>6 DEF C!ConsumedLinks
  <1>9. Cardinality(C!ConsumedLinks') = N + 1
    BY <1>1, <1>8, FS_AddElement
  <1>10. LinksKept'
    <2>1. \A l \in DOMAIN links' :
             /\ links'[l].state # "live"
             /\ links'[l].state = "consumed" => links'[l].after < N + 1
      <3> SUFFICES ASSUME NEW l \in DOMAIN links'
                   PROVE  /\ links'[l].state # "live"
                          /\ links'[l].state = "consumed" => links'[l].after < N + 1
        OBVIOUS
      <3>1. /\ l \in DOMAIN links /\ links'[l].after = links[l].after
            /\ links[l].after \in Int
        BY <1>1, <1>5, <1>6, Bounds DEF Link
      <3>2. links'[l].state # "live"
        BY <1>6, <3>1
      <3>3. CASE l = r
        BY <1>1, <1>3, <3>1, <3>2, <3>3 DEF LinksKept
      <3>4. CASE l # r
        <4>1. links'[l].state = "consumed" => links[l].after < N
          BY <1>1, <1>6, <3>1, <3>4 DEF LinksKept
        <4> QED
          BY <1>1, <3>1, <3>2, <4>1
      <3> QED
        BY <3>3, <3>4
    <2>2. \A l \in C!ConsumedLinks : links'[l].after < N /\ links'[l].after = links[l].after
      BY <1>1, <1>6 DEF LinksKept, C!ConsumedLinks
    <2>3. links'[r].after = N
      BY <1>1, <1>3, <1>6 DEF LinksKept
    <2>4. C!OneLinkWins'
      BY <1>1, <1>8, <2>2, <2>3 DEF LinksKept, C!OneLinkWins
    <2> QED
      BY <1>9, <2>1, <2>4 DEF LinksKept
  <1>11. PICK row \in Login : row.at = "revoke" /\ C!Go(q, row)
    BY <1>3, MovedLogin DEF C!CompleteReset, C!Move, Steps
  <1>12. /\ request' \in [Requests -> Login] /\ request'[q] = row
         /\ \A p \in Requests \ {q} : request'[p] = request[p]
    BY <1>11, RequestStep
  <1>13. /\ UNCHANGED <<C!factors, challenges>> /\ Closes /\ Ends /\ sessions' \in Seq(Session)
         /\ \A s \in DOMAIN sessions' : ~sessions'[s].live
    BY EndedSessions DEF Closes, C!CompleteReset
  <1>14. RowTypes'
    <2>1. password' \in 0..MaxPasswords
      <3>1. password < MaxPasswords /\ password' = password + 1
        BY DEF C!CompleteReset, C!SetPassword
      <3>2. password \in 0..MaxPasswords /\ MaxPasswords \in Nat
        BY <1>1, Bounds DEF RowTypes
      <3> QED
        BY <3>1, <3>2
    <2> QED
      BY <1>1, <1>7, <1>13, <2>1 DEF RowTypes
  <1>15. \A p \in Requests : Names(request[p])'
    BY <1>4, <1>11, <1>12, <1>13 DEF CredInv, Names
  <1>16. ChallengesKept'
    <2>1. \A p \in Requests, c \in DOMAIN challenges' : Opens(p, c)' => Opens(p, c)
      BY <1>11, <1>12 DEF Opens
    <2> QED
      BY <1>13, <2>1, ChallengesStay
  <1>17. C!SessionsFollowPassword'
    BY <1>13 DEF C!SessionsFollowPassword
  <1> QED
    BY <1>10, <1>12, <1>13, <1>14, <1>15, <1>16, <1>17, FactorsStay DEF CredInv

\* What a request remembers of a secret is none, what it had, or the one it has read.
Remembers(q) ==
    \/ request' = request
    \/ \E row : C!Go(q, row) /\ row.secret \in {0, request[q].secret, mfa.secret}

LEMMA Recalled ==
    ASSUME NEW q, NEW row, C!Go(q, row), row.secret \in {0, request[q].secret, mfa.secret}
    PROVE  Remembers(q)
  BY DEF Remembers

LEMMA MovesRemember ==
    ASSUME CredInv, NEW q \in Requests
    PROVE  /\ C!Answer(q) => Remembers(q)
           /\ \A at : C!Move(q, at) => Remembers(q)
           /\ \A at : C!Decide(q, at) => Remembers(q)
  <1>1. request[q] \in Login
    BY DEF CredInv
  <1>2. ASSUME C!Answer(q) PROVE Remembers(q)
    BY <1>2 DEF C!Answer, C!Idle, Remembers
  <1>3. ASSUME NEW at, C!Move(q, at) PROVE Remembers(q)
    <2>1. [request[q] EXCEPT !.at = at].secret = request[q].secret
      BY <1>1 DEF Login
    <2> QED
      BY <1>3, <2>1 DEF C!Move, Remembers
  <1>4. ASSUME NEW at, C!Decide(q, at) PROVE Remembers(q)
    <2>1. [request[q] EXCEPT !.at = at, !.secret = 0, !.code = 0].secret = 0
      BY <1>1 DEF Login
    <2> QED
      BY <1>4, <2>1 DEF C!Decide, Remembers
  <1> QED
    BY <1>2, <1>3, <1>4

LEMMA LookingRemembers ==
    ASSUME CredInv, NEW q \in Requests, C!SignIn(q) \/ C!PasswordChange(q)
    PROVE  Remembers(q)
  <1>1. request[q] \in Login
    BY DEF CredInv
  <1>2. CASE C!Authenticate(q)
    <2> DEFINE row == [C!Idle EXCEPT !.at = "authenticated", !.epoch = password]
    <2>1. C!Go(q, row)
      BY <1>2 DEF C!Authenticate
    <2>2. row.secret = 0
      BY DEF C!Idle
    <2> HIDE DEF row
    <2> QED
      BY <2>1, <2>2, Recalled
  <1>3. CASE C!ChooseFactor(q)
    <2>1. \A for : [request[q] EXCEPT !.at = "challenge", !.for = for].secret = request[q].secret
      BY <1>1 DEF Login
    <2>2. \/ C!Go(q, [request[q] EXCEPT !.at = "challenge", !.for = "verify"])
          \/ C!Go(q, [request[q] EXCEPT !.at = "challenge", !.for = "enroll"])
          \/ C!Move(q, "issue")
      BY <1>3 DEF C!ChooseFactor
    <2> QED
      BY <2>1, <2>2, MovesRemember DEF Remembers
  <1>4. CASE C!NewLoginChallenge(q) \/ C!IssueSession(q)
    BY <1>4, MovesRemember DEF C!NewLoginChallenge, C!IssueSession
  <1>5. CASE C!ChangeMyPassword(q)
    <2> DEFINE row == [C!Idle EXCEPT
                      !.at = IF mfa.status = "enabled" THEN "factor" ELSE "proved",
                      !.for = "change"]
    <2>1. C!Go(q, row)
      BY <1>5 DEF C!ChangeMyPassword
    <2>2. row.secret = 0
      BY DEF C!Idle
    <2> HIDE DEF row
    <2> QED
      BY <2>1, <2>2, Recalled
  <1>6. CASE C!ResetUserPassword(q)
    <2> DEFINE row == [C!Idle EXCEPT !.at = "revoke", !.for = "change"]
    <2>1. C!Go(q, row)
      BY <1>6 DEF C!ResetUserPassword
    <2>2. row.secret = 0
      BY DEF C!Idle
    <2> HIDE DEF row
    <2> QED
      BY <2>1, <2>2, Recalled
  <1>7. CASE C!LockLink(q)
    <2>1. PICK l \in DOMAIN links :
             C!Go(q, [C!Idle EXCEPT !.at = "linkLocked", !.for = "reset", !.row = l])
      BY <1>7 DEF C!LockLink
    <2> DEFINE row == [C!Idle EXCEPT !.at = "linkLocked", !.for = "reset", !.row = l]
    <2>2. C!Go(q, row) /\ row.secret = 0
      BY <2>1 DEF C!Idle
    <2> HIDE DEF row
    <2> QED
      BY <2>2, Recalled
  <1>8. CASE C!ProvedChange(q) \/ C!LockCredential(q) \/ C!CompleteReset(q) \/ C!DeadlockVictim(q)
    BY <1>8, MovesRemember DEF C!ProvedChange, C!LockCredential, C!CompleteReset,
       C!DeadlockVictim
  <1> QED
    BY <1>2, <1>3, <1>4, <1>5, <1>6, <1>7, <1>8 DEF C!SignIn, C!PasswordChange

LEMMA FactorRemembers ==
    ASSUME CredInv, NEW q \in Requests, C!SecondFactor(q)
    PROVE  Remembers(q)
  <1>1. request[q] \in Login
    BY DEF CredInv
  <1>2. CASE C!StartEnrollment(q)
    BY <1>2 DEF C!StartEnrollment, Remembers
  <1>3. CASE C!AnswerChallenge(q)
    <2>1. PICK c \in DOMAIN challenges :
             C!Go(q, [at |-> IF challenges[c].purpose = "verify" THEN "factor"
                             ELSE "enrollment",
                      for |-> challenges[c].purpose, row |-> c,
                      epoch |-> challenges[c].epoch,
                      secret |-> IF challenges[c].purpose = "verify" THEN 0 ELSE mfa.secret,
                      code |-> 0])
      BY <1>3 DEF C!AnswerChallenge
    <2> DEFINE row == [at |-> IF challenges[c].purpose = "verify" THEN "factor"
                              ELSE "enrollment",
                       for |-> challenges[c].purpose, row |-> c,
                       epoch |-> challenges[c].epoch,
                       secret |-> IF challenges[c].purpose = "verify" THEN 0
                                  ELSE mfa.secret,
                       code |-> 0]
    <2>2. C!Go(q, row) /\ row.secret \in {0, mfa.secret}
      BY <2>1
    <2> HIDE DEF row
    <2> QED
      BY <2>2, Recalled
  <1>4. CASE C!ConfirmEnrollment(q)
    <2> DEFINE row == [C!Idle EXCEPT !.at = "enrollment", !.for = "confirm",
                                     !.secret = mfa.secret]
    <2>1. C!Go(q, row)
      BY <1>4 DEF C!ConfirmEnrollment
    <2>2. row.secret = mfa.secret
      BY DEF C!Idle
    <2> HIDE DEF row
    <2> QED
      BY <2>1, <2>2, Recalled
  <1>5. CASE C!ReadFactor(q)
    <2>1. \A k : [request[q] EXCEPT !.at = "accept", !.secret = mfa.secret,
                                    !.code = k].secret = mfa.secret
      BY <1>1 DEF Login
    <2>2. \/ C!Move(q, "recovery")
          \/ \E k \in Counters : C!Go(q, [request[q] EXCEPT !.at = "accept",
                                               !.secret = mfa.secret, !.code = k])
      BY <1>5 DEF C!ReadFactor
    <2> QED
      BY <2>1, <2>2, MovesRemember DEF Remembers
  <1>6. CASE C!RegenerateCodes(q) \/ C!DisableMyMfa(q) \/ C!ResetUserMfa(q)
    <2>1. PICK at, for : C!Go(q, [C!Idle EXCEPT !.at = at, !.for = for])
      <3>1. CASE C!RegenerateCodes(q)
        BY <3>1 DEF C!RegenerateCodes
      <3>2. CASE C!DisableMyMfa(q)
        BY <3>2 DEF C!DisableMyMfa
      <3>3. CASE C!ResetUserMfa(q)
        BY <3>3 DEF C!ResetUserMfa
      <3> QED
        BY <1>6, <3>1, <3>2, <3>3
    <2> DEFINE row == [C!Idle EXCEPT !.at = at, !.for = for]
    <2>2. C!Go(q, row) /\ row.secret = 0
      BY <2>1 DEF C!Idle
    <2> HIDE DEF row
    <2> QED
      BY <2>2, Recalled
  <1>7. CASE \/ C!Enable(q) \/ C!AcceptFactor(q) \/ C!UseRecoveryCode(q)
             \/ C!FactorRejected(q) \/ C!ConsumeChallenge(q)
             \/ C!ProvedRegenerate(q) \/ C!ProvedDisable(q)
    <2>1. \/ C!Answer(q) \/ \E at : C!Move(q, at) \/ C!Decide(q, at)
      BY <1>7 DEF C!Enable, C!AcceptFactor, C!UseRecoveryCode, C!FactorRejected,
         C!ConsumeChallenge, C!ProvedRegenerate, C!ProvedDisable
    <2> QED
      BY <2>1, MovesRemember
  <1> QED
    BY <1>2, <1>3, <1>4, <1>5, <1>6, <1>7 DEF C!SecondFactor

\* Enrolments are never taken back.
LEMMA EnrollmentsGrow ==
    ASSUME CredInv, [C!Next]_(C!vars)
    PROVE  issued.secrets <= issued'.secrets /\ issued'.secrets \in Nat
  <1>1. issued \in [secrets : 0..MaxEnrollments, codes : 0..MaxCodes] /\ issued.secrets \in Nat
    BY Bounds DEF CredInv, FactorTypes
  <1>2. CASE issued' = issued
    BY <1>1, <1>2
  <1>3. CASE C!SaveEnrollment \/ C!NewCodes
    BY <1>1, <1>3 DEF C!SaveEnrollment, C!NewCodes
  <1>4. ASSUME NEW q \in Requests, C!SignIn(q) \/ C!PasswordChange(q) \/ C!RevokeUserSessions(q)
        PROVE  issued' = issued
    BY <1>4 DEF C!SignIn, C!PasswordChange, C!Authenticate, C!ChooseFactor,
       C!NewLoginChallenge, C!IssueSession, C!ChangeMyPassword, C!ProvedChange,
       C!ResetUserPassword, C!LockLink, C!LockCredential, C!CompleteReset, C!DeadlockVictim,
       C!RevokeUserSessions, C!factors
  <1>5. ASSUME NEW q \in Requests, C!SecondFactor(q)
        PROVE  issued' = issued \/ C!SaveEnrollment \/ C!NewCodes
    BY <1>5 DEF C!SecondFactor, C!StartEnrollment, C!AnswerChallenge, C!ConfirmEnrollment,
       C!Enable, C!EnableMfa, C!ReadFactor, C!AcceptFactor, C!UseRecoveryCode,
       C!FactorRejected, C!ConsumeChallenge, C!RegenerateCodes, C!ProvedRegenerate,
       C!ReplaceRecoveryCodes, C!DisableMyMfa, C!ProvedDisable, C!ResetUserMfa, C!factors
  <1>6. CASE UNCHANGED C!vars \/ C!ChallengeExpires \/ C!Logout \/ C!CreateLink \/ C!LinksAge
    BY <1>2, <1>6 DEF C!vars, C!ChallengeExpires, C!Logout, C!CreateLink, C!LinksAge, C!factors
  <1> QED
    BY <1>2, <1>3, <1>4, <1>5, <1>6 DEF C!Next, C!PasswordNext, C!FactorNext

LEMMA SecretsNext ==
    ASSUME CredInv, SecretsKnown, [C!Next]_(C!vars) PROVE SecretsKnown'
  <1>1. /\ issued.secrets \in Nat /\ issued.secrets <= issued'.secrets
        /\ issued'.secrets \in Nat
        /\ mfa.secret <= issued.secrets /\ mfa.secret \in Nat
        /\ \A q \in Requests : request[q].secret \in Nat
        /\ request \in [Requests -> Login]
    <2>1. /\ issued.secrets \in Nat /\ mfa.secret <= issued.secrets /\ mfa.secret \in Nat
          /\ request \in [Requests -> Login]
      BY Bounds DEF CredInv, FactorTypes, FactorsKept, Mfa
    <2>2. \A q \in Requests : request[q].secret \in Nat
      BY <2>1, Bounds DEF Login
    <2> QED
      BY <2>1, <2>2, EnrollmentsGrow
  <1>2. \/ \E q \in Requests : Remembers(q)
        \/ request' = request
    <2>1. ASSUME NEW q \in Requests, C!RevokeUserSessions(q) PROVE Remembers(q)
      BY <2>1, MovesRemember DEF C!RevokeUserSessions
    <2>2. CASE UNCHANGED C!vars \/ C!ChallengeExpires \/ C!Logout \/ C!CreateLink \/ C!LinksAge
      BY <2>2 DEF C!vars, C!ChallengeExpires, C!Logout, C!CreateLink, C!LinksAge
    <2> QED
      BY <2>1, <2>2, LookingRemembers, FactorRemembers
      DEF C!Next, C!PasswordNext, C!FactorNext
  <1>3. CASE request' = request
    <2> SUFFICES ASSUME NEW p \in Requests PROVE request'[p].secret <= issued'.secrets
      BY DEF SecretsKnown
    <2>1. /\ request[p].secret <= issued.secrets /\ request[p].secret \in Nat
          /\ request'[p].secret = request[p].secret
      BY <1>1, <1>3 DEF SecretsKnown
    <2> QED
      BY <1>1, <2>1
  <1>4. ASSUME NEW q \in Requests, NEW row, C!Go(q, row),
               row.secret \in {0, request[q].secret, mfa.secret}
        PROVE  SecretsKnown'
    <2>1. request'[q] = row /\ \A p \in Requests \ {q} : request'[p] = request[p]
      BY <1>1, <1>4 DEF C!Go
    <2>2. row.secret <= issued.secrets /\ row.secret \in Nat
      <3>1. request[q].secret <= issued.secrets /\ request[q].secret \in Nat
        BY <1>1 DEF SecretsKnown
      <3> QED
        BY <1>1, <1>4, <3>1
    <2> SUFFICES ASSUME NEW p \in Requests PROVE request'[p].secret <= issued'.secrets
      BY DEF SecretsKnown
    <2>3. request[p].secret <= issued.secrets /\ request[p].secret \in Nat
      BY <1>1 DEF SecretsKnown
    <2>4. \/ request'[p].secret = request[p].secret
          \/ request'[p].secret = row.secret
      BY <2>1
    <2> QED
      BY <1>1, <2>2, <2>3, <2>4
  <1> QED
    BY <1>2, <1>3, <1>4 DEF Remembers

\* The rows and the requests of the account stay as CredInv describes them.
LEMMA CredNext == CredKept /\ [C!Next]_(C!vars) => CredKept'
  <1> SUFFICES ASSUME CredInv, SecretsKnown, [C!Next]_(C!vars) PROVE CredInv'
    BY SecretsNext DEF CredKept
  <1>1. CASE UNCHANGED C!vars
    <2>1. UNCHANGED <<required, password, mfa, challenges, sessions, links, request, issued,
                      spent, reused>>
      BY <1>1 DEF C!vars
    <2>2. /\ FactorTypes' /\ FactorsKept' /\ LinksKept'
      BY <2>1, FactorsStay, LinksStay DEF C!factors
    <2>3. Closes /\ Ends /\ RowTypes'
      BY <2>1 DEF Closes, Ends, CredInv, RowTypes
    <2>4. \A q \in Requests : Names(request[q])'
      BY <2>1 DEF CredInv, Names
    <2>5. ChallengesKept' /\ C!SessionsFollowPassword'
      BY <2>1, <2>3, ChallengesStay, SessionsStay DEF Opens, Revokes
    <2> QED
      BY <2>1, <2>2, <2>3, <2>4, <2>5 DEF CredInv
  <1>2. CASE \E q \in Requests : C!SignIn(q)
    BY <1>2, LookingKeeps, ClosingKeeps, IssueKeeps DEF C!SignIn
  <1>3. CASE \E q \in Requests : C!PasswordChange(q)
    BY <1>3, LookingKeeps, PasswordKeeps, CompleteResetKeeps DEF C!PasswordChange
  <1>4. CASE \E q \in Requests : C!SecondFactor(q)
    BY <1>4, LookingKeeps, FactorKeeps, ClosingKeeps, StandingKeeps DEF C!SecondFactor
  <1> QED
    BY <1>1, <1>2, <1>3, <1>4, PasswordKeeps, StandingKeeps, CreateLinkKeeps, LinksAgeKeeps
    DEF C!Next, C!PasswordNext, C!FactorNext

\* Login and second factor: however many requests sign in, prove a factor, change
\* the password or complete a link at once, no code is accepted twice but by an enrolment
\* that replaced the code's own after it was checked, no challenge opens two sessions, no
\* two links that were open together set a password, and no session but one that
\* straddled the change outlives it.
THEOREM CredentialsHold ==
    C!Spec => /\ []C!FactorsAreSpentOnce /\ []C!ChallengesOpenOneSession
              /\ []C!OneLinkWins /\ []C!SessionsFollowPassword
  <1>1. CredKept => /\ C!FactorsAreSpentOnce /\ C!ChallengesOpenOneSession
                    /\ C!OneLinkWins /\ C!SessionsFollowPassword
    BY DEF CredKept, CredInv, FactorsKept, ChallengesKept, LinksKept, C!FactorsAreSpentOnce
  <1> QED
    BY <1>1, CredInit, CredNext, PTL DEF C!Spec

----------------------------------------------------------------------------
(* Login throttle *)

Progress == [at : {"idle", "checking", "verified"}, row : 0..MaxRows]

\* The attempts that take a place in a bucket, but for those that outlived theirs.
Holds(r) == r \in T!Counted /\ ~T!Outlived(r)
Guesses(i) == {r \in T!IdentifierCounted(i) : ~T!Outlived(r)}
Sent(s) == {r \in T!SourceCounted(s) : ~T!Outlived(r)}

ThrottleInv ==
    /\ T!TypeOK
    /\ \A q \in Requests : signIn[q].at # "idle" => signIn[q].row \in DOMAIN attempts
    /\ T!LimitsHold

\* No attempt takes a place that it had not before.
Fades ==
    /\ DOMAIN attempts' = DOMAIN attempts
    /\ \A r \in DOMAIN attempts :
          /\ attempts'[r].identifier = attempts[r].identifier
          /\ attempts'[r].requester = attempts[r].requester
          /\ Holds(r)' => /\ Holds(r)
                          /\ ~attempts'[r].cleared \/ attempts'[r].outcome = "pending" =>
                                ~attempts[r].cleared \/ attempts[r].outcome = "pending"

LEMMA ThrottleBounds ==
    /\ IdLimit \in Nat \ {0} /\ SourceLimit \in Nat \ {0}
    /\ Window \in Nat /\ PendingTtl \in Nat /\ AuditWindow \in Nat
    /\ MaxRows \in Nat /\ MaxTime \in Nat
  BY AccountsAssumption DEF T!ThrottleAssumption

LEMMA ThrottleCardinality == \A S : T!Cardinality(S) = Cardinality(S)
  BY DEF T!Cardinality, Cardinality

LEMMA AttemptRows ==
    ASSUME ThrottleInv
    PROVE  /\ attempts \in Seq(T!Row) /\ Len(attempts) \in Nat /\ Len(attempts) <= MaxRows
           /\ DOMAIN attempts = 1..Len(attempts)
           /\ signIn \in [Requests -> Progress] /\ now \in 0..MaxTime
           /\ \A r \in DOMAIN attempts : attempts[r] \in T!Row
  BY LenProperties, ElementOfSeq DEF ThrottleInv, T!TypeOK, Progress

LEMMA BucketsFinite ==
    ASSUME ThrottleInv
    PROVE  /\ \A i : /\ IsFiniteSet(T!IdentifierCounted(i)) /\ Guesses(i) \subseteq T!IdentifierCounted(i)
                     /\ IsFiniteSet(Guesses(i)) /\ Cardinality(Guesses(i)) \in Nat
                     /\ Cardinality(T!IdentifierCounted(i)) \in Nat
                     /\ Cardinality(Guesses(i)) <= Cardinality(T!IdentifierCounted(i))
           /\ \A s : /\ IsFiniteSet(T!SourceCounted(s)) /\ Sent(s) \subseteq T!SourceCounted(s)
                     /\ IsFiniteSet(Sent(s)) /\ Cardinality(Sent(s)) \in Nat
                     /\ Cardinality(T!SourceCounted(s)) \in Nat
                     /\ Cardinality(Sent(s)) <= Cardinality(T!SourceCounted(s))
  <1>1. /\ DOMAIN attempts = 1..Len(attempts) /\ Len(attempts) \in Nat
        /\ IsFiniteSet(1..Len(attempts))
    BY AttemptRows, FS_Interval
  <1>2. ASSUME NEW S, NEW P, S \subseteq 1..Len(attempts), P \subseteq S
        PROVE  /\ IsFiniteSet(S) /\ IsFiniteSet(P) /\ Cardinality(P) <= Cardinality(S)
               /\ Cardinality(S) \in Nat /\ Cardinality(P) \in Nat
    <2>1. IsFiniteSet(S)
      BY <1>1, <1>2, FS_Subset
    <2>2. IsFiniteSet(P) /\ Cardinality(P) <= Cardinality(S)
      BY <1>2, <2>1, FS_Subset
    <2> QED
      BY <2>1, <2>2, FS_CardinalityType
  <1>3. \A i : T!IdentifierCounted(i) \subseteq 1..Len(attempts)
               /\ Guesses(i) \subseteq T!IdentifierCounted(i)
    BY <1>1 DEF T!IdentifierCounted, T!Counted, T!Rows, Guesses
  <1>4. \A s : T!SourceCounted(s) \subseteq 1..Len(attempts) /\ Sent(s) \subseteq T!SourceCounted(s)
    BY <1>1 DEF T!SourceCounted, T!Counted, T!Rows, Sent
  <1> QED
    BY <1>2, <1>3, <1>4

LEMMA LimitsAreSets ==
    T!LimitsHold <=> /\ \A i \in Identifiers : Cardinality(Guesses(i)) <= IdLimit
                     /\ \A s \in Requesters : Cardinality(Sent(s)) <= SourceLimit
  BY ThrottleCardinality DEF T!LimitsHold, Guesses, Sent

LEMMA FadingKeeps ==
    ASSUME ThrottleInv, Fades PROVE T!LimitsHold'
  <1>1. \A i : Guesses(i)' \subseteq Guesses(i)
    BY DEF Fades, Holds, Guesses, T!IdentifierCounted, T!Counted, T!Rows
  <1>2. \A s : Sent(s)' \subseteq Sent(s)
    BY DEF Fades, Holds, Sent, T!SourceCounted, T!Counted, T!Rows
  <1>3. ASSUME NEW i \in Identifiers PROVE Cardinality(Guesses(i)') <= IdLimit
    <2>1. Cardinality(Guesses(i)') <= Cardinality(Guesses(i)) /\ IsFiniteSet(Guesses(i)')
      BY <1>1, BucketsFinite, FS_Subset
    <2>2. Cardinality(Guesses(i)') \in Nat /\ Cardinality(Guesses(i)) \in Nat
      BY <2>1, BucketsFinite, FS_CardinalityType
    <2>3. Cardinality(Guesses(i)) <= IdLimit
      BY LimitsAreSets DEF ThrottleInv
    <2> QED
      BY <2>1, <2>2, <2>3, ThrottleBounds
  <1>4. ASSUME NEW s \in Requesters PROVE Cardinality(Sent(s)') <= SourceLimit
    <2>1. Cardinality(Sent(s)') <= Cardinality(Sent(s)) /\ IsFiniteSet(Sent(s)')
      BY <1>2, BucketsFinite, FS_Subset
    <2>2. Cardinality(Sent(s)') \in Nat /\ Cardinality(Sent(s)) \in Nat
      BY <2>1, BucketsFinite, FS_CardinalityType
    <2>3. Cardinality(Sent(s)) <= SourceLimit
      BY LimitsAreSets DEF ThrottleInv
    <2> QED
      BY <2>1, <2>2, <2>3, ThrottleBounds
  <1> QED
    BY <1>3, <1>4, ThrottleCardinality DEF T!LimitsHold, Guesses, Sent

\* A step that rewrites rows in place and does not let a place be taken.
LEMMA RewrittenRows ==
    ASSUME ThrottleInv, attempts' = [r \in DOMAIN attempts |-> attempts'[r]],
           \A r \in DOMAIN attempts : attempts'[r] \in T!Row,
           Fades, signIn' \in [Requests -> Progress], now' = now,
           \A q \in Requests : signIn'[q].at # "idle" => signIn'[q].row \in DOMAIN attempts
    PROVE  ThrottleInv'
  <1>1. attempts' \in [1..Len(attempts) -> T!Row]
    BY AttemptRows
  <1>2. attempts' \in Seq(T!Row) /\ Len(attempts') = Len(attempts)
    BY <1>1, AttemptRows, SeqDef, LenProperties
  <1>3. T!TypeOK'
    BY <1>2, AttemptRows DEF T!TypeOK, Progress, ThrottleInv
  <1>4. DOMAIN attempts' = DOMAIN attempts
    BY DEF Fades
  <1> QED
    BY <1>3, <1>4, FadingKeeps DEF ThrottleInv

LEMMA AnsweredSignIn ==
    ASSUME ThrottleInv, NEW q \in Requests, T!Answer(q)
    PROVE  /\ signIn' \in [Requests -> Progress]
           /\ \A p \in Requests : signIn'[p].at # "idle" =>
                 signIn'[p] = signIn[p] /\ signIn'[p].row \in DOMAIN attempts
  <1>1. signIn \in [Requests -> Progress] /\ 0 \in 0..MaxRows
    BY AttemptRows, ThrottleBounds
  <1> QED
    BY <1>1 DEF T!Answer, Progress, ThrottleInv

LEMMA FinishFades ==
    ASSUME ThrottleInv, NEW q \in Requests, signIn[q].at = "checking",
           NEW outcome \in {"password_failed", "password_verified"},
           T!FinishAttempt(signIn[q].row, outcome), now' = now
    PROVE  /\ Fades /\ attempts' = [r \in DOMAIN attempts |-> attempts'[r]]
           /\ \A r \in DOMAIN attempts : attempts'[r] \in T!Row
  <1>1. PICK c : c = signIn[q].row /\ c \in DOMAIN attempts
    BY DEF ThrottleInv
  <1>2. /\ attempts[c] \in T!Row /\ now \in 0..MaxTime
        /\ \A r \in DOMAIN attempts : attempts[r] \in T!Row
        /\ attempts = [r \in DOMAIN attempts |-> attempts[r]]
    <2>1. attempts \in [1..Len(attempts) -> T!Row] /\ DOMAIN attempts = 1..Len(attempts)
      BY AttemptRows, LenProperties
    <2> QED
      BY <1>1, <2>1, AttemptRows
  <1>3. CASE attempts[c].outcome # "pending"
    <2>1. attempts' = attempts
      BY <1>1, <1>3 DEF T!FinishAttempt
    <2> QED
      BY <1>2, <2>1 DEF Fades, Holds, T!Counted, T!Rows, T!Outlived, T!Expiry
  <1>4. CASE attempts[c].outcome = "pending"
    <2>1. attempts' = [attempts EXCEPT ![c].outcome = outcome, ![c].completed = now]
      BY <1>1, <1>4 DEF T!FinishAttempt
    <2>2. PICK row : /\ row = [attempts[c] EXCEPT !.outcome = outcome, !.completed = now]
                     /\ DOMAIN attempts' = DOMAIN attempts /\ attempts'[c] = row
                     /\ \A r \in DOMAIN attempts : r # c => attempts'[r] = attempts[r]
                     /\ attempts' = [r \in DOMAIN attempts |-> attempts'[r]]
      <3>1. attempts'[c] = [attempts[c] EXCEPT !.outcome = outcome, !.completed = now]
        BY <1>1, <1>2, <2>1 DEF T!Row
      <3>2. /\ DOMAIN attempts' = DOMAIN attempts
            /\ \A r \in DOMAIN attempts : r # c => attempts'[r] = attempts[r]
        BY <1>1, <1>2, <2>1
      <3>3. attempts' = [r \in DOMAIN attempts |-> attempts'[r]]
        BY <1>1, <1>2, <2>1
      <3> QED
        BY <3>1, <3>2, <3>3
    <2>3. /\ row \in T!Row /\ row.outcome = outcome /\ row.completed = now
          /\ row.identifier = attempts[c].identifier /\ row.requester = attempts[c].requester
          /\ row.created = attempts[c].created /\ row.cleared = attempts[c].cleared
      BY <1>2, <2>2 DEF T!Row
    <2>4. /\ DOMAIN attempts' = DOMAIN attempts /\ attempts'[c] = row
          /\ \A r \in DOMAIN attempts : r # c => attempts'[r] = attempts[r]
          /\ attempts' = [r \in DOMAIN attempts |-> attempts'[r]]
      BY <1>1, <1>2, <2>2
    <2>5. attempts[c].created \in Int /\ now \in Int /\ PendingTtl \in Int
      BY <1>2, ThrottleBounds DEF T!Row
    <2>6. Holds(c)' => Holds(c)
      BY <1>1, <1>4, <2>3, <2>4, <2>5
      DEF Holds, T!Counted, T!Rows, T!Outlived, T!Expiry
    <2>7. \A r \in DOMAIN attempts : r # c => (Holds(r)' <=> Holds(r))
      BY <2>4 DEF Holds, T!Counted, T!Rows, T!Outlived, T!Expiry
    <2>8. Fades
      BY <1>1, <1>4, <2>3, <2>4, <2>6, <2>7 DEF Fades
    <2> QED
      BY <1>2, <2>3, <2>4, <2>8
  <1> QED
    BY <1>3, <1>4

\* Clearing failures and completing a login take places from the buckets only.
LEMMA ClearFades ==
    ASSUME ThrottleInv, NEW i, T!ClearFailures(i) \/ T!CompleteLogin(i), now' = now
    PROVE  /\ Fades /\ attempts' = [r \in DOMAIN attempts |-> attempts'[r]]
           /\ \A r \in DOMAIN attempts : attempts'[r] \in T!Row
  <1>1. /\ DOMAIN attempts' = DOMAIN attempts
        /\ attempts' = [r \in DOMAIN attempts |-> attempts'[r]]
        /\ \A r \in DOMAIN attempts :
              \/ attempts'[r] = attempts[r]
              \/ attempts'[r] = [attempts[r] EXCEPT !.cleared = TRUE]
              \/ /\ attempts[r].outcome = "password_verified"
                 /\ attempts'[r] = [attempts[r] EXCEPT !.outcome = "succeeded"]
    BY DEF T!ClearFailures, T!CompleteLogin, T!Cleared, T!Rows
  <1>2. \A r \in DOMAIN attempts :
           /\ attempts'[r] \in T!Row /\ attempts'[r].identifier = attempts[r].identifier
           /\ attempts'[r].requester = attempts[r].requester
           /\ attempts'[r].created = attempts[r].created
           /\ attempts'[r].completed = attempts[r].completed
           /\ attempts[r].cleared => attempts'[r].cleared
           /\ attempts'[r].outcome = attempts[r].outcome \/ attempts'[r].outcome = "succeeded"
    <2> SUFFICES ASSUME NEW r \in DOMAIN attempts
                 PROVE  /\ attempts'[r] \in T!Row
                        /\ attempts'[r].identifier = attempts[r].identifier
                        /\ attempts'[r].requester = attempts[r].requester
                        /\ attempts'[r].created = attempts[r].created
                        /\ attempts'[r].completed = attempts[r].completed
                        /\ attempts[r].cleared => attempts'[r].cleared
                        /\ \/ attempts'[r].outcome = attempts[r].outcome
                           \/ attempts'[r].outcome = "succeeded"
      OBVIOUS
    <2>1. attempts[r] \in T!Row
      BY AttemptRows
    <2>2. CASE attempts'[r] = attempts[r]
      BY <2>1, <2>2
    <2>3. CASE attempts'[r] = [attempts[r] EXCEPT !.cleared = TRUE]
      BY <2>1, <2>3 DEF T!Row
    <2>4. CASE attempts'[r] = [attempts[r] EXCEPT !.outcome = "succeeded"]
      BY <2>1, <2>4 DEF T!Row
    <2> QED
      BY <1>1, <2>2, <2>3, <2>4
  <1>3. \A r \in DOMAIN attempts : Holds(r)' => Holds(r)
    BY <1>1, <1>2 DEF Holds, T!Counted, T!Rows, T!Outlived, T!Expiry
  <1>4. Fades
    <2> SUFFICES ASSUME NEW r \in DOMAIN attempts, Holds(r)'
                 PROVE  ~attempts'[r].cleared \/ attempts'[r].outcome = "pending" =>
                           ~attempts[r].cleared \/ attempts[r].outcome = "pending"
      BY <1>1, <1>2, <1>3 DEF Fades
    <2> QED
      BY <1>2 DEF Holds, T!Counted
  <1> QED
    BY <1>1, <1>2, <1>4

LEMMA TickKeeps == ThrottleInv /\ T!Tick => ThrottleInv'
  <1> SUFFICES ASSUME ThrottleInv, T!Tick PROVE ThrottleInv'
    OBVIOUS
  <1>1. /\ attempts' = attempts /\ signIn' = signIn /\ now' = now + 1 /\ now \in Int
        /\ now' \in 0..MaxTime
    BY AttemptRows, ThrottleBounds DEF T!Tick
  <1>2. \A r \in DOMAIN attempts : T!Expiry(r) \in Int /\ T!Expiry(r)' = T!Expiry(r)
    BY <1>1, AttemptRows, ThrottleBounds DEF T!Expiry, T!Row
  <1>3. \A r \in DOMAIN attempts : Holds(r)' => Holds(r)
    BY <1>1, <1>2 DEF Holds, T!Counted, T!Rows, T!Outlived
  <1>4. Fades
    BY <1>1, <1>3 DEF Fades
  <1>5. T!TypeOK'
    BY <1>1 DEF ThrottleInv, T!TypeOK
  <1> QED
    BY <1>1, <1>4, <1>5, FadingKeeps DEF ThrottleInv

\* What a new row changes: nothing but, if it is a reservation, its own two buckets.
LEMMA AppendedRow ==
    ASSUME ThrottleInv, Len(attempts) < MaxRows, now' = now, NEW row \in T!Row,
           attempts' = Append(attempts, row), row.outcome \in {"pending", "throttled"}
    PROVE  LET own == IF row.outcome = "pending" THEN {Len(attempts) + 1} ELSE {} IN
           /\ attempts' \in Seq(T!Row) /\ Len(attempts') = Len(attempts) + 1
           /\ DOMAIN attempts \subseteq DOMAIN attempts' /\ Len(attempts) + 1 \in DOMAIN attempts'
           /\ \A i : Guesses(i)' \subseteq Guesses(i) \cup (IF i = row.identifier THEN own ELSE {})
           /\ \A s : Sent(s)' \subseteq Sent(s) \cup (IF s = row.requester THEN own ELSE {})
  <1> DEFINE new == Len(attempts) + 1
  <1>1. attempts \in Seq(T!Row) /\ DOMAIN attempts = 1..Len(attempts) /\ Len(attempts) \in Nat
    BY AttemptRows
  <1>2. /\ attempts' \in Seq(T!Row) /\ Len(attempts') = Len(attempts) + 1
        /\ attempts'[new] = row /\ \A r \in 1..Len(attempts) : attempts'[r] = attempts[r]
    BY <1>1, AppendProperties
  <1>3. DOMAIN attempts' = DOMAIN attempts \cup {new}
    <2>1. DOMAIN attempts' = 1..(Len(attempts) + 1)
      BY <1>2, LenProperties
    <2> QED
      BY <1>1, <2>1
  <1>4. \A r \in DOMAIN attempts : Holds(r)' <=> Holds(r)
    <2> SUFFICES ASSUME NEW r \in DOMAIN attempts PROVE Holds(r)' <=> Holds(r)
      OBVIOUS
    <2>1. r \in DOMAIN attempts' /\ attempts'[r] = attempts[r] /\ now' = now
      BY <1>1, <1>2, <1>3
    <2> QED
      BY <2>1 DEF Holds, T!Counted, T!Rows, T!Outlived, T!Expiry
  <1>5. \A i : Guesses(i)' \subseteq Guesses(i) \cup
           (IF i = row.identifier /\ row.outcome = "pending" THEN {new} ELSE {})
    <2> SUFFICES ASSUME NEW i, NEW r \in Guesses(i)'
                 PROVE  \/ r \in Guesses(i)
                        \/ r = new /\ i = row.identifier /\ row.outcome = "pending"
      OBVIOUS
    <2>1. /\ r \in DOMAIN attempts' /\ Holds(r)' /\ attempts'[r].identifier = i
          /\ attempts'[r].outcome = "pending" \/ ~attempts'[r].cleared
          /\ attempts'[r].outcome \in {"pending", "password_failed"}
      BY DEF Guesses, T!IdentifierCounted, T!Counted, T!Rows, Holds
    <2>2. CASE r = new
      BY <1>2, <2>1, <2>2
    <2>3. CASE r \in DOMAIN attempts
      <3>1. Holds(r) /\ attempts'[r] = attempts[r]
        BY <1>1, <1>2, <1>4, <2>1, <2>3
      <3> QED
        BY <2>1, <3>1 DEF Guesses, T!IdentifierCounted, Holds
    <2> QED
      BY <1>3, <2>1, <2>2, <2>3
  <1>6. \A s : Sent(s)' \subseteq Sent(s) \cup
           (IF s = row.requester /\ row.outcome = "pending" THEN {new} ELSE {})
    <2> SUFFICES ASSUME NEW s, NEW r \in Sent(s)'
                 PROVE  \/ r \in Sent(s)
                        \/ r = new /\ s = row.requester /\ row.outcome = "pending"
      OBVIOUS
    <2>1. /\ r \in DOMAIN attempts' /\ Holds(r)' /\ attempts'[r].requester = s
          /\ attempts'[r].outcome \in {"pending", "password_failed"}
      BY DEF Sent, T!SourceCounted, T!Counted, T!Rows, Holds
    <2>2. CASE r = new
      BY <1>2, <2>1, <2>2
    <2>3. CASE r \in DOMAIN attempts
      <3>1. Holds(r) /\ attempts'[r] = attempts[r]
        BY <1>1, <1>2, <1>4, <2>1, <2>3
      <3> QED
        BY <2>1, <3>1 DEF Sent, T!SourceCounted, Holds
    <2> QED
      BY <1>3, <2>1, <2>2, <2>3
  <1> QED
    BY <1>2, <1>3, <1>5, <1>6

LEMMA OneMore ==
    ASSUME NEW S, NEW P, NEW new, NEW limit \in Nat, IsFiniteSet(S), S \subseteq P,
           IsFiniteSet(P), Cardinality(P) < limit, NEW N, N \subseteq S \cup {new}
    PROVE  Cardinality(N) <= limit
  <1>1. /\ Cardinality(S) <= Cardinality(P) /\ Cardinality(S) \in Nat /\ Cardinality(P) \in Nat
    BY FS_Subset, FS_CardinalityType
  <1>2. /\ IsFiniteSet(S \cup {new})
        /\ Cardinality(S \cup {new}) = Cardinality(S) \/ Cardinality(S \cup {new}) = Cardinality(S) + 1
    BY FS_AddElement
  <1>3. Cardinality(N) <= Cardinality(S \cup {new}) /\ IsFiniteSet(N)
    BY <1>2, FS_Subset
  <1>4. Cardinality(N) \in Nat /\ Cardinality(S \cup {new}) \in Nat
    BY <1>2, <1>3, FS_CardinalityType
  <1> QED
    BY <1>1, <1>2, <1>3, <1>4

\* The check and the reservation are one transaction: whoever takes the last place of
\* a bucket has counted the others in it.
LEMMA LoginKeeps ==
    ASSUME ThrottleInv, NEW q \in Requests, T!Login(q) PROVE ThrottleInv'
  <1>1. PICK i \in Identifiers, s \in Requesters : T!ReserveAttempt(q, i, s)
    BY DEF T!Login
  <1>2. Len(attempts) < MaxRows /\ now' = now /\ now \in 0..MaxTime
    BY AttemptRows DEF T!Login
  <1>3. \A i1 \in Identifiers : Cardinality(Guesses(i1)) <= IdLimit
    BY LimitsAreSets DEF ThrottleInv
  <1>4. \A s1 \in Requesters : Cardinality(Sent(s1)) <= SourceLimit
    BY LimitsAreSets DEF ThrottleInv
  <1>5. ASSUME NEW S, NEW N, NEW limit \in Nat, IsFiniteSet(S), N \subseteq S,
               Cardinality(S) <= limit
        PROVE  Cardinality(N) <= limit
    BY <1>5, FS_Subset, FS_CardinalityType
  <1>6. ASSUME \A i1 \in Identifiers : Cardinality(Guesses(i1)') <= IdLimit,
               \A s1 \in Requesters : Cardinality(Sent(s1)') <= SourceLimit
        PROVE  T!LimitsHold'
    BY <1>6, ThrottleCardinality DEF T!LimitsHold, Guesses, Sent
  <1>7. CASE UNCHANGED attempts /\ T!Answer(q)
    <2>1. Fades
      BY <1>2, <1>7 DEF Fades, Holds, T!Counted, T!Rows, T!Outlived, T!Expiry
    <2>2. T!LimitsHold'
      BY <2>1, FadingKeeps
    <2> QED
      BY <1>2, <1>7, <2>2, AnsweredSignIn DEF ThrottleInv, T!TypeOK, Progress
  <1>8. CASE \E reason \in {"source", "identifier"} :
                attempts' = Append(attempts, T!NewRow(i, s, "throttled", reason)) /\ T!Answer(q)
    <2>1. PICK reason \in {"source", "identifier"} :
             attempts' = Append(attempts, T!NewRow(i, s, "throttled", reason)) /\ T!Answer(q)
      BY <1>8
    <2>2. PICK row : row = T!NewRow(i, s, "throttled", reason)
      OBVIOUS
    <2>3. row \in T!Row /\ row.outcome = "throttled"
      BY <1>2, <2>2 DEF T!NewRow, T!Row
    <2>4. attempts' = Append(attempts, row)
      BY <2>1, <2>2
    <2>5. /\ attempts' \in Seq(T!Row) /\ Len(attempts') = Len(attempts) + 1
          /\ DOMAIN attempts \subseteq DOMAIN attempts'
          /\ \A i1 : Guesses(i1)' \subseteq Guesses(i1)
          /\ \A s1 : Sent(s1)' \subseteq Sent(s1)
      BY <1>2, <2>3, <2>4, AppendedRow
    <2>6. T!LimitsHold'
      BY <1>3, <1>4, <1>5, <1>6, <2>5, BucketsFinite, ThrottleBounds
    <2>7. Len(attempts') <= MaxRows
      BY <1>2, <2>5, AttemptRows, ThrottleBounds
    <2> QED
      BY <1>2, <2>1, <2>5, <2>6, <2>7, AnsweredSignIn DEF ThrottleInv, T!TypeOK, Progress
  <1>9. CASE /\ ~(Cardinality(T!SourceCounted(s)) >= SourceLimit)
             /\ ~(Cardinality(T!IdentifierCounted(i)) >= IdLimit)
             /\ attempts' = Append(attempts, T!NewRow(i, s, "pending", "none"))
             /\ signIn' = [signIn EXCEPT ![q] = [at |-> "checking", row |-> Len(attempts) + 1]]
    <2>1. PICK row : row = T!NewRow(i, s, "pending", "none")
      OBVIOUS
    <2>2. row \in T!Row /\ row.outcome = "pending" /\ row.identifier = i /\ row.requester = s
      BY <1>2, <2>1 DEF T!NewRow, T!Row, T!Never
    <2>3. attempts' = Append(attempts, row)
      BY <1>9, <2>1
    <2> DEFINE new == Len(attempts) + 1
    <2>4. /\ attempts' \in Seq(T!Row) /\ Len(attempts') = Len(attempts) + 1
          /\ DOMAIN attempts \subseteq DOMAIN attempts' /\ new \in DOMAIN attempts'
          /\ \A i1 : Guesses(i1)' \subseteq Guesses(i1) \cup (IF i1 = i THEN {new} ELSE {})
          /\ \A s1 : Sent(s1)' \subseteq Sent(s1) \cup (IF s1 = s THEN {new} ELSE {})
      BY <1>2, <2>2, <2>3, AppendedRow
    <2>5. Cardinality(T!SourceCounted(s)) < SourceLimit /\ Cardinality(T!IdentifierCounted(i)) < IdLimit
      BY <1>9, BucketsFinite, ThrottleBounds
    <2>6. Cardinality(Guesses(i)') <= IdLimit
      <3>1. /\ Guesses(i)' \subseteq Guesses(i) \cup {new} /\ IdLimit \in Nat
            /\ IsFiniteSet(Guesses(i)) /\ IsFiniteSet(T!IdentifierCounted(i))
            /\ Guesses(i) \subseteq T!IdentifierCounted(i)
        BY <2>4, BucketsFinite, ThrottleBounds
      <3> QED
        BY <2>5, <3>1, OneMore
    <2>7. Cardinality(Sent(s)') <= SourceLimit
      <3>1. /\ Sent(s)' \subseteq Sent(s) \cup {new} /\ SourceLimit \in Nat
            /\ IsFiniteSet(Sent(s)) /\ IsFiniteSet(T!SourceCounted(s))
            /\ Sent(s) \subseteq T!SourceCounted(s)
        BY <2>4, BucketsFinite, ThrottleBounds
      <3> QED
        BY <2>5, <3>1, OneMore
    <2>8. \A i1 \in Identifiers : Cardinality(Guesses(i1)') <= IdLimit
      BY <1>3, <1>5, <2>4, <2>6, BucketsFinite, ThrottleBounds
    <2>9. \A s1 \in Requesters : Cardinality(Sent(s1)') <= SourceLimit
      BY <1>4, <1>5, <2>4, <2>7, BucketsFinite, ThrottleBounds
    <2>10. T!LimitsHold'
      BY <1>6, <2>8, <2>9
    <2>11. Len(attempts') <= MaxRows /\ new \in 0..MaxRows
      BY <1>2, <2>4, AttemptRows, ThrottleBounds
    <2>12. /\ signIn' \in [Requests -> Progress]
           /\ \A p \in Requests : signIn'[p].at # "idle" => signIn'[p].row \in DOMAIN attempts'
      BY <1>9, <2>4, <2>11, AttemptRows DEF ThrottleInv, Progress
    <2> QED
      BY <1>2, <2>4, <2>10, <2>11, <2>12 DEF ThrottleInv, T!TypeOK, Progress
  <1> QED
    BY <1>1, <1>7, <1>8, <1>9, ThrottleCardinality DEF T!ReserveAttempt

LEMMA ThrottleInit == T!Init => ThrottleInv
  <1> SUFFICES ASSUME T!Init PROVE ThrottleInv
    OBVIOUS
  <1>1. attempts = <<>> /\ attempts \in Seq(T!Row) /\ Len(attempts) = 0 /\ DOMAIN attempts = {}
    BY EmptySeq DEF T!Init
  <1>2. T!TypeOK
    BY <1>1, ThrottleBounds DEF T!Init, T!TypeOK
  <1>3. T!LimitsHold
    <2>1. \A i : Guesses(i) = {}
      BY <1>1 DEF Guesses, T!IdentifierCounted, T!Counted, T!Rows
    <2>2. \A s : Sent(s) = {}
      BY <1>1 DEF Sent, T!SourceCounted, T!Counted, T!Rows
    <2> QED
      BY <2>1, <2>2, LimitsAreSets, FS_EmptySet, ThrottleBounds
  <1> QED
    BY <1>2, <1>3 DEF ThrottleInv, T!Init

LEMMA ThrottleNext == ThrottleInv /\ [T!Next]_(T!vars) => ThrottleInv'
  <1> SUFFICES ASSUME ThrottleInv, [T!Next]_(T!vars) PROVE ThrottleInv'
    OBVIOUS
  <1>1. CASE UNCHANGED T!vars
    <2>1. UNCHANGED <<attempts, signIn, now>>
      BY <1>1 DEF T!vars
    <2>2. Fades
      BY <2>1 DEF Fades, Holds, T!Counted, T!Rows, T!Outlived, T!Expiry
    <2> QED
      BY <2>1, <2>2, FadingKeeps DEF ThrottleInv, T!TypeOK
  <1>2. ASSUME NEW q \in Requests, T!PasswordFails(q) PROVE ThrottleInv'
    BY <1>2, FinishFades, AnsweredSignIn, RewrittenRows DEF T!PasswordFails
  <1>3. ASSUME NEW q \in Requests, T!PasswordMatches(q) PROVE ThrottleInv'
    <2>1. /\ signIn' \in [Requests -> Progress]
          /\ \A p \in Requests : signIn'[p].at # "idle" => signIn'[p].row \in DOMAIN attempts
      BY <1>3, AttemptRows DEF T!PasswordMatches, ThrottleInv, Progress
    <2> QED
      BY <1>3, <2>1, FinishFades, RewrittenRows DEF T!PasswordMatches
  <1>4. ASSUME NEW q \in Requests, T!SessionIssued(q) PROVE ThrottleInv'
    BY <1>4, ClearFades, AnsweredSignIn, RewrittenRows DEF T!SessionIssued
  <1>5. ASSUME NEW q \in Requests, T!Abandon(q) PROVE ThrottleInv'
    <2>1. Fades
      BY <1>5 DEF T!Abandon, Fades, Holds, T!Counted, T!Rows, T!Outlived, T!Expiry
    <2> QED
      BY <1>5, <2>1, AnsweredSignIn, FadingKeeps DEF T!Abandon, ThrottleInv, T!TypeOK, Progress
  <1>6. ASSUME NEW i \in Identifiers, T!AccountRecovered(i) PROVE ThrottleInv'
    <2>1. /\ signIn' \in [Requests -> Progress] /\ now' = now
          /\ \A p \in Requests : signIn'[p].at # "idle" => signIn'[p].row \in DOMAIN attempts
      BY <1>6, AttemptRows DEF T!AccountRecovered, ThrottleInv
    <2> QED
      BY <1>6, <2>1, ClearFades, RewrittenRows DEF T!AccountRecovered
  <1> QED
    BY <1>1, <1>2, <1>3, <1>4, <1>5, <1>6, LoginKeeps, TickKeeps DEF T!Next

----------------------------------------------------------------------------
(* Retry-After *)

LEMMA LeastNumber ==
    ASSUME NEW M \in SUBSET Nat, M # {}
    PROVE  \E m \in M : \A k \in M : m <= k
  <1> DEFINE F == {1..n : n \in M}
  <1>1. F \subseteq FiniteSubsetsOf(Nat) /\ F # {}
    <2>1. \A n \in M : 1..n \subseteq Nat /\ IsFiniteSet(1..n)
      BY FS_Interval
    <2> QED
      BY <2>1 DEF FiniteSubsetsOf
  <1>2. IsWellFoundedOn(StrictSubsetOrdering(Nat), FiniteSubsetsOf(Nat))
    BY FS_StrictSubsetOrderingWellFounded
  <1>3. PICK x \in F : \A y \in F : ~ (<<y, x>> \in StrictSubsetOrdering(Nat))
    <2> HIDE DEF F
    <2> QED
      BY <1>1, <1>2, WFMin
  <1>4. PICK m \in M : x = 1..m
    BY <1>3
  <1>5. ASSUME NEW k \in M, k < m PROVE FALSE
    <2>1. 1..k \in F /\ 1..k \subseteq 1..m /\ 1..k # 1..m /\ 1..m \subseteq Nat /\ 1..k \subseteq Nat
      BY <1>5
    <2>2. <<1..k, 1..m>> \in StrictSubsetOrdering(Nat)
      BY <2>1 DEF StrictSubsetOrdering
    <2> QED
      BY <2>1, <2>2, <1>3, <1>4
  <1> QED
    BY <1>5

\* The rows of a bucket that run out after one of its rows.
Later(rows, r) ==
    {x \in rows : \/ T!Expiry(x) > T!Expiry(r)
                  \/ T!Expiry(x) = T!Expiry(r) /\ x > r}

\* A bucket: some of the attempts, each with a time at which it runs out.
Bucket(rows) == /\ rows \subseteq Nat /\ IsFiniteSet(rows)
                /\ \A r \in rows : T!Expiry(r) \in Nat

LEMMA LaterRows ==
    ASSUME NEW rows, Bucket(rows), NEW r \in rows
    PROVE  /\ Later(rows, r) \subseteq rows \ {r}
           /\ IsFiniteSet(Later(rows, r)) /\ Cardinality(Later(rows, r)) \in Nat
           /\ \A x \in Later(rows, r) : Later(rows, x) \subseteq Later(rows, r) \ {x}
           /\ \A x \in rows \ {r} : x \in Later(rows, r) \/ r \in Later(rows, x)
  <1>1. rows \subseteq Nat /\ \A x \in rows : T!Expiry(x) \in Nat
    BY DEF Bucket
  <1>2. Later(rows, r) \subseteq rows \ {r}
    BY <1>1 DEF Later
  <1>3. IsFiniteSet(Later(rows, r)) /\ Cardinality(Later(rows, r)) \in Nat
    <2>1. IsFiniteSet(rows) /\ Later(rows, r) \subseteq rows
      BY <1>2 DEF Bucket
    <2>2. IsFiniteSet(Later(rows, r))
      BY <2>1, FS_Subset
    <2> QED
      BY <2>2, FS_CardinalityType
  <1>4. ASSUME NEW x \in Later(rows, r), NEW y \in Later(rows, x)
        PROVE  y \in Later(rows, r) \ {x}
    <2>1. x \in rows /\ y \in rows
      BY <1>4 DEF Later
    <2>2. /\ x \in Nat /\ y \in Nat /\ r \in Nat
          /\ T!Expiry(x) \in Nat /\ T!Expiry(y) \in Nat /\ T!Expiry(r) \in Nat
      BY <1>1, <2>1
    <2>3. /\ T!Expiry(x) > T!Expiry(r) \/ (T!Expiry(x) = T!Expiry(r) /\ x > r)
          /\ T!Expiry(y) > T!Expiry(x) \/ (T!Expiry(y) = T!Expiry(x) /\ y > x)
      BY <1>4 DEF Later
    <2>4. y # x /\ (T!Expiry(y) > T!Expiry(r) \/ (T!Expiry(y) = T!Expiry(r) /\ y > r))
      BY <2>2, <2>3
    <2> QED
      BY <2>1, <2>4 DEF Later
  <1>5. \A x \in rows \ {r} : x \in Later(rows, r) \/ r \in Later(rows, x)
    BY <1>1 DEF Later
  <1> QED
    BY <1>2, <1>3, <1>4, <1>5

\* Of the rows that are left when the latest are taken away, one is the latest.
LEMMA LatestOfRest ==
    ASSUME NEW rows, Bucket(rows), NEW taken, rows \ taken # {}
    PROVE  \E r \in rows \ taken : Later(rows, r) \subseteq taken
  <1> DEFINE counts == {Cardinality(Later(rows, r)) : r \in rows \ taken}
  <1>1. counts \in SUBSET Nat /\ counts # {}
    BY LaterRows
  <1>2. PICK least \in counts : \A k \in counts : least <= k
    <2> HIDE DEF counts
    <2> QED
      BY <1>1, LeastNumber
  <1>3. PICK r \in rows \ taken : least = Cardinality(Later(rows, r))
    BY <1>2
  <1>4. ASSUME NEW x \in Later(rows, r), x \notin taken PROVE FALSE
    <2>1. x \in rows \ taken
      BY <1>4, LaterRows
    <2>2. /\ IsFiniteSet(Later(rows, r)) /\ Cardinality(Later(rows, r)) \in Nat
          /\ Later(rows, x) \subseteq Later(rows, r) /\ x \notin Later(rows, x)
      BY <1>4, LaterRows
    <2>3. Later(rows, x) # Later(rows, r)
      BY <1>4, <2>2
    <2>4. /\ Cardinality(Later(rows, x)) < Cardinality(Later(rows, r))
          /\ Cardinality(Later(rows, x)) \in Nat
      BY <2>2, <2>3, FS_Subset, FS_CardinalityType
    <2>5. least <= Cardinality(Later(rows, x))
      BY <1>2, <2>1
    <2> QED
      BY <1>3, <2>2, <2>4, <2>5
  <1> QED
    BY <1>4

\* Every place of the order is taken.
LEMMA PlacesAreTaken ==
    ASSUME NEW rows, Bucket(rows), NEW k \in Nat, k < Cardinality(rows)
    PROVE  \E r \in rows : Cardinality(Later(rows, r)) = k
  <1> DEFINE free == {n \in Nat : n < Cardinality(rows)
                                  /\ ~ \E r \in rows : Cardinality(Later(rows, r)) = n}
  <1> SUFFICES ASSUME free # {} PROVE FALSE
    OBVIOUS
  <1>0. IsFiniteSet(rows) /\ Cardinality(rows) \in Nat
    BY FS_CardinalityType DEF Bucket
  <1>1. PICK m \in free : \A n \in free : m <= n
    <2>1. free \in SUBSET Nat
      OBVIOUS
    <2> HIDE DEF free
    <2> QED
      BY <2>1, LeastNumber
  <1>2. /\ m \in Nat /\ m < Cardinality(rows)
        /\ \A r \in rows : Cardinality(Later(rows, r)) # m
    OBVIOUS
  <1>3. CASE m = 0
    <2>1. rows # {}
      BY <1>0, <1>2, <1>3, FS_EmptySet
    <2>2. PICK r \in rows : Later(rows, r) \subseteq {}
      BY <2>1, LatestOfRest
    <2> QED
      BY <1>2, <1>3, <2>2, FS_EmptySet
  <1>4. CASE m # 0
    <2>1. m - 1 \in Nat /\ m - 1 < Cardinality(rows) /\ m - 1 \notin free
      BY <1>0, <1>1, <1>2, <1>4
    <2>2. PICK r \in rows : Cardinality(Later(rows, r)) = m - 1
      BY <2>1
    <2> DEFINE taken == Later(rows, r) \cup {r}
    <2>3. IsFiniteSet(Later(rows, r)) /\ r \notin Later(rows, r) /\ taken \subseteq rows
      BY LaterRows
    <2>4. IsFiniteSet(taken) /\ Cardinality(taken) = m
      BY <1>2, <2>2, <2>3, FS_AddElement
    <2>5. rows \ taken # {}
      <3> HIDE DEF taken
      <3>1. rows # taken
        BY <1>2, <2>4
      <3> QED
        BY <2>3, <3>1
    <2>6. PICK x \in rows \ taken : Later(rows, x) \subseteq taken
      <3> HIDE DEF taken
      <3> QED
        BY <2>5, LatestOfRest
    <2>7. r \in Later(rows, x)
      BY <2>6, LaterRows
    <2>8. Later(rows, r) \subseteq Later(rows, x)
      BY <2>6, <2>7, LaterRows
    <2>9. Later(rows, x) = taken
      BY <2>6, <2>7, <2>8
    <2> QED
      BY <1>2, <2>4, <2>6, <2>9
  <1> QED
    BY <1>3, <1>4

\* The time of a refused bucket: of all its rows exactly limit - 1 come after it.
LEMMA ReleaseIsExact ==
    ASSUME NEW rows, Bucket(rows), NEW limit \in Nat \ {0}, limit <= Cardinality(rows)
    PROVE  \E r \in rows :
              /\ T!Release(rows, limit) = T!Expiry(r)
              /\ Cardinality({x \in rows : T!Expiry(x) > T!Expiry(r)}) < limit
              /\ ~ (Cardinality({x \in rows : T!Expiry(x) > T!Expiry(r) - 1}) < limit)
  <1>1. limit - 1 \in Nat /\ limit - 1 < Cardinality(rows)
    BY FS_CardinalityType DEF Bucket
  <1>2. \E r \in rows : Cardinality(Later(rows, r)) = limit - 1
    BY <1>1, PlacesAreTaken
  <1> DEFINE r == CHOOSE r \in rows : Cardinality(Later(rows, r)) = limit - 1
  <1>3. r \in rows /\ Cardinality(Later(rows, r)) = limit - 1
    BY <1>2
  <1>4. T!Release(rows, limit) = T!Expiry(r)
    BY ThrottleCardinality DEF T!Release, Later
  <1> HIDE DEF r
  <1>5. rows \subseteq Nat /\ IsFiniteSet(rows) /\ \A x \in rows : T!Expiry(x) \in Nat
    BY DEF Bucket
  <1>6. Cardinality({x \in rows : T!Expiry(x) > T!Expiry(r)}) < limit
    <2>1. {x \in rows : T!Expiry(x) > T!Expiry(r)} \subseteq Later(rows, r)
      BY DEF Later
    <2>2. IsFiniteSet(Later(rows, r))
      BY <1>3, LaterRows
    <2> DEFINE after == {x \in rows : T!Expiry(x) > T!Expiry(r)}
    <2>3. Cardinality(after) <= Cardinality(Later(rows, r)) /\ Cardinality(after) \in Nat
      BY <2>1, <2>2, FS_Subset, FS_CardinalityType
    <2> QED
      BY <1>3, <2>3
  <1>7. ~ (Cardinality({x \in rows : T!Expiry(x) > T!Expiry(r) - 1}) < limit)
    <2> DEFINE before == {x \in rows : T!Expiry(x) > T!Expiry(r) - 1}
    <2>1. Later(rows, r) \cup {r} \subseteq before
      <3>1. \A x \in Later(rows, r) : x \in rows /\ T!Expiry(x) >= T!Expiry(r)
        BY <1>3, <1>5 DEF Later
      <3>2. \A x \in rows : T!Expiry(x) >= T!Expiry(r) => T!Expiry(x) > T!Expiry(r) - 1
        BY <1>3, <1>5
      <3>3. T!Expiry(r) >= T!Expiry(r)
        BY <1>3, <1>5
      <3> QED
        BY <1>3, <3>1, <3>2, <3>3
    <2>2. IsFiniteSet(before)
      BY <1>5, FS_Subset
    <2>3. IsFiniteSet(Later(rows, r)) /\ r \notin Later(rows, r)
      BY <1>3, LaterRows
    <2>4. Cardinality(Later(rows, r) \cup {r}) = limit
      BY <1>3, <2>3, FS_AddElement
    <2> HIDE DEF before
    <2>5. limit <= Cardinality(before) /\ Cardinality(before) \in Nat
      BY <2>1, <2>2, <2>4, FS_Subset, FS_CardinalityType
    <2> QED
      BY <2>5 DEF before
  <1> QED
    BY <1>3, <1>4, <1>6, <1>7

\* Whoever is refused is told the first time at which the bucket has a place again.
LEMMA RetryIsExact ==
    ASSUME ThrottleInv PROVE T!RetryAfterIsExact
  <1>1. \A r \in T!Counted : r \in Nat /\ T!Expiry(r) \in Nat /\ T!Expiry(r) > now
    <2>1. /\ \A r \in T!Counted : r \in 1..Len(attempts) /\ T!Expiry(r) > now
          /\ DOMAIN attempts = 1..Len(attempts) /\ Len(attempts) \in Nat
      BY AttemptRows DEF T!Counted, T!Rows
    <2>2. \A r \in 1..Len(attempts) : attempts[r].created \in 0..MaxTime
      BY AttemptRows DEF T!Row
    <2> QED
      BY <2>1, <2>2, ThrottleBounds DEF T!Expiry
  <1>2. ASSUME NEW rows, IsFiniteSet(rows), rows \subseteq T!Counted,
               NEW limit \in Nat \ {0}, limit <= Cardinality(rows)
        PROVE  /\ T!Release(rows, limit) > now
               /\ Cardinality({r \in rows : T!Expiry(r) > T!Release(rows, limit)}) < limit
               /\ ~ (Cardinality({r \in rows : T!Expiry(r) > T!Release(rows, limit) - 1}) < limit)
    <2>1. Bucket(rows)
      BY <1>1, <1>2 DEF Bucket
    <2>2. PICK r \in rows :
              /\ T!Release(rows, limit) = T!Expiry(r)
              /\ Cardinality({x \in rows : T!Expiry(x) > T!Expiry(r)}) < limit
              /\ ~ (Cardinality({x \in rows : T!Expiry(x) > T!Expiry(r) - 1}) < limit)
      BY <1>2, <2>1, ReleaseIsExact
    <2> QED
      BY <1>1, <1>2, <2>2
  <1>3. \A s : IsFiniteSet(T!SourceCounted(s)) /\ T!SourceCounted(s) \subseteq T!Counted
               /\ Cardinality(T!SourceCounted(s)) \in Nat
    BY BucketsFinite DEF T!SourceCounted
  <1>4. \A i : IsFiniteSet(T!IdentifierCounted(i)) /\ T!IdentifierCounted(i) \subseteq T!Counted
               /\ Cardinality(T!IdentifierCounted(i)) \in Nat
    BY BucketsFinite DEF T!IdentifierCounted
  <1> SUFFICES ASSUME NEW i \in Identifiers, NEW s \in Requesters,
                      NEW bucket \in {<<T!SourceCounted(s), SourceLimit>>,
                                      <<T!IdentifierCounted(i), IdLimit>>},
                      Cardinality(bucket[1]) >= bucket[2]
               PROVE  /\ T!Release(bucket[1], bucket[2]) > now
                      /\ Cardinality({r \in bucket[1] :
                            T!Expiry(r) > T!Release(bucket[1], bucket[2])}) < bucket[2]
                      /\ ~ (Cardinality({r \in bucket[1] :
                            T!Expiry(r) > T!Release(bucket[1], bucket[2]) - 1}) < bucket[2])
    BY ThrottleCardinality DEF T!RetryAfterIsExact
  <1>5. bucket[2] \in Nat \ {0} /\ IsFiniteSet(bucket[1]) /\ bucket[1] \subseteq T!Counted
        /\ bucket[2] <= Cardinality(bucket[1])
    BY <1>3, <1>4, ThrottleBounds
  <1> QED
    BY <1>2, <1>5

\* Sign-in throttle: over all requests of all replicas, the guesses in flight and the
\* failures of the window stay within the limit of the identifier and of the requester,
\* and Retry-After is the first time at which the bucket that refused has a place again.
THEOREM ThrottleLimits == T!Spec => [](T!LimitsHold /\ T!RetryAfterIsExact)
  <1>1. ThrottleInv => T!LimitsHold /\ T!RetryAfterIsExact
    BY RetryIsExact DEF ThrottleInv
  <1> QED
    BY <1>1, ThrottleInit, ThrottleNext, PTL DEF T!Spec

----------------------------------------------------------------------------
(* The three of them side by side *)

AccountsInv == ThrottleInv /\ CredKept /\ UserInv

\* A step of a part is a step of its module and leaves the other two alone.
LEMMA PartStep ==
    ASSUME [MCNext]_vars
    PROVE  [T!Next]_(T!vars) /\ [C!Next]_(C!vars) /\ [U!Next]_(U!vars)
  <1>1. CASE UNCHANGED vars
    BY <1>1 DEF vars, throttle, credentials, access, T!vars, C!vars, U!vars
  <1>2. CASE T!Next /\ UNCHANGED <<credentials, access>>
    BY <1>2 DEF credentials, access, C!vars, U!vars
  <1>3. CASE C!PasswordNext /\ UNCHANGED <<throttle, access>>
    BY <1>3 DEF throttle, access, T!vars, U!vars, C!Next
  <1>4. CASE C!FactorNext /\ UNCHANGED <<throttle, access>>
    BY <1>4 DEF throttle, access, T!vars, U!vars, C!Next
  <1>5. CASE /\ UNCHANGED <<throttle, access>>
             /\ \E q \in Requests : C!SignIn(q) \/ C!RevokeUserSessions(q)
    BY <1>5 DEF throttle, access, T!vars, U!vars, C!Next, C!PasswordNext
  <1>6. CASE U!Next /\ UNCHANGED <<throttle, credentials>>
    BY <1>6 DEF throttle, credentials, T!vars, C!vars
  <1> QED
    BY <1>1, <1>2, <1>3, <1>4, <1>5, <1>6 DEF MCNext

LEMMA AccountsInvariant == MCSpec => []AccountsInv
  <1>1. MCInit => AccountsInv
    BY ThrottleInit, CredInit, UserInit DEF MCInit, AccountsInv
  <1>2. AccountsInv /\ [MCNext]_vars => AccountsInv'
    BY PartStep, ThrottleNext, CredNext, UserNext DEF AccountsInv
  <1> QED
    BY <1>1, <1>2, PTL DEF MCSpec

LEMMA AccountsTyped == AccountsInv => TypeOK
  <1> SUFFICES ASSUME AccountsInv PROVE TypeOK
    OBVIOUS
  <1>1. T!TypeOK
    BY DEF AccountsInv, ThrottleInv
  <1>2. C!TypeOK
    <2>1. FactorTypes /\ RowTypes /\ request \in [Requests -> Login]
      BY DEF AccountsInv, CredKept, CredInv
    <2>2. /\ \A c \in DOMAIN challenges : challenges[c] \in Challenge
          /\ \A s \in DOMAIN sessions : sessions[s] \in Session
          /\ \A l \in DOMAIN links : links[l] \in Link
      BY <2>1, LenProperties, ElementOfSeq DEF RowTypes
    <2>3. \A q \in Requests : request[q].at \in Steps /\ request[q].for \in Purposes
      BY <2>1 DEF Login
    <2> QED
      BY <2>1, <2>2, <2>3 DEF C!TypeOK, FactorTypes, RowTypes, Mfa, Challenge, Session, Link,
         Steps, Purposes
  <1>3. U!TypeOK
    <2>1. UserTypes
      BY DEF AccountsInv, UserInv
    <2>2. \A t \in DOMAIN tokens : tokens[t] \in Token
      BY <2>1, LenProperties, ElementOfSeq DEF UserTypes
    <2>3. \A q \in Requests : admin[q] \in RequestRow /\ admin[q].listed \subseteq DOMAIN tokens
      BY <2>1 DEF UserTypes
    <2> QED
      BY <2>1, <2>2, <2>3 DEF UserTypes, U!TypeOK, UserRow, Token, RequestRow, Roles
  <1> QED
    BY <1>1, <1>2, <1>3 DEF TypeOK

\* The variables of the three modules have their types.
THEOREM TypeCorrect == MCSpec => []TypeOK
  BY AccountsInvariant, AccountsTyped, PTL

\* The same for the run's instance: the guesses stay within both limits, and whoever is
\* refused is told the time to wait.
THEOREM ThrottleHolds == MCSpec => []ThrottleIsExact
  <1>1. AccountsInv => ThrottleIsExact
    BY RetryIsExact DEF AccountsInv, ThrottleInv, ThrottleIsExact
  <1> QED
    BY <1>1, AccountsInvariant, PTL

\* A challenge, a link and a recovery code are each used up by the first request whose
\* transaction accepts it, and an authenticator's code is accepted again only by another
\* enrolment than its own, begun after the code was checked (enable_mfa and
\* accept_mfa_counter do not ask for the secret): for any number of requests and limits.
THEOREM ProofsSpent == MCSpec => []ProofsAreSpentOnce
  <1>1. AccountsInv => ProofsAreSpentOnce
    BY DEF AccountsInv, CredKept, CredInv, FactorsKept, ChallengesKept, LinksKept, C!FactorsAreSpentOnce,
       ProofsAreSpentOnce
  <1> QED
    BY <1>1, AccountsInvariant, PTL

\* No session outlives its password and no token the access of its account, but for
\* the two overlaps that SessionsFollowPassword and WithdrawalEndsTokens name.
THEOREM AccessFollows == MCSpec => []AccessEnds
  <1>1. AccountsInv => AccessEnds
    BY DEF AccountsInv, CredKept, CredInv, UserInv, Ending, AccessEnds, U!WithdrawalEndsTokens
  <1> QED
    BY <1>1, AccountsInvariant, PTL

\* The last administrator is lost only to a request whose count of the administrators
\* was stale when it stored (update_user, update_user_status, delete_user).
THEOREM AdminsRemain == MCSpec => AdminsAreLostOnlyByOverlap
  <1> DEFINE Overlap == U!Admins # {} /\ U!Admins' = {} =>
                           \E q \in Requests :
                              admin[q].at = "store" /\ admin[q].counted # U!Admins
  <1>1. AccountsInv /\ [MCNext]_vars => [Overlap]_(U!vars)
    BY PartStep, LosingAdmins DEF AccountsInv
  <1> QED
    BY <1>1, AccountsInvariant, PTL DEF MCSpec, AdminsAreLostOnlyByOverlap,
       U!AdminsAreLostOnlyByOverlap
=============================================================================
