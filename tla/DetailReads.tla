----------------------------- MODULE DetailReads -----------------------------
(***************************************************************************)
(* How one N-central preview reads the details of the devices of its window *)
(* (NcentralClient.discover_devices): up to four workers read one device    *)
(* each, share the client's access token and renew it when the provider     *)
(* rejects it, and in full mode read the optional endpoints too, one of     *)
(* which takes a single call at a time.                                     *)
(*                                                                         *)
(* An action is one HTTP request, or one stretch of code under the token's  *)
(* lock.  An exchange of the token is such a stretch: it sends up to        *)
(* Attempts requests itself, while whoever needs a token waits.             *)
(***************************************************************************)
EXTENDS Integers, FiniteSets

CONSTANTS Devices,      \* bound: the window is 1..Devices
          Workers,      \* the threads of the pool
          Attempts,     \* MAX_PROVIDER_READ_ATTEMPTS (3 in the code)
          MaxRejected   \* bound: times the provider drops the tokens it issued

ReadAssumption ==
    /\ Devices \in Nat /\ MaxRejected \in Nat /\ IsFiniteSet(Workers)
    /\ Attempts \in Nat \ {0}

VARIABLES full,         \* the enrichment mode is "full"
          submitted,    \* devices handed to the pool, in order
          detail,       \* device -> what became of its read
          worker,       \* worker -> its place in read_enrichment and _get
          unavailable,  \* unavailable_optional_endpoints
          token,        \* _access_token: the number of its exchange, 0 for none
          issued,       \* exchanges that succeeded
          live,         \* tokens from this number on are accepted
          expired,      \* _access_token_expires_at has passed
          renewals,     \* times a token was dropped by the provider or expired
          late,         \* <<worker, optional endpoint>> -> the requests it sent there
                        \* after the endpoint was found unavailable
          cancel,       \* the operator asked the preview to stop
          outcome       \* of the reading: "reading", "done" or "cancelled"

vars == <<full, submitted, detail, worker, unavailable, token, issued, live, expired,
          renewals, late, cancel, outcome>>

Optional == {"lifecycle", "status", "maintenance"}
Idle == [device |-> 0, of |-> "assets", at |-> "idle", mine |-> 0, tries |-> 0]

Init ==
    /\ full \in BOOLEAN /\ submitted = 0 /\ detail = [d \in 1..Devices |-> "waiting"]
    /\ worker = [w \in Workers |-> Idle]
    /\ unavailable = {} /\ late = [x \in Workers \X Optional |-> 0]
    /\ token = 1 /\ issued = 1 /\ live = 1  \* the list of devices was read with it
    /\ expired = FALSE /\ renewals = 0
    /\ cancel = FALSE /\ outcome = "reading"

tokenVars == <<token, issued, live, expired, renewals>>
control == <<submitted, cancel, outcome>>

At(w, place) == worker' = [worker EXCEPT ![w].at = place]

----------------------------------------------------------------------------
(* The pool *)

Pending == {d \in 1..submitted : detail[d] \in {"waiting", "answered", "failing"}}

\* submit_next: the main thread keeps one device per worker in the pool.
Submit ==
    /\ outcome = "reading" /\ ~cancel
    /\ submitted < Devices /\ Cardinality(Pending) < Cardinality(Workers)
    /\ submitted' = submitted + 1
    /\ UNCHANGED <<full, detail, worker, unavailable, tokenVars, late, cancel, outcome>>

\* A worker takes the next device.
Take(w) ==
    LET free == {d \in 1..submitted : /\ detail[d] = "waiting"
                                      /\ \A v \in Workers : worker[v].device # d}
    IN /\ worker[w] = Idle /\ free # {}
       /\ outcome = "reading"  \* cancelled futures do not start
       /\ worker' = [worker EXCEPT ![w] = [device |-> CHOOSE d \in free : \A e \in free : d <= e,
                                           of |-> "assets", at |-> "token", mine |-> 0,
                                           tries |-> 0]]
       /\ UNCHANGED <<full, detail, unavailable, tokenVars, late, control>>

\* The main thread collects a finished read.
Collect(d) ==
    /\ outcome = "reading"
    /\ detail[d] \in {"answered", "failing"}
    /\ detail' = [detail EXCEPT ![d] = IF @ = "answered" THEN "read" ELSE "failed"]
    /\ UNCHANGED <<full, worker, unavailable, tokenVars, late, control>>

\* Between two waits it sees that it shall stop. The reads that run go on.
Stop ==
    /\ cancel /\ outcome = "reading" /\ Pending # {}
    /\ outcome' = "cancelled"
    /\ UNCHANGED <<full, submitted, detail, worker, unavailable, tokenVars, late, cancel>>

\* Nothing is pending. A preview that is cancelled this late ends in its caller.
Done ==
    /\ outcome = "reading" /\ Pending = {} /\ (cancel \/ submitted = Devices)
    /\ outcome' = "done"
    /\ UNCHANGED <<full, submitted, detail, worker, unavailable, tokenVars, late, cancel>>

RequestCancel ==
    /\ ~cancel /\ outcome = "reading" /\ cancel' = TRUE
    /\ UNCHANGED <<full, submitted, detail, worker, unavailable, tokenVars, late, outcome>>

----------------------------------------------------------------------------
(* The sections of one device: required assets, then the optional endpoints *)

Following(section) == CASE section = "assets" -> "lifecycle"
                        [] section = "lifecycle" -> "status"
                        [] section = "status" -> "maintenance"
                        [] section = "maintenance" -> "none"

\* The read of a section is over: the next one, or the device is finished.
Advance(w) ==
    LET s == Following(worker[w].of)
    IN IF ~full \/ s = "none"
       THEN /\ worker' = [worker EXCEPT ![w] = Idle]
            /\ detail' = [detail EXCEPT ![worker[w].device] = "answered"]
       ELSE /\ worker' = [worker EXCEPT ![w] = [@ EXCEPT !.of = s, !.at = "check", !.mine = 0, !.tries = 0]]
            /\ UNCHANGED detail

IsUnavailable(section) == section \in unavailable

\* An endpoint that another device found unavailable is skipped.
Check(w) ==
    /\ worker[w].at = "check"
    /\ IF IsUnavailable(worker[w].of)
       THEN Advance(w)
       ELSE At(w, IF worker[w].of = "lifecycle" THEN "gate" ELSE "token") /\ UNCHANGED detail
    /\ UNCHANGED <<full, unavailable, tokenVars, late, control>>

HoldsGate(w) == worker[w].of = "lifecycle" /\ worker[w].at \in {"token", "send", "renew", "replay"}

\* lifecycle_read_gate = Semaphore(1)
PassGate(w) ==
    /\ worker[w].at = "gate"
    /\ \A v \in Workers : ~HoldsGate(v)
    /\ At(w, "token")
    /\ UNCHANGED <<full, detail, unavailable, tokenVars, late, control>>

\* A read fails. Of the required section that fails the device; an optional one
\* is left out, and by a 403, 404 or 429 for the devices to come as well.
Failed(w, refused) ==
    IF worker[w].of = "assets"
    THEN /\ worker' = [worker EXCEPT ![w] = Idle]
         /\ detail' = [detail EXCEPT ![worker[w].device] = "failing"]
         /\ UNCHANGED unavailable
    ELSE /\ Advance(w)
         /\ unavailable' = IF refused THEN unavailable \cup {worker[w].of} ELSE unavailable

----------------------------------------------------------------------------
(* _get: one read, and one replay of it with a new token *)

\* authenticate, under the lock: what it leaves of the token.
Exchanged == token' = issued + 1 /\ issued' = issued + 1 /\ expired' = FALSE

\* _token. An exchange that fails, after its attempts, fails this read alone: the
\* next reader tries one of its own.
TakeToken(w) ==
    /\ worker[w].at = "token"
    /\ \/ /\ token # 0 /\ ~expired
          /\ worker' = [worker EXCEPT ![w].at = "send", ![w].mine = token]
          /\ UNCHANGED <<detail, unavailable, tokenVars>>
       \/ /\ token = 0 \/ expired
          /\ Exchanged
          /\ worker' = [worker EXCEPT ![w].at = "send", ![w].mine = issued + 1]
          /\ UNCHANGED <<detail, unavailable, live, renewals>>
       \/ /\ token = 0 \/ expired
          /\ \E refused \in BOOLEAN : Failed(w, refused)
          /\ UNCHANGED tokenVars
    /\ UNCHANGED <<full, late, control>>

Accepted(w) == worker[w].mine >= live

\* The request goes to an endpoint that is known to be unavailable by now.
Counted(w) ==
    late' = IF worker[w].of \in unavailable
            THEN [late EXCEPT ![<<w, worker[w].of>>] = @ + 1]
            ELSE late

\* _open_json: a 429, 502, 503 or 504 is tried again while attempts are left, after a
\* pause in which the worker keeps what it holds.
Retry(w) ==
    /\ worker[w].tries + 1 < Attempts
    /\ worker' = [worker EXCEPT ![w].tries = @ + 1]
    /\ UNCHANGED <<detail, unavailable>>

\* The answer that ends the read: the data, a failure, or a refusal.
Answer(w) ==
    \/ Accepted(w) /\ Advance(w) /\ UNCHANGED unavailable
    \/ \E refused \in BOOLEAN : Failed(w, refused)

Send(w) ==
    /\ worker[w].at = "send"
    /\ Counted(w)
    /\ \/ Retry(w) \/ Answer(w)
       \/ /\ ~Accepted(w)
          /\ worker' = [worker EXCEPT ![w].at = "renew", ![w].tries = 0]
          /\ UNCHANGED <<detail, unavailable>>
    /\ UNCHANGED <<full, tokenVars, control>>

\* Mutant: whoever is rejected renews the token.
AnyMayRenew(w) == TRUE

\* if self._access_token == token
MayRenew(w) == token = worker[w].mine

\* Of the readers of one rejected token the first renews it. When that fails the
\* token is gone, and the others go on with what they find.
Renew(w) ==
    /\ worker[w].at = "renew"
    /\ \/ /\ ~MayRenew(w)
          /\ worker' = [worker EXCEPT ![w].at = "replay", ![w].mine = token]
          /\ UNCHANGED <<detail, unavailable, tokenVars>>
       \/ /\ MayRenew(w)
          /\ Exchanged
          /\ worker' = [worker EXCEPT ![w].at = "replay", ![w].mine = issued + 1]
          /\ UNCHANGED <<detail, unavailable, live, renewals>>
       \/ /\ MayRenew(w)
          /\ token' = 0 /\ expired' = TRUE
          /\ \E refused \in BOOLEAN : Failed(w, refused)
          /\ UNCHANGED <<issued, live, renewals>>
    /\ UNCHANGED <<full, late, control>>

\* A rejected replay is a failure like any other. (An empty token is rejected.)
Replay(w) ==
    /\ worker[w].at = "replay"
    /\ Counted(w)
    /\ Retry(w) \/ Answer(w)
    /\ UNCHANGED <<full, tokenVars, control>>

\* The provider drops its tokens, or the present one runs out of time.
Drop ==
    /\ renewals < MaxRejected /\ token # 0 /\ ~expired /\ token >= live
    /\ renewals' = renewals + 1
    /\ \/ live' = issued + 1 /\ UNCHANGED expired
       \/ expired' = TRUE /\ UNCHANGED live
    /\ UNCHANGED <<full, detail, worker, unavailable, late, token, issued, control>>

Next == \/ Submit \/ Stop \/ Done \/ RequestCancel \/ Drop
        \/ \E d \in 1..Devices : Collect(d)
        \/ \E w \in Workers : \/ Take(w) \/ Check(w) \/ PassGate(w)
                              \/ TakeToken(w) \/ Send(w) \/ Renew(w) \/ Replay(w)

Spec == Init /\ [][Next]_vars

----------------------------------------------------------------------------
Places == {"idle", "check", "gate", "token", "send", "renew", "replay"}

TypeOK ==
    /\ submitted \in 0..Devices
    /\ detail \in [1..Devices -> {"waiting", "answered", "failing", "read", "failed"}]
    /\ worker \in [Workers -> [device : 0..Devices, of : {"assets"} \cup Optional,
                               at : Places, mine : Nat, tries : 0..(Attempts - 1)]]
    /\ unavailable \subseteq Optional /\ late \in [Workers \X Optional -> Nat]
    /\ token \in 0..issued /\ live \in 1..(issued + 1)
    /\ outcome \in {"reading", "done", "cancelled"}

\* The preview spares the provider what it can. One lifecycle read at a time (the
\* provider's documented limit). Once an endpoint is found unavailable, a worker that was
\* on its way to it sends what is left of that one read, its attempts before and after a
\* rejected token, and no worker reads it again. And however many readers a token
\* rejects, one exchange succeeds for each token that was dropped or expired.
ProviderIsSpared ==
    /\ Cardinality({w \in Workers : HoldsGate(w)}) <= 1
    /\ \A w \in Workers, s \in Optional : late[<<w, s>>] <= 2 * Attempts
    /\ issued <= 1 + renewals
=============================================================================
