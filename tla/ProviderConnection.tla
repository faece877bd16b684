------------------------- MODULE ProviderConnection -------------------------
(***************************************************************************)
(* The root connection of one provider: its encrypted tokens, lifecycle and *)
(* revision, the connection tests, and the setup status an administrator is *)
(* shown (src/backend/main.py, src/src/cmdb/repository.py).                 *)
(*                                                                         *)
(* A save reads the row, builds the whole credential bundle from what it    *)
(* read, and replaces the row if the revision the form was opened at is     *)
(* still the row's.  A request may leave that revision out.  Replicas       *)
(* interleave between the read and the write.  A test reads the saved       *)
(* credentials, calls the provider, and only then the revision that its     *)
(* result is labelled with.                                                 *)
(***************************************************************************)
EXTENDS Integers, FiniteSets

CONSTANTS Kinds,          \* subset of {"ncentral", "connectwise"}
          Users, Testers,
          Situations,     \* sets of customers the setup status is shown for
          MaxRevision     \* bound on the saves

ConnectionAssumption == MaxRevision \in Nat \ {0}

Idle == [pc |-> "idle"]
Tests == {"rest", "graphql"}

\* What the container may set: credentials of either kind, and for those of
\* "graphql" that it is not enabled, or has no source server.
Settings == Tests \cup {"graphql_off", "graphql_unbound"}

\* What the form of each operation may hold.
Forms ==
    [op : {"save"}, token : BOOLEAN, on : BOOLEAN]
        \cup [op : {"graphql"}, token : BOOLEAN, to : {"off", "on", "bound"}]
        \cup [op : {"policy", "pause", "resume", "disable", "reenable", "restore", "remove"}]

VARIABLES kind,         \* the provider
          environment,  \* the settings of the container
          conn,         \* the row; tokens are numbered, 0 for none
          capability,   \* test -> the stored result; "used" is the token it tried
          request,      \* user -> the save under way
          test,         \* tester -> the test under way
          situation,    \* customers, policies, caches and worker, which other modules change
          latest,       \* the tokens saved last since the last removal
          loose,        \* a save that named no revision was served
          raced         \* tests during which the connection changed

vars == <<kind, environment, conn, capability, request, test, situation, latest, loose, raced>>

NoConnection == [installed |-> FALSE, revision |-> 1, lifecycle |-> "active", on |-> FALSE,
                 rest |-> 0, graph |-> 0, graphql |-> "unset", status |-> "not_configured"]

\* The row is installed without credentials, or by the first save.
Init == /\ kind \in Kinds
        /\ environment \in SUBSET (IF kind = "ncentral" THEN Settings ELSE {"rest"})
        /\ conn \in {NoConnection, [NoConnection EXCEPT !.installed = TRUE]}
        /\ kind = "connectwise" => conn.installed
        /\ capability = [t \in Tests |-> [status |-> "none"]]
        /\ request = [u \in Users |-> Idle]
        /\ test = [t \in Testers |-> Idle]
        /\ situation \in Situations
        /\ latest = [rest |-> 0, graph |-> 0]
        /\ loose = FALSE
        /\ raced = {}

-----------------------------------------------------------------------------
RestConfigured(c) == "rest" \in environment \/ c.rest # 0
GraphConfigured(c) == "graphql" \in environment \/ c.graph # 0

\* The container's settings of GraphQL count only with its credentials, and then
\* instead of those that are saved.
GraphEnabled(c) == IF "graphql" \in environment THEN "graphql_off" \notin environment
                   ELSE c.graphql \in {"on", "bound"}
ServerBound(c) == IF "graphql" \in environment THEN "graphql_unbound" \notin environment
                  ELSE c.graphql = "bound"

\* The kill switch before every call to the provider.
RequireActive(c) == c.installed /\ c.lifecycle = "active" /\ c.on

Managed(form) == \/ form.op = "save" /\ "rest" \in environment
                 \/ form.op = "graphql" /\ "graphql" \in environment

Target(lifecycle, op) ==
    CASE <<lifecycle, op>> \in {<<"active", "pause">>} -> "paused"
      [] <<lifecycle, op>> \in {<<"active", "disable">>, <<"paused", "disable">>} -> "disabled"
      [] <<lifecycle, op>> \in {<<"paused", "resume">>, <<"disabled", "reenable">>,
                                <<"removed", "restore">>} -> "active"
      [] op = "remove" /\ lifecycle # "removed" -> "removed"
      [] OTHER -> "none"

\* Whether the handler goes on with what it has read of the row.  Of a removed
\* connection only the container can supply the credentials to restore it.
Accepts(form, c) ==
    CASE form.op = "save" -> form.token \/ c.rest # 0
      [] form.op = "graphql" -> form.to = "off" \/ form.token \/ c.graph # 0
      [] form.op = "policy" -> TRUE
      [] OTHER -> LET target == Target(c.lifecycle, form.op)
                  IN /\ target # "none"
                     /\ c.lifecycle = "removed" => "rest" \in environment
                     /\ target = "active" => RestConfigured(c)

\* The form is opened, at the revision that is shown.
Open(u, form, versioned) ==
    /\ request[u] = Idle /\ ~Managed(form)
    /\ conn.installed \/ (kind = "ncentral" /\ form.op \in {"save", "graphql", "policy"})
    /\ form.op = "graphql" => kind = "ncentral"
    /\ form.op = "policy" /\ kind = "ncentral" => ~versioned
    /\ request' = [request EXCEPT ![u] = [pc |-> "opened", form |-> form,
                                          expected |-> IF versioned THEN conn.revision ELSE 0]]
    /\ UNCHANGED <<kind, environment, conn, capability, test, situation, latest, loose, raced>>

\* The handler installs the row if need be, and reads it.
ReadRow(u) ==
    /\ request[u].pc = "opened"
    /\ conn' = [conn EXCEPT !.installed = TRUE]
    /\ request' = [request EXCEPT ![u] =
                      IF Accepts(@.form, conn)
                      THEN [pc |-> "read", form |-> @.form, expected |-> @.expected,
                            before |-> conn]
                      ELSE Idle]
    /\ UNCHANGED <<kind, environment, capability, test, situation, latest, loose, raced>>

\* The bundle of both tokens is stored as it was read, but for the new token; a
\* bundle that was empty leaves what the row has.
Bundle(before, field, token) ==
    LET held == IF before.rest = 0 /\ before.graph = 0 THEN conn ELSE before
        fresh == conn.revision + 1
    IN IF ~token THEN [rest |-> held.rest, graph |-> held.graph]
       ELSE [rest |-> IF field = "rest" THEN fresh ELSE before.rest,
             graph |-> IF field = "graph" THEN fresh ELSE before.graph]

\* Fields of the configuration that were read overwrite the row's.
Setting(before) == IF before.graphql = "unset" THEN conn.graphql ELSE before.graphql

Saved(form, before) ==
    LET tokens == Bundle(before, "rest", form.token)
        lifecycle == IF before.lifecycle = "removed" THEN "active" ELSE before.lifecycle
    IN [conn EXCEPT !.rest = tokens.rest, !.graph = tokens.graph, !.lifecycle = lifecycle,
                    !.on = form.on /\ lifecycle = "active",
                    !.graphql = Setting(before), !.status = "configured"]

SavedGraphql(form, before) ==
    LET tokens == Bundle(before, "graph", form.token)
    IN [conn EXCEPT !.rest = tokens.rest, !.graph = tokens.graph, !.graphql = form.to,
                    !.on = @ /\ conn.lifecycle = "active", !.status = "configured"]

\* The policy of N-central resets the status, that of ConnectWise writes back
\* the status and the switch it has read.
SavedPolicy(before) ==
    IF kind = "ncentral"
    THEN [conn EXCEPT !.on = @ /\ conn.lifecycle = "active", !.status = "configured"]
    ELSE [conn EXCEPT !.on = before.on /\ conn.lifecycle = "active", !.status = before.status]

Removed == [conn EXCEPT !.lifecycle = "removed", !.on = FALSE, !.rest = 0, !.graph = 0,
                        !.graphql = "unset", !.status = "not_configured"]

ChangedLifecycle(form, before) ==
    LET target == Target(before.lifecycle, form.op)
    IN IF form.op = "remove" THEN Removed
       ELSE [conn EXCEPT !.lifecycle = target, !.on = target = "active"]

After(form, before) ==
    CASE form.op = "save" -> Saved(form, before)
      [] form.op = "graphql" -> SavedGraphql(form, before)
      [] form.op = "policy" -> SavedPolicy(before)
      [] OTHER -> ChangedLifecycle(form, before)

\* Mutant: the revision the form was opened at is not compared.
AnyRevision(q) == TRUE

\* The row is still at the revision that the form was opened at.
SameRevision(q) == q.expected \in {0, conn.revision}

\* Every write takes the next revision.
NextRevision(form) == conn.revision + 1

Write(u) ==
    /\ request[u].pc = "read"
    /\ request' = [request EXCEPT ![u] = Idle]
    /\ LET q == request[u]
           form == q.form
       IN \/ /\ SameRevision(q) /\ conn.revision < MaxRevision
             /\ conn' = [After(form, q.before) EXCEPT !.revision = NextRevision(form)]
             /\ latest' = CASE form.op = "remove" -> [rest |-> 0, graph |-> 0]
                            [] form.op = "save" /\ form.token ->
                                  [latest EXCEPT !.rest = conn.revision + 1]
                            [] form.op = "graphql" /\ form.token ->
                                  [latest EXCEPT !.graph = conn.revision + 1]
                            [] OTHER -> latest
             /\ loose' = (loose \/ (q.expected = 0 /\ ~(form.op = "policy" /\ kind = "ncentral")))
             /\ raced' = raced \cup {t \in Testers : test[t].pc \in {"called", "labelled"}}
          \/ \* Another save came first, or between the check and the update.
             /\ conn.revision # q.before.revision \/ ~SameRevision(q)
             /\ UNCHANGED <<conn, latest, loose, raced>>
    /\ UNCHANGED <<kind, environment, capability, test, situation>>

-----------------------------------------------------------------------------
\* A test reads the saved credentials and calls the provider with them.
BeginTest(t, what, works) ==
    /\ test[t] = Idle /\ RequireActive(conn)
    /\ what = "graphql" => kind = "ncentral"
    /\ LET configured == IF what = "rest" THEN RestConfigured(conn) ELSE GraphConfigured(conn)
           token == IF what \in environment THEN 0
                    ELSE IF what = "rest" THEN conn.rest ELSE conn.graph
       IN test' = [test EXCEPT ![t] =
                      [pc |-> IF kind = "ncentral" THEN "called" ELSE "marking",
                       what |-> what, used |-> token,
                       status |-> IF works /\ configured THEN "supported" ELSE "error"]]
    /\ raced' = raced \ {t}
    /\ UNCHANGED <<kind, environment, conn, capability, request, situation, latest, loose>>

\* The revision of this moment labels the result.
LabelTest(t) ==
    /\ test[t].pc = "called"
    /\ test' = [test EXCEPT ![t] = [pc |-> "labelled", what |-> @.what, used |-> @.used,
                                    status |-> @.status, label |-> conn.revision]]
    /\ UNCHANGED <<kind, environment, conn, capability, request, situation, latest, loose, raced>>

StoreCapability(t) ==
    /\ test[t].pc = "labelled"
    /\ capability' = [capability EXCEPT ![test[t].what] =
                         [status |-> test[t].status, label |-> test[t].label, expired |-> FALSE,
                          used |-> test[t].used, raced |-> t \in raced]]
    /\ test' = [test EXCEPT ![t] = IF @.what = "rest" THEN [@ EXCEPT !.pc = "marking"] ELSE Idle]
    /\ UNCHANGED <<kind, environment, conn, request, situation, latest, loose, raced>>

\* The status of the row, whatever its revision is by now.
MarkTest(t) ==
    /\ test[t].pc = "marking"
    /\ conn' = [conn EXCEPT !.status = IF test[t].status = "supported" THEN "verified" ELSE "error"]
    /\ test' = [test EXCEPT ![t] = Idle]
    /\ UNCHANGED <<kind, environment, capability, request, situation, latest, loose, raced>>

Expire(what) ==
    /\ capability[what].status # "none" /\ ~capability[what].expired
    /\ capability' = [capability EXCEPT ![what].expired = TRUE]
    /\ UNCHANGED <<kind, environment, conn, request, test, situation, latest, loose, raced>>

Next == \/ \E u \in Users : \/ \E form \in Forms, versioned \in BOOLEAN : Open(u, form, versioned)
                            \/ ReadRow(u) \/ Write(u)
        \/ \E t \in Testers : \/ \E what \in Tests, works \in BOOLEAN : BeginTest(t, what, works)
                              \/ LabelTest(t) \/ StoreCapability(t) \/ MarkTest(t)
        \/ \E what \in Tests : Expire(what)

Spec == Init /\ [][Next]_vars

-----------------------------------------------------------------------------
(* The setup status of N-central: gates, each with a status, read from what *)
(* is saved.                                                                *)

CapabilityState(snapshot, revision) ==
    CASE snapshot.status = "none" -> "never_tested"
      [] snapshot.status # "none" /\ snapshot.status # "supported" -> "failed"
      [] snapshot.status = "supported" /\ snapshot.label # revision -> "stale_revision"
      [] snapshot.status = "supported" /\ snapshot.label = revision /\ snapshot.expired -> "expired"
      [] OTHER -> "current"

Gate(blocked, warned) == IF blocked THEN "blocked" ELSE IF warned THEN "warning" ELSE "passed"
TestGate(state) == Gate(state \notin {"current", "expired"}, state = "expired")

ConnectionGates(c) ==
    {<<"connection_installed", Gate(~c.installed, FALSE)>>,
     <<"connection_active", Gate(~c.installed \/ c.lifecycle # "active", FALSE)>>,
     <<"connection_enabled", Gate(~(c.on /\ c.lifecycle = "active"), FALSE)>>,
     <<"rest_credentials", Gate(~RestConfigured(c), FALSE)>>,
     <<"rest_connection_test", TestGate(CapabilityState(capability["rest"], c.revision))>>}

Listed == {x \in situation.customers : x.listed}
Mapped == {x \in Listed : x.mapped}

CustomerGates ==
    {<<"customer_discovery", Gate(Listed = {}, FALSE)>>,
     <<"customer_mapping", Gate(Mapped = {}, Mapped # Listed)>>,
     <<"device_policies", Gate(\E x \in Mapped : x.policy = "none",
                               \E x \in Mapped : x.failing)>>}

\* The scope that is saved with a policy; without one there is none.
Scoped == {x \in Mapped : x.policy # "none" /\ x.scoped}

\* Enrichment is optional: its gates count only while it is enabled.
GraphqlGates(c) ==
    IF ~GraphEnabled(c)
    THEN {<<"graphql_configuration",
            IF GraphConfigured(c) THEN "warning" ELSE "not_applicable">>}
    ELSE {<<"graphql_configuration", Gate(~GraphConfigured(c), FALSE)>>,
          <<"graphql_capability", TestGate(CapabilityState(capability["graphql"], c.revision))>>,
          <<"graphql_server_binding", Gate(~ServerBound(c), FALSE)>>,
          <<"graphql_customer_scope", Gate(FALSE, Scoped # Mapped)>>}

\* The caches are read only while the connection may be used.
CacheGates(c) ==
    IF ~GraphEnabled(c) \/ Scoped = {} THEN {}
    ELSE {<<"graphql_cache",
            Gate(FALSE, \/ ~(ServerBound(c) /\ RequireActive(c))
                        \/ \E x \in Scoped : x.cache # "complete")>>}

Continuous == {x \in Mapped : x.policy = "continuous"}
WorkerGates == IF Continuous = {} THEN {}
               ELSE {<<"continuous_worker", Gate(~situation.worker, FALSE)>>}

Overall(c) ==
    LET gates == ConnectionGates(c) \cup CustomerGates \cup GraphqlGates(c) \cup CacheGates(c)
                    \cup WorkerGates
    IN IF \E g \in gates : g[2] = "blocked" THEN "blocked"
       ELSE IF \E g \in gates : g[2] = "warning" THEN "needs_attention" ELSE "ready"

-----------------------------------------------------------------------------
\* Type correctness.
TypeOK ==
    /\ environment \subseteq Settings
    /\ conn \in [installed : BOOLEAN, revision : 1..MaxRevision,
                 lifecycle : {"active", "paused", "disabled", "removed"}, on : BOOLEAN,
                 rest : 0..MaxRevision, graph : 0..MaxRevision,
                 graphql : {"unset", "off", "on", "bound"},
                 status : {"not_configured", "configured", "verified", "error"}]
    /\ \A u \in Users : request[u].pc \in {"idle", "opened", "read"}
    /\ \A t \in Testers : test[t].pc \in {"idle", "called", "labelled", "marking"}

\* As long as every save names the revision of its form, the row holds the
\* tokens that were saved last since the last removal: no save brings an older
\* bundle back, and no connection is switched on without credentials.
NewestTokensStand ==
    loose \/ /\ conn.rest = latest.rest /\ conn.graph = latest.graph
             /\ conn.on => conn.lifecycle = "active" /\ RestConfigured(conn)

\* The token a test of this moment would use.
TestedAt(what) == IF what \in environment THEN 0
                  ELSE IF what = "rest" THEN conn.rest ELSE conn.graph

\* Without a blocked gate a preview of every mapped customer may call the
\* provider with credentials that have passed their test as they are saved now,
\* unless the connection was changed while the test ran, and finds its policy
\* and, for a continuous one, the worker.  When all gates pass, enrichment that
\* is enabled has the same, for every mapped customer.
Passed(what) == LET found == capability[what]
                IN found.status = "supported" /\ (found.raced \/ found.used = TestedAt(what))

ReadyMeansUsable ==
    LET overall == Overall(conn)
    IN /\ overall # "blocked" =>
             /\ RequireActive(conn) /\ RestConfigured(conn) /\ Passed("rest")
             /\ Mapped # {}
             /\ \A x \in Mapped : /\ x.policy # "none"
                                  /\ x.policy = "continuous" => situation.worker
       /\ overall = "ready" /\ GraphEnabled(conn) =>
             /\ GraphConfigured(conn) /\ ServerBound(conn) /\ Passed("graphql")
             /\ \A x \in Mapped : x.scoped /\ x.cache = "complete"
=============================================================================
