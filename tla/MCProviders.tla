----------------------------- MODULE MCProviders -----------------------------
(***************************************************************************)
(* A small integration for TLC.  The five modules share no state, so a      *)
(* behaviour follows one of them at a time: "part" is chosen at the start,  *)
(* and the larger ones are explored in parts that keep to some of their     *)
(* inputs.                                                                  *)
(***************************************************************************)
EXTENDS Providers, SequencesExt

VARIABLE part

Asset(asset, device, org) == [asset |-> asset, device |-> device, org |-> org, server |-> "s1"]

\* At the second time two assets claim one device and one has no device.
MCInventory == << {Asset("a", "d1", "o1"), Asset("b", "d2", "o2")},
                  {Asset("a", "d1", "o1"), Asset("c", "d1", "o1"),
                   Asset("e", "none", "o2"), Asset("b", "d2", "o2")} >>
MCLegacy == {Asset("z", "d9", "o1")}

Customer(mapped, policy, failing, scoped, cached) ==
    [listed |-> TRUE, mapped |-> mapped, policy |-> policy, failing |-> failing,
     scoped |-> scoped, cache |-> cached]

NoCustomers == [customers |-> {}, worker |-> TRUE]
AllSet == [customers |-> {Customer(TRUE, "manual", FALSE, TRUE, "complete"),
                          Customer(TRUE, "continuous", FALSE, TRUE, "complete")},
           worker |-> TRUE]

MCSituations ==
    {NoCustomers,
     AllSet, [AllSet EXCEPT !.worker = FALSE],
     [customers |-> {Customer(TRUE, "manual", TRUE, FALSE, "empty"),
                     Customer(FALSE, "none", FALSE, FALSE, "empty")}, worker |-> TRUE],
     [customers |-> {Customer(TRUE, "none", FALSE, FALSE, "empty")}, worker |-> TRUE]}

\* Two workers of one replica, and one of another.
MCHome == [w \in Workers |-> IF w = "w3" THEN "r2" ELSE "r1"]

\* Two organizations of one customer; a "balanced" preview reads one device.
MCEstates == {{1, 2, 3}, {1, 3}, {}}
MCLimit == [fast |-> 0, balanced |-> 1]

\* GraphQL of the container that is not enabled, or has no source server.
GraphqlSettings == {{"graphql", "graphql_off"}, {"rest", "graphql", "graphql_unbound"}}

CacheParts == {"overlap", "leftovers", "settings"}
ConnParts == {"saves", "tests", "forms"}
CompanyParts == {"discoveries", "mappings"}

MCInit ==
    /\ part \in CacheParts \cup ConnParts \cup CompanyParts \cup {"rotation", "reads"}
    /\ estate = [o \in {"o1", "o2"} |-> IF o = "o1" THEN {1, 2, 3} ELSE {1, 3}]
    /\ mode = [o \in {"o1", "o2"} |-> "balanced"]
    /\ full \in IF part = "reads" THEN BOOLEAN ELSE {TRUE}
    /\ offered \in IF part = "mappings" THEN SUBSET {"c1", "c2"} ELSE {{"c1", "c2"}}
    /\ kind \in IF part \in {"saves", "forms"} THEN Kinds ELSE {"ncentral"}
    /\ environment \in IF part # "forms" THEN {{}}
                       ELSE IF kind = "ncentral" THEN SUBSET P!Tests \cup GraphqlSettings
                       ELSE SUBSET {"rest"}
    /\ situation \in IF part = "tests" THEN {AllSet}
                     ELSE IF part # "forms" \/ kind # "ncentral" THEN {NoCustomers}
                     ELSE IF environment = {} THEN MCSituations
                     ELSE IF environment \in GraphqlSettings THEN {AllSet}
                     ELSE {NoCustomers, AllSet}
    /\ Init
    /\ part # "settings" => cache = {} /\ saved.scope # {}
    /\ part \notin {"saves", "forms"} => conn.installed

Begins(p) == work'[p] # E!Idle /\ work[p] = E!Idle

CacheNext ==
    /\ E!Next
    /\ \/ \* An operator's refresh and a preview's, whatever is saved meanwhile.
          /\ part = "overlap" /\ saved'.scope # {} /\ saved'.on /\ Len(meta') <= 2
          /\ work'["p2"].pc = "reviewed" => work'["p2"].evidence # {}
          /\ Begins("p1") => work'["p1"].pc = "read"
          /\ Begins("p2") => work'["p2"].pc = "policy"
          /\ \A g \in DOMAIN meta' : meta'[g].expired =>
                \A p \in {"p1", "p2"} : work[p].pc \notin {"staging", "marked"}
       \/ \* One refresh after the other, most of which die.
          /\ part = "leftovers" /\ work'["p2"] = E!Idle
          /\ \A g \in DOMAIN meta' : ~meta'[g].expired
          /\ saved'.scope # {} /\ saved'.server \in {"s1", E!None}
          /\ data' # data => work["p1"] = E!Idle
       \/ \* Every setting, and rows of an older version.
          /\ part = "settings" /\ work'["p2"] = E!Idle /\ Len(meta') <= 1
    /\ Cardinality({g \in DOMAIN meta' : meta'[g].expired}) <= 1

Common == [op : {"save"}, token : BOOLEAN, on : {TRUE}]
             \cup {[op |-> "graphql", token |-> TRUE, to |-> "bound"],
                   [op |-> "graphql", token |-> FALSE, to |-> "off"]}
             \cup [op : {"policy", "pause", "resume", "remove"}]

Brief == {form \in Common : form.op \in {"save", "graphql", "remove"}}

OneUser(forms, versions) ==
    \/ \E form \in forms, versioned \in versions : P!Open("u1", form, versioned)
    \/ P!ReadRow("u1") \/ P!Write("u1")

Testing == \/ \E t \in Testers : \/ \E what \in P!Tests, works \in BOOLEAN : P!BeginTest(t, what, works)
                                 \/ P!LabelTest(t) \/ P!StoreCapability(t) \/ P!MarkTest(t)
           \/ \E what \in P!Tests : P!Expire(what)

ConnNext ==
    \/ \* Two users save.
       /\ part = "saves" /\ P!Next /\ UNCHANGED <<test, capability>>
       /\ request'["u2"] # P!Idle => request'["u2"].form \in Brief
       /\ conn'.revision <= 3
       /\ \A u \in {"u1", "u2"} : request'[u] # P!Idle =>
             /\ request'[u].form \in Common
             /\ request'[u].expected = 0 => request'[u].form.op = "policy"
             /\ kind = "connectwise" => request'[u].form.op # "policy"
    \/ \* One user saves while the connection is tested.
       /\ part = "tests"
       /\ OneUser(Brief, {TRUE}) \/ Testing
       /\ conn'.revision <= 3
       /\ capability' # capability /\ test' = test =>
             test["t1"] = P!Idle /\ request["u1"] = P!Idle
    \/ \* Every form of either provider.
       /\ part = "forms"
       /\ \/ OneUser(P!Forms, BOOLEAN)
          \/ /\ kind = "connectwise" \/ (environment = P!Tests /\ conn.revision = 2)
             /\ Testing
       /\ conn'.revision <= 3

CompanyNext ==
    /\ C!Next
    /\ \/ part = "discoveries" /\ mapping' = mapping /\ task'["w2"] = C!Idle
          /\ \A w \in {"w1", "w3"} : task'[w].pc \notin {"map", "unmap"}
       \/ /\ part = "mappings" /\ runs' <= 1 /\ UNCHANGED <<offered, excluded>>

RotationNext ==
    /\ R!Next
    /\ mode'["o2"] = mode["o2"] /\ estate'["o2"] = estate["o2"]
    /\ estate'["o1"] = {1, 2, 3} \/ (mode'["o1"] = "balanced" /\ mode = mode')
    /\ preview'["o2"].durable \/ preview'["o2"].step # "claimed"
    /\ preview'["o2"].step # "none" => begun' < MaxPreviews

\* Which worker takes a device does not matter. With the optional details, the required
\* read is answered at once, only the first two endpoints are tried again or refused, a
\* token is dropped and does not run out of time, and nobody stops the preview.
ReadsNext ==
    /\ D!Next
    /\ (worker[1] = D!Idle /\ worker[2] = D!Idle) => worker'[2] = D!Idle
    /\ full => /\ ~cancel' /\ (renewals' = renewals \/ live' # live)
               /\ \A w \in Readers :
                     /\ worker'[w].of = "assets" =>
                           worker'[w].tries = 0 /\ worker'[w].at \in {"idle", "token", "send"}
                     /\ worker'[w].of = "maintenance" => worker'[w].tries = 0
               /\ "maintenance" \notin unavailable'
               /\ \A d \in 1..Devices : detail'[d] # "failing"

MCNext == /\ part' = part
          /\ \/ part \in CacheParts /\ CacheNext
                /\ UNCHANGED <<connVars, companyVars, rotationVars, readVars>>
             \/ part \in ConnParts /\ ConnNext
                /\ UNCHANGED <<cacheVars, companyVars, rotationVars, readVars>>
             \/ part \in CompanyParts /\ CompanyNext
                /\ UNCHANGED <<cacheVars, connVars, rotationVars, readVars>>
             \/ part = "rotation" /\ RotationNext
                /\ UNCHANGED <<cacheVars, connVars, companyVars, readVars>>
             \/ part = "reads" /\ ReadsNext
                /\ UNCHANGED <<cacheVars, connVars, companyVars, rotationVars>>

MCSpec == MCInit /\ [][MCNext]_<<part, vars>>
=============================================================================
