------------------------------- MODULE MCCmdb -------------------------------
(***************************************************************************)
(* A small CMDB for TLC.  The four modules share no state, so a behaviour   *)
(* follows one of them at a time: "part" is chosen at the start, and the    *)
(* larger ones are explored in parts that keep to some of their inputs.     *)
(***************************************************************************)
EXTENDS Cmdb, Functions, SequencesExt, TLC

CONSTANTS a, b, c

VARIABLE part

Dependencies == {<<a, b, "depends_on">>, <<b, c, "depends_on">>, <<c, a, "depends_on">>}
Connections == {<<a, b, "connected_to">>, <<b, a, "connected_to">>}
Provided == {<<a, b, "hosts">>, <<b, a, "installed_on">>}

MCEdges == Dependencies \cup Connections \cup Provided
MCAutomatic == {<<a, b, "hosts">>}

\* The estate: a switch connects two hosts of a cluster, the first hosts the
\* machine of an application that a business system depends on.  The shortcut
\* reaches the application by another way and the loop leads back to the switch.
MCItems == {"switch", "host1", "host2", "cluster", "vm", "app", "crm"}
MCKind == [x \in MCItems |-> CASE x \in {"host1", "host2"} -> "host"
                               [] x \in {"cluster", "vm"} -> x
                               [] x = "crm" -> "system"
                               [] OTHER -> "other"]

Edge(from, type, to) == [from |-> from, type |-> type, to |-> to, policy |-> "required"]
Base == << Edge("switch", "connected_to", "host1"), Edge("switch", "connected_to", "host2"),
           Edge("host1", "member_of", "cluster"), Edge("host2", "member_of", "cluster"),
           Edge("vm", "member_of", "cluster"), Edge("host1", "hosts", "vm"),
           Edge("app", "installed_on", "vm"), Edge("crm", "depends_on", "app") >>
Shortcut == << Edge("app", "depends_on", "switch") >>
Loop == << Edge("switch", "depends_on", "app") >>

Facts(up, cluster, movable, critical, owner) ==
    [x \in MCItems |-> [up |-> x # "host2" \/ up, movable |-> movable,
                        capacity |-> cluster[1], minimum |-> cluster[2],
                        critical |-> x \in critical, owner |-> owner]]

\* What the cluster has and how many hosts must be left of it.
Capacities == {<<"sufficient", 1>>, <<"constrained", 1>>, <<"insufficient", 1>>,
               <<"sufficient", 2>>}

MCEstates == {[relations |-> r, facts |-> f, scope |-> s] :
              r \in {Base, Base \o Shortcut, Base \o Loop, Reverse(Base \o Shortcut \o Loop)},
              f \in {Facts(up, cluster, movable, critical, owner) :
                        up \in BOOLEAN, cluster \in Capacities,
                        movable \in BOOLEAN, critical \in {{}, {"crm"}, {"host1"}},
                        owner \in {"email", "name", "none", "exempt"}},
              s \in {{"host1"}, {"switch"}, {"host1", "host2"}, {"vm", "switch"}}}

Item(key, value) == [key |-> key, value |-> value]

\* Two interfaces may report one address, which is then the key of both.
MCSections == [x \in {"network_interfaces", "hardware"} |->
                 IF x = "hardware" THEN {{Item("model", "x")}, {Item("rejected", "z")}}
                 ELSE {{}, {Item("k1", "a")},
                       {Item("k1", "a"), Item("k1", "b"), Item("k2", "a")}}]

\* A preview finds one suggestion, with one evidence as of one time.
OneSuggestion == \A p \in Passes : pass'[p].kind = "store" =>
                    /\ Cardinality(DOMAIN pass'[p].print) = 1
                    /\ \A k \in DOMAIN pass'[p].print : pass'[p].print[k] = pass'[p].time

MCInit == /\ part \in {"dependencies", "connections", "suggestions", "ownership",
                       "templates", "closures", "impact", "imports", "moves"}
          /\ estate \in IF part = "impact" THEN MCEstates ELSE {CHOOSE e \in MCEstates : TRUE}
          /\ Init

AtMostOne(procs, busy(_)) == Cardinality({p \in procs : busy(p)}) <= 1

FirstRequest == CHOOSE q \in Requests : TRUE

GraphNext ==
    \/ part = "dependencies" /\ R!EditNext(Dependencies)
    \/ part = "connections" /\ R!EditNext(Connections)
    \/ /\ part = "suggestions" /\ R!CandidateNext
       /\ retired' = {} /\ ready' /\ OneSuggestion
       /\ \A q \in Requests \ {FirstRequest} : request'[q] = R!Idle
       /\ \/ AtMostOne(Passes, LAMBDA p : pass'[p] # R!Idle)
          \/ generation' = 1 /\ request'[FirstRequest] = R!Idle
    \/ /\ part = "ownership"
       /\ \/ R!EditNext({<<a, b, "hosts">>})
          \/ R!CandidateNext /\ candidates'[<<b, a, "installed_on">>].state = "none"
       /\ generation' = 1 /\ retired' \subseteq {a} /\ OneSuggestion
       /\ AtMostOne(Passes, LAMBDA p : pass'[p] # R!Idle)
       /\ \A q \in Requests \ {FirstRequest} : request'[q] = R!Idle

\* In the closures one editor may save a version before the change is created.
TemplateNext ==
    \/ part = "templates" /\ T!LibraryNext
    \/ /\ part = "closures"
       /\ \/ /\ change = T!NoChange /\ T!LibraryNext /\ template'.current <= 2
             /\ \A s \in Seeders : proc'[s] = T!Idle
             /\ AtMostOne(Editors, LAMBDA e : proc'[e] # T!Idle)
             /\ \A e \in Editors : proc'[e] # T!Idle => proc'[e].status = "published"
          \/ T!CreateNext /\ <<change'.type, change'.risk, change'.systems>> \in
                {<<"normal", "low", FALSE>>, <<"emergency", "low", TRUE>>,
                 <<"normal", "high", TRUE>>}
          \/ closed = Nobody /\ T!CloseNext /\ \A e \in Editors : proc[e] = T!Idle

Held(w) == IF import'[w] = V!Idle THEN {} ELSE DOMAIN import'[w].sections
Stamped(w) == import'[w] # V!Idle => import'[w].time # 0

InventoryNext ==
    /\ V!Next
    /\ \/ \* Records of two workers overtake each other; one may be partial.
          /\ part = "imports" /\ changes' = 0 /\ linked'.ci # "c2"
          /\ source'.sections["hardware"] = {}
          /\ Held("w1") \in {{}, {"hardware"}, V!Collections}
          /\ Held("w2") \in {{}, V!Collections} /\ Stamped("w2")
       \/ \* The mapping is moved, the enrichment published, a record rejected.
          /\ part = "moves" /\ import'["w2"] = V!Idle /\ reports' + changes' <= 3
          /\ source'.sections[V!Nics] \in {{}, {Item("k1", "a")}}
          /\ Held("w1") \in {{}, V!Collections} /\ Stamped("w1")

MCNext ==
    /\ part' = part
    /\ \/ GraphNext /\ UNCHANGED <<templates, impact, inventory>>
       \/ TemplateNext /\ UNCHANGED <<graph, impact, inventory>>
       \/ part = "impact" /\ I!Next /\ UNCHANGED <<graph, templates, inventory>>
       \/ InventoryNext /\ UNCHANGED <<graph, templates, impact>>

MCSpec == MCInit /\ [][MCNext]_<<part, vars>>

Symmetry == Permutations(Passes)
=============================================================================
