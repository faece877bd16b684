---------------------------- MODULE ChangeImpact ----------------------------
(***************************************************************************)
(* The impact snapshot of a change: a breadth-first search from the items   *)
(* in scope along the relationships, the part a virtual machine's cluster   *)
(* plays in it, and the risk and sign-offs derived from the result          *)
(* (src/src/cmdb/change_control.py).                                        *)
(*                                                                         *)
(* The search visits the relationships in the order they are stored and     *)
(* keeps the first path to each item, so "relations" is a sequence.         *)
(***************************************************************************)
EXTENDS Integers, Sequences, FiniteSets, SequencesExt

CONSTANTS Items,      \* the customer's configuration items
          Kind,       \* item -> "host", "vm", "cluster", "system" or "other"
          Estates     \* the inputs: [relations, facts, scope]

ImpactAssumption ==
    /\ IsFiniteSet(Items)
    /\ \A e \in Estates :
          /\ e.relations \in Seq(ToSet(e.relations)) /\ e.scope \subseteq Items
          /\ \A r \in ToSet(e.relations) : r.from \in Items /\ r.to \in Items

VARIABLES estate, queue, paths

vars == <<estate, queue, paths>>

relations == estate.relations
facts == estate.facts     \* item -> what the policy and the risk ask of it
scope == estate.scope

Reversed == {"depends_on", "installed_on", "stored_on", "provided_by", "managed_by",
             "protected_by"}
NonPropagating == {"related_to", "member_of", "backs_up"}

Propagates(r) == r.type \notin NonPropagating /\ r.policy # "informational"
Supporting(r) == IF r.type \in Reversed THEN r.to ELSE r.from
Affected(r) == IF r.type \in Reversed THEN r.from ELSE r.to

-----------------------------------------------------------------------------
Clusters(x) == {r.to : r \in {m \in ToSet(relations) : m.type = "member_of" /\ m.from = x}}

\* Hosts of the cluster that could take the machine over.
Spare(cluster, host) ==
    {h \in Items : /\ Kind[h] = "host" /\ h # host /\ cluster \in Clusters(h)
                   /\ h \notin scope /\ facts[h].up}

\* How a host's failure reaches a virtual machine: with the hosts the cluster asks for
\* and capacity the machine restarts.  Any common cluster may be the first one.
VirtualizationPolicy(r) ==
    LET common == Clusters(r.from) \cap Clusters(r.to)
        cluster == CHOOSE c \in common : TRUE
        capacity == facts[cluster].capacity
    IN IF r.type # "hosts" \/ Kind[r.from] # "host" \/ Kind[r.to] # "vm" THEN r.policy
       ELSE IF ~facts[r.to].movable \/ common = {} THEN "required"
       ELSE IF \/ Cardinality(Spare(cluster, r.from)) < facts[cluster].minimum
               \/ capacity = "insufficient" THEN "required"
       ELSE IF capacity = "constrained" THEN "degraded"
       ELSE "redundant"

\* One protected or degraded hop limits what continues along the path.
Severity(policies) ==
    IF "redundant" \in policies THEN "protected"
    ELSE IF "degraded" \in policies THEN "degraded"
    ELSE IF "required" \in policies THEN "outage"
    ELSE "scope"

-----------------------------------------------------------------------------
Init == /\ estate \in Estates
        /\ queue = SetToSeq(estate.scope)
        /\ paths = [x \in estate.scope |-> [depth |-> 0, policies |-> {}]]

\* What a relationship of the visited item adds to what was found: the item at its far
\* end, unless a path to it is known.
Extends(found, current, r) ==
    Propagates(r) /\ Supporting(r) = current /\ Affected(r) \notin DOMAIN found.paths

Found(found, current, r, depth) ==
    [paths |-> [x \in DOMAIN found.paths \cup {Affected(r)} |->
                  IF x \in DOMAIN found.paths THEN found.paths[x]
                  ELSE [depth |-> depth,
                        policies |-> found.paths[current].policies \cup {VirtualizationPolicy(r)}]],
     queue |-> Append(found.queue, Affected(r))]

\* Mutant: the depth of the first item of a level is used for all.
ReachFlat(found, current, r) ==
    IF Extends(found, current, r) THEN Found(found, current, r, 1) ELSE found

Reach(found, current, r) ==
    IF Extends(found, current, r)
    THEN Found(found, current, r, found.paths[current].depth + 1) ELSE found

Visit ==
    /\ queue # <<>>
    /\ LET found == FoldLeft(LAMBDA f, r : Reach(f, Head(queue), r),
                             [paths |-> paths, queue |-> Tail(queue)], relations)
       IN /\ paths' = found.paths
          /\ queue' = found.queue
    /\ UNCHANGED estate

Next == Visit

Spec == Init /\ [][Next]_vars

-----------------------------------------------------------------------------
\* The snapshot the search leaves.
Impact(x) == Severity(paths[x].policies)
Counts(x) == x \in scope \/ Impact(x) # "protected"
Active == {x \in DOMAIN paths : Counts(x)}
Downstream == {x \in DOMAIN paths : x \notin scope /\ Counts(x)}
Systems == {x \in DOMAIN paths : Kind[x] = "system"}

Least(m, n) == IF m < n THEN m ELSE n

\* The environment, the outage and missing owners add to the score; they are
\* left out, so that this is the least the change can score.
Score ==
    LET serious == {x \in Systems : Counts(x) /\ facts[x].critical}
    IN (IF \E x \in Active : facts[x].critical THEN 4 ELSE 0)
       + (IF Downstream = {} THEN 0 ELSE Least(4, 1 + Cardinality(Downstream) \div 4))
       + (IF \E x \in Systems : Counts(x) /\ facts[x].owner = "none" THEN 2 ELSE 0)
       + Least(3, Cardinality(serious))

Level == IF Score >= 10 THEN "critical" ELSE IF Score >= 7 THEN "high"
         ELSE IF Score >= 4 THEN "medium" ELSE "low"

\* Every business system in the snapshot asks its delegate or owner to sign
\* off, unless it is exempt; one with nobody to write to is reported.
SignOff == {x \in Systems : facts[x].owner # "exempt"}
Approvers == {[system |-> x, role |-> "owner"] : x \in {s \in SignOff : facts[s].owner = "email"}}
Missing == SignOff \ {a.system : a \in Approvers}

-----------------------------------------------------------------------------
\* What the snapshot should be, from the relationships alone.
Successors(S) ==
    S \cup {Affected(r) : r \in {e \in ToSet(relations) : Propagates(e) /\ Supporting(e) \in S}}

Within == LET reach[n \in 0..Cardinality(Items)] ==
                  IF n = 0 THEN scope ELSE Successors(reach[n - 1])
          IN reach

\* Type correctness.
TypeOK == /\ DOMAIN paths \subseteq Items
          /\ \A x \in DOMAIN paths : paths[x].depth \in 0..Cardinality(Items)
          /\ ToSet(queue) \subseteq DOMAIN paths

\* The snapshot holds every item the change can reach, and no other, at its
\* true distance from the scope, whatever cycles the relationships have and in
\* whatever order they are stored.
ImpactIsExact ==
    queue = <<>> =>
        /\ DOMAIN paths = Within[Cardinality(Items)]
        /\ \A x \in DOMAIN paths :
              /\ x \in Within[paths[x].depth]
              /\ paths[x].depth > 0 => x \notin Within[paths[x].depth - 1]

\* Nobody whose system a change reaches is left out of the review: an outage of
\* a critical item never rates low, and each business system is signed off or
\* reported, protected or not.
ReviewSeesImpact ==
    queue = <<>> =>
        /\ \A x \in DOMAIN paths : facts[x].critical /\ Impact(x) \in {"scope", "outage"}
              => Level # "low"
        /\ \A x \in Within[Cardinality(Items)] : Kind[x] = "system" /\ facts[x].owner # "exempt" =>
              x \in Missing \/ \E a \in Approvers : a.system = x
=============================================================================
