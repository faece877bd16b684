-------------------------- MODULE EnrichmentCache --------------------------
(***************************************************************************)
(* The cache of N-able GraphQL assets that enriches the devices of one      *)
(* mapped N-central customer (src/backend/main.py,                          *)
(* src/src/cmdb/nable_graphql.py, src/src/cmdb/repository.py).              *)
(*                                                                         *)
(* A refresh reads the provider and then, under an advisory lock of the     *)
(* customer and the source server, stages one row per device, each in a     *)
(* transaction of its own, adds the marker that publishes its generation    *)
(* and deletes the others.  Previews, the cached read and the diagnostics   *)
(* read the newest generation that has a marker.  The administrator may     *)
(* change the scope and the source server at any time.                      *)
(***************************************************************************)
EXTENDS Integers, Sequences, FiniteSets

CONSTANTS Inventory,      \* what the provider holds, at its successive times
          Organizations, Servers, Tasks, Legacy,
          RestDevices,    \* devices the provider lists for the customer
          MaxAssets,      \* assets one refresh may read
          ListLimit,      \* rows one read of the cache may return
          MaxGeneration, MaxSaves   \* bounds

None == "none"
Marker == [asset |-> None, device |-> "__cache_generation__", org |-> None, server |-> None]
Idle == [pc |-> "idle"]

\* What the provider has listed at some time, now or for an older version of the program.
Assets == Legacy \cup UNION {Inventory[d] : d \in DOMAIN Inventory}

CacheAssumption ==
    /\ None \notin Servers \cup Tasks /\ Servers # {}
    /\ Len(Inventory) \in Nat \ {0} /\ DOMAIN Inventory = 1..Len(Inventory)
    /\ \A d \in DOMAIN Inventory : IsFiniteSet(Inventory[d])
    /\ \A x \in Assets : x.server \in Servers \cup {None}
    /\ IsFiniteSet(Legacy) /\ MaxAssets \in Nat /\ ListLimit \in Nat

VARIABLES data,      \* the provider's time
          saved,     \* scope of the policy; source server, enablement and saves
          rows,      \* rows of the cache, each numbered when it was stored
          meta,      \* generation -> what its refresh prepared, and its age
          lock,      \* server -> the task that holds the scope's lock
          task       \* task -> where it is and what it has read

vars == <<data, saved, rows, meta, lock, task>>

\* Generation 0 is that of the rows an older version of the program left.
LegacyMeta == [items |-> Legacy, scope |-> {}, server |-> CHOOSE s \in Servers : TRUE,
               gaps |-> FALSE, expired |-> FALSE]

LegacyRows(order) == {[at |-> order[x], gen |-> 0, key |-> x] : x \in Legacy}

Init == /\ data = 1
        /\ saved \in [scope : {{}, Organizations}, server : {None}, on : {TRUE}, saves : {0}]
        /\ \E order \in [Legacy -> 1..Cardinality(Legacy)] :
              /\ \A x, y \in Legacy : x # y => order[x] # order[y]
              /\ rows \in {{}, LegacyRows(order)}
        /\ meta = <<>>
        /\ lock = [s \in Servers |-> None]
        /\ task = [p \in Tasks |-> Idle]

-----------------------------------------------------------------------------
MetaOf(g) == IF g = 0 THEN LegacyMeta ELSE meta[g]

\* The rows of one source server, or of all; a read returns the newest of them.
RowsOf(rs, server) == {r \in rs : server \in {None, MetaOf(r.gen).server}}

Listed(rs, server) ==
    LET own == RowsOf(rs, server)
    IN {r \in own : Cardinality({q \in own : q.at > r.at}) < ListLimit}

IsCut(rs, server) == Cardinality(RowsOf(rs, server)) > ListLimit

Newest(list) == CHOOSE r \in list : \A q \in list : q.at <= r.at

\* Mutant: a generation is read while it is staged.
NewestRows(list) == {r \in list : r.gen = Newest(list).gen}

\* The rows of the newest generation with a marker; while there is none, the
\* rows that have no generation.  (Generations that an older version called
\* complete without a marker are not modelled.)
GenerationRows(list) ==
    LET marked == {r.gen : r \in {x \in list : x.key = Marker}}
        published == {r \in list : r.gen \in marked}
    IN {r \in list : r.gen = IF published = {} THEN 0 ELSE Newest(published).gen}

Stale(list) == \E r \in list : MetaOf(r.gen).expired
ScopeOf(list) == IF list = {} THEN {} ELSE MetaOf((CHOOSE r \in list : TRUE).gen).scope

\* A row gives an asset only inside the scope and the server that are asked for.
Valid(x, scope, server) ==
    x.org \in scope /\ x.server = server /\ x.asset # None /\ x.device # None

AssetsOf(list, scope, server) ==
    {x \in {r.key : r \in {y \in list : y.key # Marker}} : Valid(x, scope, server)}

\* Marked, every row valid, no identity twice, as many as were eligible.
Complete(list, scope, server) ==
    LET found == {r.key : r \in {y \in list : y.key # Marker}}
    IN /\ \E r \in list : r.key = Marker
       /\ \A x \in found : Valid(x, scope, server)
       /\ \A x, y \in found : x # y => x.device # y.device /\ x.asset # y.asset
       /\ \A r \in list : Cardinality(found) = Cardinality(MetaOf(r.gen).items)

\* What a preview uses of the cache: not an expired generation, and not that
\* of another scope.
Selected(list, scope, server) ==
    IF Stale(list) \/ ScopeOf(list) # scope THEN {} ELSE AssetsOf(list, scope, server)

\* When the preview refreshes the cache first.
RefreshDue(list, scope, server) ==
    list = {} \/ Stale(list) \/ ScopeOf(list) # scope \/ ~Complete(list, scope, server)

\* The assets of the scope, up to the maximum.
ReadInventory(scope) ==
    LET found == {x \in Inventory[data] : x.org \in scope}
    IN IF Cardinality(found) > MaxAssets
       THEN [items |-> CHOOSE s \in SUBSET found : Cardinality(s) = MaxAssets,
             scope |-> scope, truncated |-> TRUE]
       ELSE [items |-> found, scope |-> scope, truncated |-> FALSE]

\* The assets whose device no other asset of the reply claims.
Eligible(items, scope, server) ==
    LET candidates == {x \in items : Valid(x, scope, server)}
    IN {x \in candidates : \A y \in candidates \ {x} : y.device # x.device}

\* Enrichment goes to the device of the asset's server and device ID.
Merged(assets, server) ==
    {x \in assets : /\ x.server = server
                    /\ \A y \in assets \ {x} : y.server = server => y.device # x.device}

-----------------------------------------------------------------------------
\* The refresh an operator asks for, and the one a preview makes when it is
\* due: the scope is read, then the provider.
BeginRefresh(p) ==
    /\ task[p] = Idle
    /\ saved.on /\ saved.scope # {}
    /\ task' = [task EXCEPT ![p] = [pc |-> "read", job |-> [kind |-> "refresh"],
                                    result |-> ReadInventory(saved.scope)]]
    /\ UNCHANGED <<data, saved, rows, meta, lock>>

\* A preview has read the policy.
BeginPreview(p) ==
    /\ task[p] = Idle
    /\ task' = [task EXCEPT ![p] = [pc |-> "policy", scope |-> saved.scope]]
    /\ UNCHANGED <<data, saved, rows, meta, lock>>

\* What a preview or a link holds of the cache: the assets selected for "scope".
Serve(p, kind, scope, assets, server, cut) ==
    task' = [task EXCEPT ![p] = [pc |-> "assets", kind |-> kind, scope |-> scope,
                                 server |-> server, assets |-> assets, cut |-> cut]]

FromCache(rs, scope, server) == Selected(GenerationRows(Listed(rs, server)), scope, server)

\* Nothing is read while enrichment is off, or has no scope or server.
SkipCache(p) ==
    /\ task[p].pc = "policy"
    /\ ~saved.on \/ task[p].scope = {} \/ saved.server = None
    /\ Serve(p, "preview", task[p].scope, {}, None, FALSE)
    /\ UNCHANGED <<data, saved, rows, meta, lock>>

\* The cache as it is serves a preview for which no refresh is due, and one
\* whose refresh fails at the provider.
UseCache(p) ==
    /\ task[p].pc = "policy"
    /\ saved.on /\ task[p].scope # {} /\ saved.server # None
    /\ Serve(p, "preview", task[p].scope, FromCache(rows, task[p].scope, saved.server),
             saved.server, IsCut(rows, saved.server))
    /\ UNCHANGED <<data, saved, rows, meta, lock>>

RefreshFirst(p) ==
    /\ task[p].pc = "policy"
    /\ saved.on /\ task[p].scope # {} /\ saved.server # None /\ saved.scope # {}
    /\ RefreshDue(GenerationRows(Listed(rows, saved.server)), task[p].scope, saved.server)
    /\ task' = [task EXCEPT ![p] =
                  [pc |-> "read", result |-> ReadInventory(saved.scope),
                   job |-> [kind |-> "preview", scope |-> @.scope, server |-> saved.server,
                            before |-> FromCache(rows, @.scope, saved.server),
                            cut |-> IsCut(rows, saved.server)]]]
    /\ UNCHANGED <<data, saved, rows, meta, lock>>

\* The refresh has ended without a new generation: the preview goes on with the
\* rows it had.
GiveUp(p) ==
    LET job == task[p].job
    IN IF job.kind = "refresh" THEN task' = [task EXCEPT ![p] = Idle]
       ELSE Serve(p, "preview", job.scope, job.before, job.server, job.cut)

\* There is a new generation: the preview is to read again, unless it is empty.
Refreshed(p) ==
    LET job == task[p].job
    IN IF job.kind = "refresh" THEN task' = [task EXCEPT ![p] = Idle]
       ELSE IF meta[task[p].gen].items = {}
       THEN Serve(p, "preview", job.scope, {}, job.server, FALSE)
       ELSE task' = [task EXCEPT ![p] = [pc |-> "again", scope |-> job.scope,
                                         server |-> job.server]]

TakeLock(p) ==
    /\ task[p].pc = "read"
    /\ saved.server # None
    /\ lock[saved.server] = None
    /\ lock' = [lock EXCEPT ![saved.server] = p]
    /\ task' = [task EXCEPT ![p] = [pc |-> "locked", job |-> @.job, result |-> @.result,
                                    locked |-> saved.server]]
    /\ UNCHANGED <<data, saved, rows, meta>>

NoServerLeft(p) ==
    /\ task[p].pc = "read" /\ saved.server = None
    /\ UNCHANGED <<data, saved, rows, meta, lock>>
    /\ GiveUp(p)

\* The reply is for another scope or server, or is cut at the maximum.
Refused(p) == \/ saved.server # task[p].locked
              \/ task[p].result.scope # saved.scope
              \/ task[p].result.truncated

Refuse(p) ==
    /\ task[p].pc = "locked" /\ Refused(p)
    /\ lock' = [lock EXCEPT ![task[p].locked] = None]
    /\ UNCHANGED <<data, saved, rows, meta>>
    /\ GiveUp(p)

Prepare(p) ==
    /\ task[p].pc = "locked" /\ ~Refused(p)
    /\ Len(meta) < MaxGeneration
    /\ LET items == Eligible(task[p].result.items, saved.scope, saved.server)
       IN /\ meta' = Append(meta, [items |-> items, scope |-> saved.scope,
                                   server |-> saved.server, expired |-> FALSE,
                                   gaps |-> items # task[p].result.items])
          /\ task' = [task EXCEPT ![p] = [pc |-> "staging", job |-> @.job, locked |-> @.locked,
                                          gen |-> Len(meta) + 1, left |-> items,
                                          failed |-> FALSE]]
    /\ UNCHANGED <<data, saved, rows, lock>>

\* A row is stored after all that are there.
Stored(gen, key) ==
    rows \cup {[at |-> IF rows = {} THEN 1 ELSE Newest(rows).at + 1, gen |-> gen, key |-> key]}

\* One row is stored, or refused by the repository, which the refresh survives.
Stage(p, stored) ==
    /\ task[p].pc = "staging" /\ task[p].left # {}
    /\ LET x == CHOOSE y \in task[p].left : TRUE
       IN /\ rows' = IF stored THEN Stored(task[p].gen, x) ELSE rows
          /\ task' = [task EXCEPT ![p].left = @ \ {x}, ![p].failed = @ \/ ~stored]
    /\ UNCHANGED <<data, saved, meta, lock>>

Mark(p) ==
    /\ task[p].pc = "staging" /\ task[p].left = {} /\ ~task[p].failed
    /\ rows' = Stored(task[p].gen, Marker)
    /\ task' = [task EXCEPT ![p].pc = "marked"]
    /\ UNCHANGED <<data, saved, meta, lock>>

\* The rows of the customer and server that are not of the new generation go.
Publish(p) ==
    /\ task[p].pc = "marked"
    /\ rows' = {r \in rows : r.gen = task[p].gen \/ MetaOf(r.gen).server # task[p].locked}
    /\ lock' = [lock EXCEPT ![task[p].locked] = None]
    /\ UNCHANGED <<data, saved, meta>>
    /\ Refreshed(p)

\* The lock is free by now: the rows that are read may be of another refresh.
ReadAgain(p) ==
    /\ task[p].pc = "again"
    /\ Serve(p, "preview", task[p].scope, FromCache(rows, task[p].scope, task[p].server),
             task[p].server, IsCut(rows, task[p].server))
    /\ UNCHANGED <<data, saved, rows, meta, lock>>

\* A row or the marker was refused: what was staged goes.
Discard(p) ==
    /\ task[p].pc = "staging" /\ task[p].left = {}
    /\ rows' = {r \in rows : r.gen # task[p].gen}
    /\ lock' = [lock EXCEPT ![task[p].locked] = None]
    /\ UNCHANGED <<data, saved, meta>>
    /\ GiveUp(p)

\* The process dies, and its connection with it: the lock is free, and the
\* rows it staged stay.
Crash(p) ==
    /\ task[p].pc \in {"locked", "staging", "marked"}
    /\ lock' = [lock EXCEPT ![task[p].locked] = None]
    /\ task' = [task EXCEPT ![p] = Idle]
    /\ UNCHANGED <<data, saved, rows, meta>>

\* The assets go into the devices' records, by the server ID of this moment: a
\* record that will be linked has the evidence of one asset, or none.
Merge(p) ==
    /\ task[p].pc = "assets" /\ task[p].kind = "preview"
    /\ LET merged == IF saved.server = None THEN {}
                     ELSE Merged(task[p].assets, saved.server)
       IN \/ task' = [task EXCEPT ![p] = Idle]
          \/ task' = [task EXCEPT ![p] =
                [pc |-> "reviewed", server |-> saved.server,
                 evidence |-> IF merged = {} THEN {} ELSE {CHOOSE x \in merged : TRUE}]]
    /\ UNCHANGED <<data, saved, rows, meta, lock>>

\* A reviewed device is linked: the handler reads policy and cache again.
BeginLink(p) ==
    /\ task[p].pc = "reviewed"
    /\ task' = [task EXCEPT ![p] = [pc |-> "linking", scope |-> saved.scope,
                                    evidence |-> @.evidence, server |-> @.server]]
    /\ UNCHANGED <<data, saved, rows, meta, lock>>

\* The link goes on with a record that has no evidence, or evidence that the
\* cache still holds.
EvidenceIsCurrent(evidence, reviewed, assets, server, scope) ==
    evidence # {} =>
        /\ server # None /\ reviewed = server /\ evidence \subseteq assets
        /\ \A x \in evidence : x.server = server /\ x.org \in scope

Link(p) ==
    /\ task[p].pc = "linking"
    /\ LET scope == task[p].scope
           assets == IF ~saved.on \/ scope = {} \/ saved.server = None THEN {}
                     ELSE FromCache(rows, scope, saved.server)
       IN IF EvidenceIsCurrent(task[p].evidence, task[p].server, assets, saved.server, scope)
          THEN Serve(p, "link", scope, assets, saved.server, IsCut(rows, saved.server))
          ELSE task' = [task EXCEPT ![p] = Idle]
    /\ UNCHANGED <<data, saved, rows, meta, lock>>

\* The transaction that links is modelled with the review queue.
Linked(p) ==
    /\ task[p].pc = "assets" /\ task[p].kind = "link"
    /\ task' = [task EXCEPT ![p] = Idle]
    /\ UNCHANGED <<data, saved, rows, meta, lock>>

-----------------------------------------------------------------------------
Save(changed) ==
    /\ saved.saves < MaxSaves /\ changed # saved
    /\ saved' = [changed EXCEPT !.saves = saved.saves + 1]
    /\ UNCHANGED <<data, rows, meta, lock, task>>

SaveScope(scope) == Save([saved EXCEPT !.scope = scope])
SaveConnection(server, on) == Save([saved EXCEPT !.server = server, !.on = on])

\* The server the detection recommends: the only one seen in the scope, with a
\* device that the customer has, on a reply that was not cut.
Recommended(scope) ==
    LET found == {x \in ReadInventory(scope).items : x.device # None}
        seen == {x.server : x \in found}
    IN IF /\ Cardinality(seen) = 1 /\ ~ReadInventory(scope).truncated
          /\ \E x \in found : x.device \in RestDevices
       THEN CHOOSE s \in seen : TRUE
       ELSE None

DetectServer ==
    /\ saved.scope # {} /\ Recommended(saved.scope) # None
    /\ SaveConnection(Recommended(saved.scope), saved.on)

ProviderChanges ==
    /\ data < Len(Inventory)
    /\ data' = data + 1
    /\ UNCHANGED <<saved, rows, meta, lock, task>>

Expire(g) ==
    /\ ~meta[g].expired
    /\ meta' = [meta EXCEPT ![g].expired = TRUE]
    /\ UNCHANGED <<data, saved, rows, lock, task>>

Next == \/ \E p \in Tasks :
             \/ BeginRefresh(p) \/ BeginPreview(p)
             \/ SkipCache(p) \/ UseCache(p) \/ RefreshFirst(p)
             \/ TakeLock(p) \/ NoServerLeft(p) \/ Refuse(p) \/ Prepare(p)
             \/ \E stored \in BOOLEAN : Stage(p, stored)
             \/ Mark(p) \/ Publish(p) \/ ReadAgain(p) \/ Discard(p) \/ Crash(p)
             \/ Merge(p) \/ BeginLink(p) \/ Link(p) \/ Linked(p)
        \/ \E scope \in SUBSET Organizations : SaveScope(scope)
        \/ \E s \in Servers \cup {None}, on \in BOOLEAN : SaveConnection(s, on)
        \/ DetectServer
        \/ ProviderChanges
        \/ \E g \in DOMAIN meta : Expire(g)

-----------------------------------------------------------------------------
\* What the cached read and the diagnostics show: "list" is the generation read
\* for the scope and the server of this moment.
Shown == GenerationRows(Listed(rows, saved.server))
ScopeMatches(list) == list # {} /\ ScopeOf(list) = saved.scope

\* The evidence of the diagnostics: complete, not expired, of this scope.
Current(list) == /\ ScopeMatches(list) /\ ~Stale(list)
                 /\ Complete(list, saved.scope, saved.server)

\* The cached read lists expired rows too, but not those of another scope.
CachedItems(list) ==
    IF saved.server # None /\ ScopeMatches(list)
    THEN AssetsOf(list, saved.scope, saved.server) ELSE {}

CachedStatus(list) ==
    IF saved.server = None THEN "empty"
    ELSE IF list # {} /\ ~ScopeMatches(list) THEN "scope_changed"
    ELSE IF Stale(list) THEN "stale"
    ELSE IF CachedItems(list) # {} THEN "fresh" ELSE "empty"

Freshness(list) ==
    IF ~saved.on THEN "rest_only"
    ELSE IF saved.scope = {} THEN "not_scoped"
    ELSE IF saved.server = None THEN "server_missing"
    ELSE IF list = {} THEN "empty"
    ELSE IF Stale(list) THEN "stale"
    ELSE IF ~ScopeMatches(list) THEN "scope_changed"
    ELSE IF ~Complete(list, saved.scope, saved.server) THEN "incomplete"
    ELSE IF \E r \in list : MetaOf(r.gen).gaps THEN "partial" ELSE "fresh"

\* What the diagnostics say of a device; "known" is what the CMDB says of it.
Reason(list, device, known) ==
    LET evidence == \E r \in list : r.key.device = device
        asset == \E x \in AssetsOf(list, saved.scope, saved.server) : x.device = device
    IN IF known \in {"ignored", "excluded"} THEN known
       ELSE IF ~saved.on THEN "rest_only"
       ELSE IF Current(list) /\ asset
       THEN IF known = "unknown" THEN "graphql_only" ELSE "enriched"
       ELSE IF Freshness(list) \in {"stale", "scope_changed", "incomplete"}
       THEN IF evidence THEN "stale_cache_evidence" ELSE "cache_unavailable"
       ELSE IF Current(list) THEN "graphql_missing"
       ELSE "not_yet_evaluated"

\* What a preview that starts now would merge without a refresh.
WouldMerge(list) ==
    IF saved.on /\ saved.scope # {} /\ saved.server # None
    THEN Merged(Selected(list, saved.scope, saved.server), saved.server) ELSE {}

Spec == Init /\ [][Next]_vars

-----------------------------------------------------------------------------
Generations == DOMAIN meta
RowsIn(rs, g) == {r \in rs : r.gen = g}
Published(g) == \E r \in RowsIn(rows, g) : r.key = Marker

Replies == [items : SUBSET Assets, scope : SUBSET Organizations, truncated : BOOLEAN]
Jobs == {[kind |-> "refresh"]}
        \cup [kind : {"preview"}, scope : SUBSET Organizations, server : Servers,
              before : SUBSET Assets, cut : BOOLEAN]
TaskRows ==
    {Idle}
    \cup [pc : {"policy"}, scope : SUBSET Organizations]
    \cup [pc : {"read"}, job : Jobs, result : Replies]
    \cup [pc : {"locked"}, job : Jobs, result : Replies, locked : Servers]
    \cup [pc : {"staging", "marked"}, job : Jobs, locked : Servers, gen : Generations,
          left : SUBSET Assets, failed : BOOLEAN]
    \cup [pc : {"again"}, scope : SUBSET Organizations, server : Servers]
    \cup [pc : {"assets"}, kind : {"preview", "link"}, scope : SUBSET Organizations,
          server : Servers \cup {None}, assets : SUBSET Assets, cut : BOOLEAN]
    \cup [pc : {"reviewed"}, server : Servers \cup {None}, evidence : SUBSET Assets]
    \cup [pc : {"linking"}, scope : SUBSET Organizations, server : Servers \cup {None},
          evidence : SUBSET Assets]

TypeOK ==
    /\ data \in DOMAIN Inventory
    /\ saved \in [scope : SUBSET Organizations, server : Servers \cup {None}, on : BOOLEAN,
                  saves : Nat]
    /\ rows \subseteq [at : Nat, gen : Generations \cup {0}, key : Assets \cup {Marker}]
    /\ meta \in Seq([items : SUBSET Assets, scope : SUBSET Organizations, server : Servers,
                     gaps : BOOLEAN, expired : BOOLEAN])
    /\ lock \in [Servers -> Tasks \cup {None}]
    /\ task \in [Tasks -> TaskRows]

\* What a preview or a link takes from the cache is the whole of one refresh,
\* made for the scope and the server it asks for, whatever refreshes, crashes
\* and saves happen meanwhile; unless more rows are left than one read returns.
OneWholeGeneration ==
    \A p \in Tasks : task[p].pc = "assets" /\ ~task[p].cut /\ task[p].assets # {} =>
        \E g \in Generations : /\ meta[g].items = task[p].assets
                               /\ meta[g].scope = task[p].scope
                               /\ meta[g].server = task[p].server

\* A published generation is in the cache, whole, until a newer one of the same
\* server is published; no refused, failed or crashed refresh takes it away.
PublishedStays ==
    [][\A g \in Generations :
          /\ Published(g)
          /\ RowsIn(rows, g) # RowsIn(rows', g)
          => \E h \in Generations : h > g /\ Published(h)' /\ meta[h].server = meta[g].server]_vars

\* The diagnostics, the cached read and the previews read the same cache: a
\* device is called enriched only if a preview would enrich it now, a complete
\* cache is read as the preview uses it, and a cache that the preview uses is
\* called fresh.
ViewsAgree ==
    LET list == Shown
        merges == {x.device : x \in WouldMerge(list)}
    IN /\ \A device \in {x.device : x \in Inventory[data]} \ {None} :
             \A known \in {"mapped", "unknown"} :
                LET reason == Reason(list, device, known)
                IN /\ reason \in {"enriched", "graphql_only"} => device \in merges
                   /\ device \in merges => \/ reason = "stale_cache_evidence"
                                           \/ reason = IF known = "mapped" THEN "enriched"
                                                       ELSE "graphql_only"
       /\ Current(list) /\ saved.on => CachedItems(list) = WouldMerge(list)
       /\ WouldMerge(list) # {} => CachedStatus(list) = "fresh"
=============================================================================
