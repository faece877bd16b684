----------------------------- MODULE Providers -----------------------------
(***************************************************************************)
(* The modules of a provider's integration side by side: the cache of its   *)
(* enrichment (EnrichmentCache), its connection (ProviderConnection), the   *)
(* customers it lists (ProviderCompanies), the order in which previews read *)
(* details (DetailRotation) and the reading itself (DetailReads).  They     *)
(* share no state here; where one has a name of another's for its own       *)
(* constant or variable, it is renamed.                                     *)
(***************************************************************************)
EXTENDS Integers, Sequences, FiniteSets

CONSTANTS Inventory, Organizations, Servers, Tasks, Legacy, RestDevices, MaxAssets, ListLimit,
          MaxGeneration, MaxSaves,
          Kinds, Users, Testers, Situations, MaxRevision,
          Companies, Customers, Workers, Replicas, Home, MaxRuns, MaxEdits,
          Orgs, Estates, Limit, MaxListed, MaxPreviews,
          Devices, Readers,      \* the threads of the pool that reads details
          Attempts, MaxRejected

VARIABLES data, saved, cache, meta, held, work,
          kind, environment, conn, capability, request, test, situation, latest, loose, raced,
          offered, excluded, rows, mapping, lock, task, runs, edits,
          estate, mode, listed, preview, waited, begun,
          full, submitted, detail, worker, unavailable, token, issued, live, expired,
          renewals, late, cancel, outcome

E == INSTANCE EnrichmentCache WITH rows <- cache, lock <- held, task <- work
P == INSTANCE ProviderConnection
C == INSTANCE ProviderCompanies
R == INSTANCE DetailRotation WITH MaxRuns <- MaxPreviews
D == INSTANCE DetailReads WITH Workers <- Readers

ASSUME ProviderAssumption ==
    /\ E!CacheAssumption /\ P!ConnectionAssumption /\ C!CompanyAssumption
    /\ R!RotationAssumption /\ D!ReadAssumption

cacheVars == <<data, saved, cache, meta, held, work>>
connVars == <<kind, environment, conn, capability, request, test, situation, latest, loose, raced>>
companyVars == <<offered, excluded, rows, mapping, lock, task, runs, edits>>
rotationVars == <<estate, mode, listed, preview, waited, begun>>
readVars == <<full, submitted, detail, worker, unavailable, token, issued, live, expired,
              renewals, late, cancel, outcome>>
vars == <<cacheVars, connVars, companyVars, rotationVars, readVars>>

Init == E!Init /\ P!Init /\ C!Init /\ R!Init /\ D!Init

Next == \/ E!Next /\ UNCHANGED <<connVars, companyVars, rotationVars, readVars>>
        \/ P!Next /\ UNCHANGED <<cacheVars, companyVars, rotationVars, readVars>>
        \/ C!Next /\ UNCHANGED <<cacheVars, connVars, rotationVars, readVars>>
        \/ R!Next /\ UNCHANGED <<cacheVars, connVars, companyVars, readVars>>
        \/ D!Next /\ UNCHANGED <<cacheVars, connVars, companyVars, rotationVars>>

Spec == Init /\ [][Next]_vars

-----------------------------------------------------------------------------
\* The variables of every part have their types.
TypeOK == E!TypeOK /\ P!TypeOK /\ C!TypeOK /\ R!TypeOK /\ D!TypeOK

\* The cache serves one whole published generation, in which the views agree, until
\* another is published: the three promises of EnrichmentCache together.
CacheStands == [](E!OneWholeGeneration /\ E!ViewsAgree) /\ E!PublishedStays

\* Whatever forms are saved on top of each other, as long as they name their revision
\* the newest tokens are kept, and a connection that is called ready can be used but
\* for a change of it during its test.
ConnectionIsTrue == P!NewestTokensStand /\ P!ReadyMeansUsable

\* A discovery leaves its own list, but for what another replica's stores first while
\* it sweeps, and a mapping is removed as it was read, but for requests to another
\* replica.
CompaniesStand == C!OneDiscoveryStands /\ C!MappingsAreRemovedAsRead

EveryDeviceHasItsTurn == R!EveryDeviceHasItsTurn
ProviderIsSpared == D!ProviderIsSpared
CursorAdvances == R!CursorAdvances
=============================================================================
