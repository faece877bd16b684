-------------------------------- MODULE Cmdb --------------------------------
(***************************************************************************)
(* The modules of the CMDB's graph, of the inventory behind it and of the   *)
(* changes planned on it, side by side: RelationshipGraph, ChangeTemplates, *)
(* ChangeImpact and TechnicalInventory.  They share no state here; where    *)
(* one has a name of another's for its own variable, it is renamed.         *)
(***************************************************************************)
EXTENDS Integers, Sequences, FiniteSets

CONSTANTS CIs, Edges, Requests, Passes, Symmetric, Suggested, Automatic, Prints,
          AutoGenerations, MinObservations, MaxTime, MaxGeneration, MaxRevision,
          Editors, Seeders, Nobody, MaxVersion,
          Items, Kind, Estates,
          Sections,      \* collection of the inventory -> its possible contents
          Holders,       \* configuration items that a device may be linked to
          Workers, Retention, MaxClock, MaxReports, MaxChanges

VARIABLES edges, retired, candidates, generation, ready, request, pass, stale,
          template, versions, lock, proc, change, closed,
          estate, queue, paths,
          clock, source, enriched, linked, outOfService, snapshots, nics, import, best, reports,
          changes

R == INSTANCE RelationshipGraph
T == INSTANCE ChangeTemplates WITH None <- Nobody
I == INSTANCE ChangeImpact
V == INSTANCE TechnicalInventory
     WITH Contents <- Sections, Cis <- Holders, MaxEdits <- MaxChanges,
          device <- source, cached <- enriched, mapping <- linked,
          retired <- outOfService, rows <- snapshots, task <- import,
          edits <- changes

ASSUME CmdbAssumption ==
    R!GraphAssumption /\ T!TemplateAssumption /\ I!ImpactAssumption /\ V!InventoryAssumption

graph == <<edges, retired, candidates, generation, ready, request, pass, stale>>
templates == <<template, versions, lock, proc, change, closed>>
impact == <<estate, queue, paths>>
inventory == <<clock, source, enriched, linked, outOfService, snapshots, nics, import, best,
               reports, changes>>
vars == <<graph, templates, impact, inventory>>

Init == R!Init /\ T!Init /\ I!Init /\ V!Init

Next == \/ R!Next /\ UNCHANGED <<templates, impact, inventory>>
        \/ T!Next /\ UNCHANGED <<graph, impact, inventory>>
        \/ I!Next /\ UNCHANGED <<graph, templates, inventory>>
        \/ V!Next /\ UNCHANGED <<graph, templates, impact>>

Spec == Init /\ [][Next]_vars

-----------------------------------------------------------------------------
\* The variables of every part have their types.
TypeOK == R!TypeOK /\ T!TypeOK /\ I!TypeOK /\ V!TypeOK

SoundButForStaleChecks == R!SoundButForStaleChecks
ApprovedAsRead == R!ApprovedAsRead
NewestEvidenceStands == R!NewestEvidenceStands
AutomationFollowsPolicy == R!AutomationFollowsPolicy

\* A change is closed on the terms of the template version it was created from, which
\* no editor and no seed rewrites, and the template names a version that is committed.
TermsStay == [](T!Committed(template.current) /\ T!ClosedOnPinnedTerms) /\ T!HistoryGrows

\* Impact reaches what depends on the scope, along cycles and in any order of the
\* relationships, and the review of the change shows it.
ImpactIsSeen == I!ImpactIsExact /\ I!ReviewSeesImpact

\* The inventory of a configuration item is that of the newest record stored for it,
\* in the snapshots and in the rows of its interfaces.
InventoryIsNewest == V!NewestObservationStands /\ V!InterfacesFollowSnapshot
=============================================================================
