---------------------- MODULE PresenceLifecycleProofs ----------------------
(***************************************************************************)
(* Theorems about PresenceLifecycle, for every set of devices and every    *)
(* bound. The invariant is IInv: a row that counts missed snapshots counts *)
(* those the log has, whichever of snapshots, imports, decisions and saves *)
(* came in between; a retirement then has the snapshots it claims to have. *)
(***************************************************************************)
EXTENDS PresenceLifecycle, SequenceTheorems, TLAPS

----------------------------------------------------------------------------
(* Rows and ages *)

LEMMA LeastIsInt ==
    ASSUME NEW m \in Nat, NEW n \in Nat
    PROVE  /\ Least(m, n) \in Nat /\ Least(m, n) <= m /\ Least(m, n) <= n
           /\ Least(m, n) \in 0..n
  BY DEF Least

\* The bounds are numbers, and the first revisions are among the revisions.
LEMMA Bounds ==
    /\ MaxRequired \in Nat /\ MaxRequired >= 2
    /\ MinimumHours \in Nat /\ MinimumHours >= 1
    /\ MaxAge \in Nat /\ MaxAge >= 1 /\ MaxLag \in Nat
    /\ MaxMissing \in Nat /\ MaxMissing = MinimumHours + MaxLag
    /\ MaxLogged \in Nat /\ MaxLogged = MinimumHours + MaxAge
    /\ MaxPolicyRevision \in Nat /\ MaxConnectionRevision \in Nat
    /\ 0 \in 0..MaxRequired /\ 0 \in 0..MaxMissing /\ 0 \in 0..MaxLag
    /\ 1 \in PolicyRevisions /\ 1 \in ConnectionRevisions
    /\ PolicyRevisions \subseteq Nat /\ ConnectionRevisions \subseteq Nat
  BY PresenceAssumption DEF MaxMissing, MaxLogged, PolicyRevisions, ConnectionRevisions

LEMMA RowIsPresenceRow ==
    ASSUME NEW d \in Devices, TypeOK, presence[d] # NoPresence
    PROVE  presence[d] \in PresenceRow
  BY DEF TypeOK

LEMMA NoPresenceHasNoState == NoPresence.state = "none"
  BY DEF NoPresence

LEMMA PreviewIsPreviewRow ==
    ASSUME TypeOK, InProgress
    PROVE  preview \in PreviewRow
  BY DEF TypeOK, InProgress, NoPreview

LEMMA NoPreviewIsIdle == NoPreview.phase = "idle"
  BY DEF NoPreview

----------------------------------------------------------------------------
(* The invariant *)

LEMMA InitInv == Init => IInv
  <1> SUFFICES ASSUME Init PROVE IInv
    OBVIOUS
  <1>1. TypeOK
    BY Bounds DEF Init, TypeOK
  <1>2. ~InProgress
    BY DEF Init, InProgress, NoPreview
  <1>3. \A d \in Devices : presence[d] = NoPresence /\ mapping[d] = "none" /\ log[d] = <<>>
    BY DEF Init
  <1>4. NoPresence.state = "none"
    BY DEF NoPresence
  <1> QED
    BY <1>1, <1>2, <1>3, <1>4
    DEF IInv, MappingFollowsState, RevisionsAreTerms, ImportsAreNews, CountsFromNothing,
        CountsTheLog

\* The parts of the invariant that are about the rows, while rows, mappings and
\* log stay.
LEMMA RowsStay ==
    ASSUME UNCHANGED <<mapping, presence, historyVars>>
    PROVE  /\ MappingFollowsState => MappingFollowsState'
           /\ CountsFromNothing => CountsFromNothing'
           /\ CountsTheLog => CountsTheLog'
  BY DEF historyVars, MappingFollowsState, CountsFromNothing, CountsTheLog

LEMMA StartPreviewInv == IInv /\ StartPreview => IInv'
  <1> SUFFICES ASSUME IInv, StartPreview PROVE IInv'
    OBVIOUS
  <1> USE DEF StartPreview, scopeVars, historyVars
  <1>0. preview' \in PreviewRow
    <2>1. policy.revision \in PolicyRevisions /\ policy.filtered \in BOOLEAN
          /\ policy.required \in 2..MaxRequired
      BY DEF IInv, TypeOK
    <2>2. 0 \in 0..MaxLag
      BY Bounds
    <2> QED
      BY <2>1, <2>2 DEF PreviewRow
  <1>1. TypeOK'
    BY <1>0 DEF IInv, TypeOK
  <1>2. RevisionsAreTerms'
    <2>1. policy.revision \in Nat /\ preview'.policyRevision = policy'.revision
          /\ preview'.required = policy'.required
      BY Bounds DEF IInv, TypeOK
    <2>2. UNCHANGED <<policy, presence>>
      OBVIOUS
    <2> HIDE DEF StartPreview
    <2> QED
      BY <2>1, <2>2 DEF IInv, RevisionsAreTerms
  <1>3. ImportsAreNews'
    BY DEF ImportsAreNews
  <1> QED
    BY <1>1, <1>2, <1>3, RowsStay DEF IInv

LEMMA LabelPreviewInv == IInv /\ LabelPreview => IInv'
  <1> SUFFICES ASSUME IInv, LabelPreview PROVE IInv'
    OBVIOUS
  <1> USE DEF LabelPreview, scopeVars, historyVars
  <1>0. InProgress /\ preview \in PreviewRow
    BY PreviewIsPreviewRow DEF IInv, InProgress
  <1>1. TypeOK'
    BY <1>0, Bounds DEF IInv, TypeOK, PreviewRow
  <1>2. RevisionsAreTerms'
    BY <1>0 DEF IInv, RevisionsAreTerms, PreviewRow, InProgress
  <1>3. ImportsAreNews'
    BY <1>0 DEF IInv, ImportsAreNews, PreviewRow, InProgress
  <1> QED
    BY <1>1, <1>2, <1>3, RowsStay DEF IInv

LEMMA ReadProviderInv == IInv /\ ReadProvider => IInv'
  <1> SUFFICES ASSUME IInv, ReadProvider PROVE IInv'
    OBVIOUS
  <1> USE DEF ReadProvider, scopeVars, historyVars
  <1>0. InProgress /\ preview \in PreviewRow
    BY PreviewIsPreviewRow DEF IInv, InProgress
  <1>1. TypeOK'
    <2>1. PICK seen \in SUBSET reported :
             preview' = [preview EXCEPT !.phase = "read", !.seen = seen, !.imported = {}]
      OBVIOUS
    <2>2. seen \in SUBSET Devices
      BY DEF IInv, TypeOK
    <2>3. preview' \in PreviewRow
      BY <1>0, <2>1, <2>2 DEF PreviewRow
    <2> QED
      BY <2>3 DEF IInv, TypeOK
  <1>2. RevisionsAreTerms'
    BY <1>0 DEF IInv, RevisionsAreTerms, PreviewRow, InProgress
  <1>3. ImportsAreNews'
    BY <1>0 DEF IInv, ImportsAreNews, PreviewRow, InProgress
  <1> QED
    BY <1>1, <1>2, <1>3, RowsStay DEF IInv

LEMMA AbandonPreviewInv == IInv /\ AbandonPreview => IInv'
  <1> SUFFICES ASSUME IInv, AbandonPreview PROVE IInv'
    OBVIOUS
  <1> USE DEF AbandonPreview, scopeVars, historyVars
  <1>1. TypeOK'
    BY DEF IInv, TypeOK
  <1>2. ~InProgress'
    BY NoPreviewIsIdle DEF InProgress
  <1>3. RevisionsAreTerms' /\ ImportsAreNews'
    BY <1>2 DEF IInv, RevisionsAreTerms, ImportsAreNews
  <1> QED
    BY <1>1, <1>3, RowsStay DEF IInv

\* Steps of an import that change neither rows nor preview, and of the provider.
LEMMA OutsideInv ==
    ASSUME NEW d \in Devices, IInv,
           ImportRead(d) \/ ImportAbandoned(d) \/ ProviderChanges(d)
    PROVE  IInv'
  <1> USE DEF ImportRead, ImportAbandoned, ProviderChanges, scopeVars, historyVars
  <1>1. import' \in [Devices -> ImportRow \cup {NoImport}] /\ reported' \in SUBSET Devices
    <2> USE DEF IInv, TypeOK
    <2>1. CASE ImportRead(d)
      <3>1. [policyRevision |-> policy.revision,
             connectionRevision |-> connection.revision] \in ImportRow
        BY DEF ImportRow
      <3> QED
        BY <2>1, <3>1
    <2>2. CASE ImportAbandoned(d)
      BY <2>2
    <2>3. CASE ProviderChanges(d)
      BY <2>3
    <2> QED
      BY <2>1, <2>2, <2>3
  <1>2. TypeOK'
    BY <1>1 DEF IInv, TypeOK
  <1>3. RevisionsAreTerms' /\ ImportsAreNews'
    BY DEF IInv, RevisionsAreTerms, ImportsAreNews, InProgress
  <1>4. UNCHANGED <<mapping, presence, historyVars>>
    OBVIOUS
  <1> QED
    BY <1>2, <1>3, <1>4, RowsStay DEF IInv
----------------------------------------------------------------------------
(* Policy, connection and customer *)

LEMMA SavePolicyInv ==
    ASSUME NEW filtered \in BOOLEAN, NEW required \in 1..MaxRequired, IInv,
           SavePolicy(filtered, required)
    PROVE  IInv'
  <1> USE DEF SavePolicy, historyVars
  <1>1. policy.revision \in Nat /\ policy'.revision = policy.revision + 1
    BY Bounds DEF IInv, TypeOK
  <1>2. TypeOK'
    <2>1. policy' \in [revision : PolicyRevisions, filtered : BOOLEAN,
                       required : 2..MaxRequired]
      <3>1. Required(required) \in 2..MaxRequired
        BY Bounds DEF Required
      <3>2. policy.revision + 1 \in PolicyRevisions
        BY <1>1, Bounds DEF PolicyRevisions
      <3> QED
        BY <3>1, <3>2
    <2> QED
      BY <2>1 DEF IInv, TypeOK
  <1>3. RevisionsAreTerms'
    <2>1. InProgress => preview.policyRevision \in Nat
      BY PreviewIsPreviewRow, Bounds DEF IInv, PreviewRow
    <2>2. \A d \in Devices : presence[d] # NoPresence =>
             presence[d].policyRevision \in Nat
      BY RowIsPresenceRow, Bounds DEF IInv, PresenceRow
    <2> QED
      BY <1>1, <2>1, <2>2 DEF IInv, RevisionsAreTerms, InProgress
  <1>4. ImportsAreNews'
    BY DEF IInv, ImportsAreNews, InProgress
  <1>5. UNCHANGED <<mapping, presence, historyVars>>
    OBVIOUS
  <1> QED
    BY <1>2, <1>3, <1>4, <1>5, RowsStay DEF IInv

LEMMA ChangeConnectionInv ==
    ASSUME NEW active \in BOOLEAN, IInv, ChangeConnection(active)
    PROVE  IInv'
  <1> USE DEF ChangeConnection, historyVars
  <1>1. TypeOK'
    <2>1. connection.revision + 1 \in ConnectionRevisions
      BY Bounds DEF IInv, TypeOK, ConnectionRevisions
    <2> QED
      BY <2>1 DEF IInv, TypeOK
  <1>2. RevisionsAreTerms' /\ ImportsAreNews'
    BY DEF IInv, RevisionsAreTerms, ImportsAreNews, InProgress
  <1>3. UNCHANGED <<mapping, presence, historyVars>>
    OBVIOUS
  <1> QED
    BY <1>1, <1>2, <1>3, RowsStay DEF IInv

\* What a step leaves of the rows when it only makes them stale.
LEMMA MapCustomerInv == IInv /\ MapCustomer => IInv'
  <1> SUFFICES ASSUME IInv, MapCustomer PROVE IInv'
    OBVIOUS
  <1> USE DEF MapCustomer, historyVars
  <1>1. ASSUME NEW d \in Devices, presence[d] # NoPresence
        PROVE  /\ presence[d] \in PresenceRow
               /\ presence'[d] = [presence[d] EXCEPT !.remapped = TRUE]
               /\ presence'[d] \in PresenceRow
    <2>1. presence[d] \in PresenceRow
      BY <1>1, RowIsPresenceRow DEF IInv
    <2>2. presence'[d] = [presence[d] EXCEPT !.remapped = TRUE]
      BY <1>1
    <2> QED
      BY <2>1, <2>2 DEF PresenceRow
  <1>2. ASSUME NEW d \in Devices, presence[d] = NoPresence
        PROVE  presence'[d] = NoPresence
    BY <1>2
  <1>3. ASSUME NEW d \in Devices, presence[d] # NoPresence
        PROVE  /\ presence'[d] # NoPresence
               /\ presence'[d].state = presence[d].state
               /\ presence'[d].absences = presence[d].absences
               /\ presence'[d].missing = presence[d].missing
               /\ presence'[d].age = presence[d].age
               /\ presence'[d].policyRevision = presence[d].policyRevision
               /\ presence'[d].connectionRevision = presence[d].connectionRevision
               /\ presence'[d].filtered = presence[d].filtered
    BY <1>1, <1>3 DEF PresenceRow, NoPresence, States
  <1>4. TypeOK'
    <2>1. preview' \in PreviewRow \cup {NoPreview}
      <3>1. CASE InProgress
        BY <3>1, PreviewIsPreviewRow DEF IInv, PreviewRow
      <3>2. CASE ~InProgress
        BY <3>2 DEF IInv, TypeOK
      <3> QED
        BY <3>1, <3>2
    <2>2. presence' \in [Devices -> PresenceRow \cup {NoPresence}]
      <3>1. \A d \in Devices : presence'[d] \in PresenceRow \cup {NoPresence}
        BY <1>1, <1>2
      <3> QED
        BY <3>1
    <2> QED
      BY <2>1, <2>2 DEF IInv, TypeOK
  <1>5. MappingFollowsState'
    BY <1>2, <1>3 DEF IInv, MappingFollowsState
  <1>6. InProgress' = InProgress /\ (InProgress =>
           /\ preview'.policyRevision = preview.policyRevision
           /\ preview'.required = preview.required
           /\ preview'.fresh = preview.fresh /\ preview'.imported = preview.imported)
    <2>1. CASE InProgress
      BY <2>1, PreviewIsPreviewRow DEF IInv, PreviewRow, InProgress
    <2>2. CASE ~InProgress
      BY <2>2 DEF InProgress
    <2> QED
      BY <2>1, <2>2
  <1>7. RevisionsAreTerms'
    BY <1>2, <1>3, <1>6 DEF IInv, RevisionsAreTerms
  <1>8. ImportsAreNews'
    <2> SUFFICES ASSUME InProgress' PROVE ImportsAreNews'
      BY DEF ImportsAreNews
    <2>1. preview.fresh \in SUBSET Devices
      BY <1>6, PreviewIsPreviewRow DEF IInv, PreviewRow
    <2> QED
      BY <1>2, <1>6, <2>1 DEF IInv, ImportsAreNews
  <1>9. CountsFromNothing'
    BY <1>2, <1>3 DEF IInv, CountsFromNothing
  <1>10. CountsTheLog'
    BY <1>2, <1>3 DEF IInv, CountsTheLog, Counts, Spans
  <1> QED
    BY <1>4, <1>5, <1>7, <1>8, <1>9, <1>10 DEF IInv

----------------------------------------------------------------------------
(* Decisions and imports *)

LEMMA DecisionInv ==
    ASSUME NEW d \in Devices, IInv, Retire(d) \/ Restore(d)
    PROVE  IInv'
  <1> DEFINE row == presence'[d]
  <1>1. presence[d] \in PresenceRow /\ presence[d] # NoPresence
    <2>1. presence[d].state \in States
      BY DEF Retire, Restore, States
    <2>2. presence[d] # NoPresence
      BY <2>1, NoPresenceHasNoState DEF States
    <2>3. presence[d] \in PresenceRow
      BY <2>2, RowIsPresenceRow DEF IInv
    <2> QED
      BY <2>2, <2>3
  <1>2. \A e \in Devices \ {d} : presence'[e] = presence[e] /\ mapping'[e] = mapping[e]
    BY DEF Retire, Restore, IInv, TypeOK
  <1>3. UNCHANGED <<policy, connection, mapped, reported, preview, import, log, sighted>>
    BY DEF Retire, Restore, scopeVars, historyVars
  <1>4. /\ row \in PresenceRow /\ row # NoPresence
        /\ row.policyRevision = presence[d].policyRevision
        /\ \/ row.state = "retired" /\ mapping'[d] = "inactive"
           \/ /\ row.state = "observed" /\ mapping'[d] = "active"
              /\ row.absences = 0 /\ log[d] = <<>>
    <2>1. presence \in [Devices -> PresenceRow \cup {NoPresence}]
          /\ mapping \in [Devices -> {"none", "active", "inactive"}]
      BY DEF IInv, TypeOK
    <2>2. CASE Retire(d)
      <3>1. row = [presence[d] EXCEPT !.state = "retired"] /\ mapping'[d] = "inactive"
        BY <2>1, <2>2 DEF Retire
      <3> QED
        BY <1>1, <3>1 DEF PresenceRow, NoPresence, States
    <2>3. CASE Restore(d)
      <3>1. /\ row = [presence[d] EXCEPT !.state = "observed", !.absences = 0, !.missing = 0]
            /\ mapping'[d] = "active"
        BY <2>1, <2>3 DEF Restore
      <3>2. log[d] = <<>>
        BY <2>3 DEF Restore, IInv, CountsFromNothing
      <3>3. row \in PresenceRow
        BY <1>1, <3>1, Bounds DEF PresenceRow, States
      <3>4. /\ row.state = "observed" /\ row.absences = 0
            /\ row.policyRevision = presence[d].policyRevision
        BY <1>1, <3>1 DEF PresenceRow
      <3>5. row # NoPresence
        BY <3>4, NoPresenceHasNoState
      <3> QED
        BY <3>1, <3>2, <3>3, <3>4, <3>5
    <2> QED
      BY <2>2, <2>3
  <1> HIDE DEF row
  <1>5. TypeOK'
    <2>1. mapping' \in [Devices -> {"none", "active", "inactive"}]
      BY DEF IInv, TypeOK, Retire, Restore
    <2>2. presence' \in [Devices -> PresenceRow \cup {NoPresence}]
      <3>1. presence' = [presence EXCEPT ![d] = row]
        BY DEF IInv, TypeOK, Retire, Restore, row
      <3> QED
        BY <1>4, <3>1 DEF IInv, TypeOK
    <2> QED
      BY <1>3, <2>1, <2>2 DEF IInv, TypeOK
  <1>6. MappingFollowsState'
    BY <1>2, <1>4 DEF IInv, MappingFollowsState, row
  <1>7. RevisionsAreTerms'
    BY <1>1, <1>2, <1>3, <1>4 DEF IInv, RevisionsAreTerms, InProgress, row
  <1>8. ImportsAreNews'
    <2> SUFFICES ASSUME InProgress PROVE ImportsAreNews'
      BY <1>3 DEF ImportsAreNews, InProgress
    <2>1. preview.fresh \in SUBSET Devices
      BY PreviewIsPreviewRow DEF IInv, PreviewRow
    <2> QED
      BY <1>1, <1>2, <1>3, <2>1 DEF IInv, ImportsAreNews
  <1>9. CountsFromNothing'
    BY <1>2, <1>3, <1>4 DEF IInv, CountsFromNothing, row
  <1>10. CountsTheLog'
    BY <1>2, <1>3, <1>4 DEF IInv, CountsTheLog, row
  <1> QED
    BY <1>5, <1>6, <1>7, <1>8, <1>9, <1>10 DEF IInv

LEMMA ImportApplyInv ==
    ASSUME NEW d \in Devices, IInv, ImportApply(d)
    PROVE  IInv'
  <1> DEFINE row == presence'[d]
  <1>1. /\ UNCHANGED <<policy, connection, mapped, reported, sighted>>
        /\ mapping[d] # "inactive" /\ mapping'[d] = "active" /\ log'[d] = <<>>
    BY DEF ImportApply, Importable, scopeVars, IInv, TypeOK
  <1>2. \A e \in Devices \ {d} : /\ presence'[e] = presence[e]
                                 /\ mapping'[e] = mapping[e] /\ log'[e] = log[e]
    BY DEF ImportApply, IInv, TypeOK
  <1>4. \/ presence[d] = NoPresence /\ row = NoPresence /\ presence' = presence
        \/ /\ presence[d] # NoPresence
           /\ row \in PresenceRow /\ row # NoPresence
           /\ row.state = "observed" /\ row.absences = 0
           /\ row.policyRevision = policy.revision
           /\ presence' = [presence EXCEPT ![d] = row]
    <2>1. CASE presence[d] = NoPresence
      BY <2>1 DEF ImportApply
    <2>2. CASE presence[d] # NoPresence
      <3>1. presence[d] \in PresenceRow
        BY <2>2, RowIsPresenceRow DEF IInv
      <3>2. row = [presence[d] EXCEPT !.state = "observed", !.absences = 0, !.missing = 0,
                                     !.policyRevision = policy.revision,
                                     !.connectionRevision = connection.revision]
            /\ presence' = [presence EXCEPT ![d] = row]
        BY <2>2 DEF ImportApply, IInv, TypeOK
      <3>3. policy.revision \in PolicyRevisions /\ connection.revision \in ConnectionRevisions
        BY DEF IInv, TypeOK
      <3>4. row \in PresenceRow
        BY <3>1, <3>2, <3>3, Bounds DEF PresenceRow, States
      <3>5. /\ row.state = "observed" /\ row.absences = 0
            /\ row.policyRevision = policy.revision
        BY <3>1, <3>2 DEF PresenceRow
      <3>6. row # NoPresence
        BY <3>5, NoPresenceHasNoState
      <3> QED
        BY <2>2, <3>2, <3>4, <3>5, <3>6
    <2> QED
      BY <2>1, <2>2
  <1> HIDE DEF row
  <1>5. /\ InProgress' = InProgress
        /\ ~InProgress => preview' = preview
        /\ InProgress =>
              /\ preview' \in PreviewRow
              /\ preview'.policyRevision = preview.policyRevision
              /\ preview'.required = preview.required
              /\ preview'.imported = preview.imported \cup {d}
              /\ preview'.fresh = IF mapping[d] = "none" THEN preview.fresh \cup {d}
                                  ELSE preview.fresh
    <2>1. CASE InProgress
      <3>1. preview \in PreviewRow
        BY <2>1, PreviewIsPreviewRow DEF IInv
      <3>2. preview' = [preview EXCEPT !.imported = @ \cup {d},
                          !.fresh = IF mapping[d] = "none" THEN @ \cup {d} ELSE @]
        BY <2>1 DEF ImportApply
      <3> QED
        BY <2>1, <3>1, <3>2 DEF PreviewRow, InProgress
    <2>2. CASE ~InProgress
      BY <2>2 DEF ImportApply, InProgress
    <2> QED
      BY <2>1, <2>2
  <1>6. TypeOK'
    <2>1. mapping' \in [Devices -> {"none", "active", "inactive"}]
          /\ import' \in [Devices -> ImportRow \cup {NoImport}]
      BY DEF IInv, TypeOK, ImportApply
    <2>2. presence' \in [Devices -> PresenceRow \cup {NoPresence}]
      BY <1>4 DEF IInv, TypeOK
    <2>3. preview' \in PreviewRow \cup {NoPreview}
      BY <1>5 DEF IInv, TypeOK
    <2>4. log' \in [Devices -> Seq(LogEntry)]
      BY DEF IInv, TypeOK, ImportApply
    <2>5. \A e \in Devices : Len(log'[e]) <= MaxRequired
      BY <1>1, <1>2, Bounds DEF IInv, TypeOK
    <2> QED
      BY <1>1, <2>1, <2>2, <2>3, <2>4, <2>5 DEF IInv, TypeOK
  <1>7. MappingFollowsState'
    <2>1. NoPresence.state = "none"
      BY DEF NoPresence
    <2> QED
      BY <1>1, <1>2, <1>4, <2>1 DEF IInv, MappingFollowsState, row
  <1>8. RevisionsAreTerms'
    <2>1. policy.revision \in Nat
      BY Bounds DEF IInv, TypeOK
    <2> QED
      BY <1>1, <1>2, <1>4, <1>5, <2>1 DEF IInv, RevisionsAreTerms, row
  <1>9. ImportsAreNews'
    <2> SUFFICES ASSUME InProgress PROVE ImportsAreNews'
      BY <1>5 DEF ImportsAreNews
    <2>1. preview.fresh \in SUBSET Devices /\ preview.imported \in SUBSET Devices
      BY PreviewIsPreviewRow DEF IInv, PreviewRow
    <2>2. \A e \in preview'.imported : log'[e] = <<>>
      BY <1>1, <1>2, <1>5, <2>1 DEF IInv, ImportsAreNews
    <2>3. mapping[d] = "none" => presence[d] = NoPresence
      BY DEF IInv, MappingFollowsState
    <2>4. \A e \in preview'.fresh : presence'[e] = NoPresence
      BY <1>2, <1>4, <1>5, <2>1, <2>3 DEF IInv, ImportsAreNews, row
    <2> QED
      BY <2>2, <2>4 DEF ImportsAreNews
  <1>10. CountsFromNothing' /\ CountsTheLog'
    <2>1. NoPresence.state = "none"
      BY DEF NoPresence
    <2>2. CountsFromNothing'
      BY <1>1, <1>2, <1>4, <2>1 DEF IInv, CountsFromNothing, row
    <2>3. CountsTheLog'
      BY <1>1, <1>2, <1>4, <2>1 DEF IInv, CountsTheLog, row
    <2> QED
      BY <2>2, <2>3
  <1> QED
    BY <1>6, <1>7, <1>8, <1>9, <1>10 DEF IInv

----------------------------------------------------------------------------
(* Time *)

\* Two records of one age are of one age an hour later, whatever their bounds.
LEMMA OneAgeLater ==
    ASSUME NEW m \in Nat, NEW n \in Nat, NEW bound \in Nat, NEW b1 \in Nat,
           NEW b2 \in Nat, bound <= b1, bound <= b2, OneAge(m, n, bound)
    PROVE  OneAge(Older(m, b1), Older(n, b2), bound)
  BY DEF OneAge, Older, Least

\* Two snapshots that lie apart do so an hour later, while the last is recent.
LEMMA ApartLater ==
    ASSUME NEW first \in Nat, NEW last \in Nat,
           last <= MaxAge => first - last >= MinimumHours,
           Older(last, MaxLogged) <= MaxAge
    PROVE  Older(first, MaxLogged) - Older(last, MaxLogged) >= MinimumHours
  <1>1. MaxLogged = MinimumHours + MaxAge /\ MinimumHours \in Nat /\ MinimumHours >= 1
        /\ MaxAge \in Nat
    BY Bounds
  <1> QED
    BY <1>1 DEF Older, Least

LEMMA OlderIsBounded ==
    ASSUME NEW bound \in Nat, NEW age \in Nat
    PROVE  Older(age, bound) \in 0..bound
  BY DEF Older, Least

\* A log an hour later.
LEMMA LogGrowsOlder ==
    ASSUME NEW misses \in Seq(LogEntry),
           NEW older, older = [i \in DOMAIN misses |->
                                   [misses[i] EXCEPT !.age = Older(@, MaxLogged)]]
    PROVE  /\ older \in Seq(LogEntry) /\ Len(older) = Len(misses)
           /\ misses = <<>> => older = <<>>
           /\ \A i \in 1..Len(misses) :
                 /\ older[i].revision = misses[i].revision
                 /\ older[i].outdated = misses[i].outdated
                 /\ misses[i].age \in Nat
                 /\ older[i].age = Older(misses[i].age, MaxLogged)
  <1>1. Len(misses) \in Nat /\ DOMAIN misses = 1..Len(misses)
        /\ \A i \in 1..Len(misses) : misses[i] \in LogEntry
    OBVIOUS
  <1>2. \A i \in 1..Len(misses) :
           /\ older[i] \in LogEntry
           /\ older[i].revision = misses[i].revision
           /\ older[i].outdated = misses[i].outdated
           /\ misses[i].age \in Nat
           /\ older[i].age = Older(misses[i].age, MaxLogged)
    <2> TAKE i \in 1..Len(misses)
    <2>1. misses[i] \in LogEntry /\ misses[i].age \in Nat
      BY <1>1, Bounds DEF LogEntry
    <2>2. older[i] = [misses[i] EXCEPT !.age = Older(misses[i].age, MaxLogged)]
      BY <1>1
    <2>3. Older(misses[i].age, MaxLogged) \in 0..MaxLogged
      BY <2>1, OlderIsBounded, Bounds
    <2> QED
      BY <2>1, <2>2, <2>3 DEF LogEntry
  <1>3. older \in [1..Len(misses) -> LogEntry]
    BY <1>1, <1>2
  <1>4. older \in Seq(LogEntry) /\ Len(older) = Len(misses)
    BY <1>1, <1>3
  <1>5. misses = <<>> => older = <<>>
    BY <1>4, EmptySeq
  <1> QED
    BY <1>2, <1>4, <1>5

LEMMA TickInv == IInv /\ Tick => IInv'
  <1> SUFFICES ASSUME IInv, Tick PROVE IInv'
    OBVIOUS
  <1>1. UNCHANGED <<policy, connection, mapped, reported, mapping, import, sighted>>
    BY DEF Tick, scopeVars
  <1>2. \A d \in Devices :
           /\ log[d] \in Seq(LogEntry) /\ Len(log[d]) <= MaxRequired
           /\ log'[d] = [i \in DOMAIN log[d] |->
                            [log[d][i] EXCEPT !.age = Older(@, MaxLogged)]]
    BY DEF Tick, IInv, TypeOK
  <1>3. \A d \in Devices :
           /\ log'[d] \in Seq(LogEntry) /\ Len(log'[d]) = Len(log[d])
           /\ log[d] = <<>> => log'[d] = <<>>
           /\ \A i \in 1..Len(log[d]) :
                 /\ log'[d][i].revision = log[d][i].revision
                 /\ log'[d][i].outdated = log[d][i].outdated
                 /\ log[d][i].age \in Nat
                 /\ log'[d][i].age = Older(log[d][i].age, MaxLogged)
    <2> TAKE d \in Devices
    <2> DEFINE misses == log[d]
               older == log'[d]
    <2>1. /\ misses \in Seq(LogEntry)
          /\ older = [i \in DOMAIN misses |->
                        [misses[i] EXCEPT !.age = Older(@, MaxLogged)]]
      BY <1>2
    <2> HIDE DEF misses, older
    <2>2. /\ older \in Seq(LogEntry) /\ Len(older) = Len(misses)
          /\ misses = <<>> => older = <<>>
          /\ \A i \in 1..Len(misses) :
                /\ older[i].revision = misses[i].revision
                /\ older[i].outdated = misses[i].outdated
                /\ misses[i].age \in Nat
                /\ older[i].age = Older(misses[i].age, MaxLogged)
      BY <2>1, LogGrowsOlder
    <2> QED
      BY <2>2 DEF misses, older
  <1>4. ASSUME NEW d \in Devices, presence[d] = NoPresence
        PROVE  presence'[d] = NoPresence
    BY <1>4 DEF Tick
  <1>5. ASSUME NEW d \in Devices, presence[d] # NoPresence
        PROVE  /\ presence[d].age \in Nat /\ presence[d].missing \in Nat
               /\ presence'[d] \in PresenceRow /\ presence'[d] # NoPresence
               /\ presence'[d].state = presence[d].state
               /\ presence'[d].absences = presence[d].absences
               /\ presence'[d].policyRevision = presence[d].policyRevision
               /\ presence'[d].connectionRevision = presence[d].connectionRevision
               /\ presence'[d].filtered = presence[d].filtered
               /\ presence'[d].age = Older(presence[d].age, MaxAge + 1)
               /\ presence[d].absences # 0 =>
                     presence'[d].missing = Older(presence[d].missing, MaxMissing)
    <2>1. presence[d] \in PresenceRow
      BY <1>5, RowIsPresenceRow DEF IInv
    <2>2. presence[d].age \in Nat /\ presence[d].missing \in Nat
      BY <2>1, Bounds DEF PresenceRow
    <2> DEFINE age == Older(presence[d].age, MaxAge + 1)
               missing == IF presence[d].absences = 0 THEN 0
                          ELSE Older(presence[d].missing, MaxMissing)
    <2>3. presence'[d] = [presence[d] EXCEPT !.age = age, !.missing = missing]
      BY <1>5 DEF Tick
    <2>4. age \in 0..MaxAge + 1 /\ missing \in 0..MaxMissing
      <3>1. age \in 0..MaxAge + 1
        <4>1. MaxAge + 1 \in Nat
          BY Bounds
        <4> QED
          BY <2>2, <4>1, OlderIsBounded
      <3>2. Older(presence[d].missing, MaxMissing) \in 0..MaxMissing
        BY <2>2, OlderIsBounded, Bounds
      <3> QED
        BY <3>1, <3>2, Bounds
    <2>5. presence[d].absences # 0 => missing = Older(presence[d].missing, MaxMissing)
      OBVIOUS
    <2> HIDE DEF missing
    <2>6. presence'[d] \in PresenceRow
      BY <2>1, <2>3, <2>4 DEF PresenceRow
    <2>7. presence'[d].state \in States
      BY <2>6 DEF PresenceRow
    <2>8. presence'[d] # NoPresence
      BY <2>7, NoPresenceHasNoState DEF States
    <2> QED
      BY <2>1, <2>2, <2>3, <2>5, <2>6, <2>8 DEF PresenceRow
  <1>6. InProgress' = InProgress /\ preview' \in PreviewRow \cup {NoPreview}
        /\ (InProgress =>
              /\ preview'.policyRevision = preview.policyRevision
              /\ preview'.required = preview.required
              /\ preview'.fresh = preview.fresh /\ preview'.imported = preview.imported)
    <2>1. CASE preview.phase = "read"
      <3>1. preview \in PreviewRow /\ preview.age < MaxLag
        BY <2>1, PreviewIsPreviewRow DEF IInv, InProgress, Tick
      <3>2. preview' = [preview EXCEPT !.age = @ + 1]
        BY <2>1 DEF Tick
      <3> QED
        BY <2>1, <3>1, <3>2, Bounds DEF PreviewRow, InProgress
    <2>2. CASE preview.phase # "read"
      BY <2>2 DEF Tick, InProgress, IInv, TypeOK
    <2> QED
      BY <2>1, <2>2
  <1>7. TypeOK'
    <2>1. presence' \in [Devices -> PresenceRow \cup {NoPresence}]
      BY <1>4, <1>5 DEF Tick
    <2>2. log' \in [Devices -> Seq(LogEntry)]
          /\ \A d \in Devices : Len(log'[d]) <= MaxRequired
      BY <1>2, <1>3 DEF Tick
    <2> QED
      BY <1>1, <1>6, <2>1, <2>2 DEF IInv, TypeOK
  <1>8. MappingFollowsState'
    BY <1>1, <1>4, <1>5 DEF IInv, MappingFollowsState
  <1>9. RevisionsAreTerms'
    BY <1>1, <1>4, <1>5, <1>6 DEF IInv, RevisionsAreTerms
  <1>10. ImportsAreNews'
    <2> SUFFICES ASSUME InProgress PROVE ImportsAreNews'
      BY <1>6 DEF ImportsAreNews
    <2>1. preview.fresh \in SUBSET Devices /\ preview.imported \in SUBSET Devices
      BY PreviewIsPreviewRow DEF IInv, PreviewRow
    <2> QED
      BY <1>3, <1>4, <1>6, <2>1 DEF IInv, ImportsAreNews
  <1>11. CountsFromNothing'
    BY <1>1, <1>3, <1>4, <1>5 DEF IInv, CountsFromNothing
  <1>12. CountsTheLog'
    <2> SUFFICES ASSUME NEW d \in Devices,
                        presence'[d].state \in {"monitoring", "eligible"}
                 PROVE  /\ Counts(presence'[d], log'[d]) /\ Spans(presence'[d], log'[d])
                        /\ d \notin sighted'
      BY DEF CountsTheLog
    <2>1. presence[d] # NoPresence
      BY <1>4, NoPresenceHasNoState
    <2> DEFINE row == presence[d]
               misses == log[d]
               n == Len(log[d])
    <2>2. Counts(row, misses) /\ Spans(row, misses) /\ d \notin sighted'
      BY <1>1, <1>5, <2>1 DEF IInv, CountsTheLog
    <2>3. n \in Nat /\ n > 0 /\ 1 \in 1..n /\ n \in 1..n
      BY <1>2, <2>2 DEF Counts
    <2>4. row.absences # 0 /\ row.absences = n
      BY <2>2, <2>3 DEF Counts
    <2>5. OneAge(presence'[d].missing, log'[d][1].age, Least(MaxMissing, MaxLogged))
      <3>1. OneAge(row.missing, misses[1].age, Least(MaxMissing, MaxLogged))
        BY <2>2 DEF Spans
      <3>2. presence'[d].missing = Older(row.missing, MaxMissing) /\ row.missing \in Nat
        BY <1>5, <2>1, <2>4
      <3>3. log'[d][1].age = Older(misses[1].age, MaxLogged) /\ misses[1].age \in Nat
        BY <1>3, <2>3
      <3>4. /\ MaxMissing \in Nat /\ MaxLogged \in Nat
            /\ Least(MaxMissing, MaxLogged) \in Nat
            /\ Least(MaxMissing, MaxLogged) <= MaxMissing
            /\ Least(MaxMissing, MaxLogged) <= MaxLogged
        BY LeastIsInt, Bounds
      <3> QED
        BY <3>1, <3>2, <3>3, <3>4, OneAgeLater
    <2>6. presence'[d].age <= MaxAge => log'[d][n].age = presence'[d].age
      <3>1. presence'[d].age = Older(row.age, MaxAge + 1) /\ row.age \in Nat
        BY <1>5, <2>1
      <3>2. log'[d][n].age = Older(misses[n].age, MaxLogged) /\ misses[n].age \in Nat
        BY <1>3, <2>3
      <3>3. row.age <= MaxAge => misses[n].age = row.age
        BY <2>2 DEF Spans
      <3> QED
        BY <3>1, <3>2, <3>3, Bounds DEF Older, Least
    <2>7. presence'[d].state = "eligible" /\ log'[d][n].age <= MaxAge =>
             log'[d][1].age - log'[d][n].age >= MinimumHours
      <3>1. log'[d][1].age = Older(misses[1].age, MaxLogged) /\ misses[1].age \in Nat
        BY <1>3, <2>3
      <3>2. log'[d][n].age = Older(misses[n].age, MaxLogged) /\ misses[n].age \in Nat
        BY <1>3, <2>3
      <3>3. row.state = "eligible" /\ misses[n].age <= MaxAge =>
               misses[1].age - misses[n].age >= MinimumHours
        BY <2>2 DEF Spans
      <3>4. presence'[d].state = row.state
        BY <1>5, <2>1
      <3> QED
        BY <3>1, <3>2, <3>3, <3>4, ApartLater
    <2>8. \A i \in 1..n : /\ log'[d][i].revision = presence'[d].connectionRevision
                          /\ log'[d][i].outdated => i = 1
      BY <1>3, <1>5, <2>1, <2>2 DEF Counts
    <2>9. ~presence'[d].filtered /\ presence'[d].absences = n /\ Len(log'[d]) = n
      BY <1>3, <1>5, <2>1, <2>2 DEF Counts
    <2> HIDE DEF n, row, misses
    <2>10. Counts(presence'[d], log'[d])
      BY <2>3, <2>8, <2>9 DEF Counts
    <2>11. Spans(presence'[d], log'[d])
      BY <2>5, <2>6, <2>7, <2>9 DEF Spans
    <2> QED
      BY <2>2, <2>10, <2>11
  <1> QED
    BY <1>7, <1>8, <1>9, <1>10, <1>11, <1>12 DEF IInv

----------------------------------------------------------------------------
(* Publication *)

\* A row that a snapshot evaluates.
LEMMA EvaluatedIsPresenceRow ==
    ASSUME TypeOK, InProgress, Accepted, NEW state \in States,
           NEW absences \in 0..MaxRequired, NEW missing \in 0..MaxMissing
    PROVE  LET row == Evaluated(state, absences, missing)
           IN  /\ row \in PresenceRow /\ row # NoPresence
               /\ row.state = state /\ row.absences = absences /\ row.missing = missing
               /\ row.age = Least(preview.age, MaxAge + 1)
               /\ row.policyRevision = policy.revision
               /\ row.connectionRevision = preview.connectionRevision
               /\ row.filtered = preview.filtered
  <1> DEFINE row == Evaluated(state, absences, missing)
  <1>1. preview \in PreviewRow
    BY PreviewIsPreviewRow
  <1>2. /\ preview.age \in Nat /\ preview.filtered \in BOOLEAN
        /\ preview.policyRevision = policy.revision
        /\ preview.connectionRevision = connection.revision
        /\ policy.revision \in PolicyRevisions
        /\ connection.revision \in ConnectionRevisions
    BY <1>1, Bounds DEF PreviewRow, Accepted, TypeOK
  <1>3. Least(preview.age, MaxAge + 1) \in 0..MaxAge + 1
    <2>1. MaxAge + 1 \in Nat
      BY Bounds
    <2> QED
      BY <1>2, <2>1, LeastIsInt
  <1>4. row \in PresenceRow
    BY <1>2, <1>3 DEF Evaluated, PresenceRow
  <1>5. /\ row.state = state /\ row.absences = absences /\ row.missing = missing
        /\ row.age = Least(preview.age, MaxAge + 1)
        /\ row.policyRevision = policy.revision
        /\ row.connectionRevision = preview.connectionRevision
        /\ row.filtered = preview.filtered
    BY <1>2 DEF Evaluated
  <1>6. row # NoPresence
    BY <1>5, NoPresenceHasNoState DEF States
  <1> QED
    BY <1>4, <1>5, <1>6

\* A log goes on with an entry: all of it, or without its second entry.
Continues(current, entry, misses) ==
    /\ misses \in Seq(LogEntry)
    /\ Len(misses) = IF Len(current) = MaxRequired THEN MaxRequired ELSE Len(current) + 1
    /\ misses[Len(misses)] = entry
    /\ current # <<>> => misses[1] = current[1]
    /\ \A i \in 2..(Len(misses) - 1) :
          \/ misses[i] = current[i]
          \/ i + 1 <= Len(current) /\ misses[i] = current[i + 1]

LEMMA LogContinues ==
    ASSUME TypeOK, NEW d \in Devices, NEW entry \in LogEntry,
           NEW current, current = log[d] \/ current = <<>>,
           NEW misses, misses = Append(WithRoom(current), entry)
    PROVE  Continues(current, entry, misses)
  <1> DEFINE kept == WithRoom(current)
  <1>1. current \in Seq(LogEntry) /\ Len(current) \in Nat /\ Len(current) <= MaxRequired
    <2>1. CASE current = <<>>
      BY <2>1, EmptySeq, Bounds
    <2>2. CASE current = log[d]
      BY <2>2 DEF TypeOK
    <2> QED
      BY <2>1, <2>2
  <1>2. CASE Len(current) < MaxRequired
    <2>1. misses = Append(current, entry)
      BY <1>2 DEF WithRoom
    <2>2. /\ misses \in Seq(LogEntry) /\ Len(misses) = Len(current) + 1
          /\ misses[Len(misses)] = entry
          /\ \A i \in 1..Len(current) : misses[i] = current[i]
      BY <1>1, <2>1
    <2>3. current # <<>> => misses[1] = current[1]
      <3>1. current # <<>> => 1 \in 1..Len(current)
        BY <1>1
      <3> QED
        BY <2>2, <3>1
    <2>4. \A i \in 2..(Len(misses) - 1) : misses[i] = current[i]
      <3>1. \A i \in 2..(Len(misses) - 1) : i \in 1..Len(current)
        BY <1>1, <2>2
      <3> QED
        BY <2>2, <3>1
    <2>5. Len(current) # MaxRequired
      BY <1>1, <1>2, Bounds
    <2>6. Len(misses) = IF Len(current) = MaxRequired THEN MaxRequired
                        ELSE Len(current) + 1
      BY <2>2, <2>5
    <2> QED
      BY <2>2, <2>3, <2>4, <2>6 DEF Continues
  <1>3. CASE Len(current) >= MaxRequired
    <2> DEFINE tail == SubSeq(current, 3, Len(current))
               n == Len(current)
    <2>1. n \in Nat /\ n = MaxRequired /\ n >= 2
      BY <1>1, <1>3, Bounds
    <2>2. /\ tail \in Seq(LogEntry) /\ Len(tail) = n - 2
          /\ \A i \in 1..(n - 2) : tail[i] = current[i + 2]
      <3>1. CASE n = 2
        BY <1>1, <3>1
      <3>2. CASE n >= 3
        BY <1>1, <3>2
      <3> QED
        BY <2>1, <3>1, <3>2
    <2>3. Head(current) = current[1] /\ current[1] \in LogEntry
      BY <1>1, <2>1
    <2>4. kept = <<current[1]>> \o tail /\ misses = Append(kept, entry)
      BY <1>3, <2>1, <2>3 DEF WithRoom
    <2> HIDE DEF tail, n, kept
    <2>5. /\ kept \in Seq(LogEntry) /\ Len(kept) = n - 1 /\ kept[1] = current[1]
          /\ \A i \in 2..(n - 1) : kept[i] = current[i + 1]
      <3>1. kept \in Seq(LogEntry) /\ Len(kept) = n - 1 /\ kept[1] = current[1]
        <4> DEFINE head == <<current[1]>>
        <4>1. head \in Seq(LogEntry) /\ Len(head) = 1 /\ head[1] = current[1]
          BY <2>3
        <4>2. kept = head \o tail
          BY <2>4
        <4> HIDE DEF head
        <4>3. Len(head) + Len(tail) \in Nat
          BY <2>1, <2>2, <4>1
        <4>4. kept \in Seq(LogEntry) /\ Len(kept) = Len(head) + Len(tail)
              /\ \A i \in 1..(Len(head) + Len(tail)) : kept[i] = IF i <= Len(head) THEN head[i]
                                                  ELSE tail[i - Len(head)]
          BY ONLY <2>2, <4>1, <4>2, <4>3, ConcatProperties
        <4>5. 1 \in 1..(Len(head) + Len(tail))
          BY <2>1, <2>2, <4>1, <4>4
        <4> QED
          BY <2>1, <2>2, <4>1, <4>4, <4>5
      <3>2. ASSUME NEW i \in 2..(n - 1) PROVE kept[i] = current[i + 1]
        <4>1. kept[i] = tail[i - 1]
          BY <2>1, <2>2, <2>3, <2>4
        <4>2. i - 1 \in 1..(n - 2) /\ (i - 1) + 2 = i + 1
          BY <2>1
        <4> QED
          BY <2>2, <4>1, <4>2
      <3> QED
        BY <3>1, <3>2
    <2>6. /\ misses \in Seq(LogEntry) /\ Len(misses) = n
          /\ misses[n] = entry
          /\ \A i \in 1..(n - 1) : misses[i] = kept[i]
      BY <2>1, <2>4, <2>5
    <2>7. 1 \in 1..(n - 1)
      BY <2>1
    <2>8. ASSUME NEW i \in 2..(n - 1)
          PROVE  i + 1 <= n /\ misses[i] = current[i + 1]
      <3>1. i + 1 <= n /\ i \in 1..(n - 1)
        BY <2>1
      <3>2. misses[i] = kept[i] /\ kept[i] = current[i + 1]
        BY <2>5, <2>6, <3>1
      <3> QED
        BY <3>1, <3>2
    <2> QED
      BY <2>1, <2>5, <2>6, <2>7, <2>8 DEF n, Continues
  <1> QED
    BY <1>1, <1>2, <1>3, Bounds

\* Hours that a row counts lie between the snapshots of its log, too.
LEMMA ApartInLog ==
    ASSUME NEW missing \in Nat, NEW first \in Nat, NEW age \in Nat,
           OneAge(missing, first, Least(MaxMissing, MaxLogged)),
           age <= MaxLag, age <= MaxAge, missing - age >= MinimumHours
    PROVE  first - age >= MinimumHours
  BY Bounds DEF OneAge, Least

\* A device that was missed: the row counts the log that the snapshot leaves.
LEMMA MissedCounts ==
    ASSUME IInv, preview.phase = "read", Accepted, NEW d \in Devices,
           mapping[d] = "active", d \notin preview.seen, d \notin preview.fresh,
           ~preview.filtered
    PROVE  /\ Missed(d) \in PresenceRow
           /\ Missed(d).state \in {"monitoring", "eligible"}
           /\ Missed(d).policyRevision = policy.revision
           /\ Missed(d).state = "eligible" => Missed(d).absences >= policy.required
           /\ Logged(d) \in Seq(LogEntry) /\ Len(Logged(d)) <= MaxRequired
           /\ Counts(Missed(d), Logged(d)) /\ Spans(Missed(d), Logged(d))
  <1> DEFINE first == ScopeChanged(d) \/ presence[d].absences = 0
             absences == IF first THEN 1
                         ELSE IF presence[d].absences = MaxRequired THEN MaxRequired
                         ELSE presence[d].absences + 1
             missing == IF first THEN preview.age ELSE presence[d].missing
             eligible == absences >= preview.required /\ missing - preview.age >= MinimumHours
             state == IF eligible THEN "eligible" ELSE "monitoring"
             row == Missed(d)
             entry == [revision |-> preview.connectionRevision,
                       age |-> Least(preview.age, MaxLogged),
                       outdated |-> d \in preview.imported]
             current == IF log[d] # <<>> /\ log[d][1].revision = entry.revision THEN log[d]
                        ELSE <<>>
             misses == Logged(d)
  <1>1. /\ InProgress /\ preview \in PreviewRow /\ preview.filtered = FALSE
        /\ preview.age \in Nat /\ preview.age <= MaxLag
        /\ preview.required \in Nat /\ preview.required >= 2
        /\ preview.connectionRevision \in ConnectionRevisions
        /\ preview.required = policy.required
    <2>1. InProgress /\ preview \in PreviewRow
      BY PreviewIsPreviewRow DEF IInv, InProgress
    <2>2. connection.revision \in ConnectionRevisions
      BY DEF IInv, TypeOK
    <2>3. preview.required = policy.required
      BY <2>1 DEF Accepted, IInv, RevisionsAreTerms
    <2> QED
      BY <2>1, <2>2, <2>3, Bounds DEF PreviewRow, Accepted
  <1>2. log[d] \in Seq(LogEntry) /\ Len(log[d]) <= MaxRequired
    BY DEF IInv, TypeOK
  <1>3. /\ row = Evaluated(state, absences, missing)
        /\ misses = Append(WithRoom(current), entry)
    BY <1>1 DEF Missed, Logged
  <1>4. /\ entry \in LogEntry /\ entry.age = Least(preview.age, MaxLogged)
        /\ entry.revision = preview.connectionRevision
        /\ entry.outdated = (d \in preview.imported)
    <2>1. Least(preview.age, MaxLogged) \in 0..MaxLogged
      BY <1>1, LeastIsInt, Bounds
    <2> QED
      BY <1>1, <2>1 DEF LogEntry
  \* A first missed snapshot finds no log, one of another kind the log it continues.
  <1>5. /\ first => current = <<>>
        /\ ~first => /\ presence[d] \in PresenceRow /\ presence[d] # NoPresence
                     /\ presence[d].connectionRevision = preview.connectionRevision
                     /\ presence[d].absences # 0
                     /\ presence[d].state \in {"monitoring", "eligible"}
                     /\ Counts(presence[d], log[d]) /\ Spans(presence[d], log[d])
                     /\ current = log[d]
    <2>1. CASE presence[d] = NoPresence
      <3>1. log[d] = <<>>
        BY <2>1 DEF IInv, CountsFromNothing
      <3> QED
        BY <2>1, <3>1 DEF ScopeChanged
    <2>2. CASE presence[d] # NoPresence
      <3>1. presence[d] \in PresenceRow
        BY <2>2, RowIsPresenceRow DEF IInv
      <3>2. presence[d].state \in {"observed", "not_evaluated", "monitoring", "eligible"}
        <4>1. presence[d].state \notin {"retired", "restore_ready"}
          BY DEF IInv, MappingFollowsState
        <4> QED
          BY <3>1, <4>1 DEF PresenceRow, States
      <3>3. CASE presence[d].state \in {"observed", "not_evaluated"}
        <4>1. log[d] = <<>> /\ presence[d].absences = 0
          BY <3>3 DEF IInv, CountsFromNothing
        <4> QED
          BY <4>1
      <3>4. CASE presence[d].state \in {"monitoring", "eligible"}
        <4>1. Counts(presence[d], log[d]) /\ Spans(presence[d], log[d])
          BY <3>4 DEF IInv, CountsTheLog
        <4>2. /\ presence[d].filtered = FALSE /\ presence[d].absences # 0
              /\ log[d] # <<>>
              /\ log[d][1].revision = presence[d].connectionRevision
          <5>1. Len(log[d]) > 0 /\ 1 \in 1..Len(log[d]) /\ log[d] # <<>>
            BY <1>2, <4>1 DEF Counts
          <5>2. presence[d].filtered \in BOOLEAN
            BY <3>1 DEF PresenceRow
          <5> QED
            BY <4>1, <5>1, <5>2 DEF Counts
        <4>3. first <=> presence[d].connectionRevision # preview.connectionRevision
          BY <1>1, <2>2, <4>2 DEF ScopeChanged
        <4> QED
          BY <1>4, <2>2, <3>1, <3>4, <4>1, <4>2, <4>3
      <3> QED
        BY <3>2, <3>3, <3>4
    <2> QED
      BY <2>1, <2>2
  <1>6. current = log[d] \/ current = <<>>
    OBVIOUS
  <1> HIDE DEF first, entry, current, misses
  <1>7. Continues(current, entry, misses)
    <2>1. TypeOK
      BY DEF IInv
    <2>2. d \in Devices /\ entry \in LogEntry /\ misses = Append(WithRoom(current), entry)
      BY <1>3, <1>4
    <2> QED
      BY ONLY <1>6, <2>1, <2>2, LogContinues
  <1> USE DEF Continues
  <1>8. absences = Len(misses) /\ absences \in 0..MaxRequired /\ absences > 0
    <2>1. CASE first
      <3>1. Len(current) = 0
        BY <1>5, <2>1
      <3> QED
        BY <1>7, <2>1, <3>1, Bounds
    <2>2. CASE ~first
      <3>1. presence[d].absences = Len(current) /\ Len(current) \in Nat
            /\ Len(current) <= MaxRequired
        BY <1>2, <1>5, <2>2 DEF Counts
      <3> QED
        BY <1>7, <2>2, <3>1, Bounds
    <2> QED
      BY <2>1, <2>2
  <1>9. missing \in 0..MaxMissing
    <2>1. CASE first
      BY <1>1, <2>1, Bounds
    <2>2. CASE ~first
      BY <1>5, <2>2 DEF PresenceRow
    <2> QED
      BY <2>1, <2>2
  <1>10. state \in States /\ state \in {"monitoring", "eligible"}
         /\ (state = "eligible" <=> eligible)
    BY DEF States
  <1> HIDE DEF absences, missing, eligible, state, row
  <1>11. /\ row \in PresenceRow /\ row # NoPresence
         /\ row.state = state /\ row.absences = absences /\ row.missing = missing
         /\ row.age = Least(preview.age, MaxAge + 1)
         /\ row.policyRevision = policy.revision
         /\ row.connectionRevision = preview.connectionRevision
         /\ row.filtered = FALSE
    BY <1>1, <1>3, <1>8, <1>9, <1>10, EvaluatedIsPresenceRow DEF IInv
  <1>12. Counts(row, misses)
    <2>1. CASE first
      <3>1. Len(misses) = 1
        BY <1>8, <2>1 DEF absences
      <3> QED
        BY <1>4, <1>7, <1>8, <1>11, <3>1 DEF Counts
    <2>2. CASE ~first
      <3> DEFINE n == Len(misses)
      <3>1. /\ current = log[d] /\ current # <<>> /\ Len(current) \in Nat
            /\ \A i \in 1..Len(current) :
                  /\ current[i].revision = preview.connectionRevision
                  /\ current[i].outdated => i = 1
        BY <1>2, <1>5, <2>2 DEF Counts
      <3>2. ~entry.outdated
        BY <1>1, <1>4, <3>1 DEF IInv, ImportsAreNews
      <3>3. n \in Nat /\ n >= 2 /\ (n = Len(current) \/ n = Len(current) + 1)
        <4>1. Len(current) > 0
          BY <1>2, <3>1
        <4> QED
          BY <1>7, <3>1, <4>1, Bounds
      <3> HIDE DEF n
      <3>4. ASSUME NEW i \in 1..n
            PROVE  /\ misses[i].revision = row.connectionRevision
                   /\ misses[i].outdated => i = 1
        <4>1. CASE i = n
          BY <1>4, <1>7, <1>11, <3>2, <4>1 DEF n
        <4>2. CASE i = 1
          <5>1. misses[1] = current[1] /\ 1 \in 1..Len(current)
            BY <1>7, <3>1, <3>3
          <5> QED
            BY <1>11, <3>1, <4>2, <5>1
        <4>3. CASE i # 1 /\ i # n
          <5>1. i \in 2..(n - 1)
            BY <3>3, <4>3
          <5>2. PICK j \in 2..Len(current) : misses[i] = current[j]
            <6>1. i \in 2..Len(current)
              BY <3>1, <3>3, <5>1
            <6>2. \/ misses[i] = current[i]
                  \/ i + 1 <= Len(current) /\ misses[i] = current[i + 1]
              BY <1>7, <5>1 DEF n
            <6>3. i + 1 <= Len(current) => i + 1 \in 2..Len(current)
              BY <3>1, <6>1
            <6> QED
              BY <6>1, <6>2, <6>3
          <5>3. j \in 1..Len(current) /\ j # 1
            BY <3>1
          <5> QED
            BY <1>11, <3>1, <5>2, <5>3
        <4> QED
          BY <4>1, <4>2, <4>3
      <3>5. ~row.filtered /\ row.absences = n /\ n > 0
        BY <1>8, <1>11 DEF n
      <3> QED
        BY <3>4, <3>5 DEF n, Counts
    <2> QED
      BY <2>1, <2>2
  <1>13. Spans(row, misses)
    <2> DEFINE bound == Least(MaxMissing, MaxLogged)
    <2>1. OneAge(row.missing, misses[1].age, bound) /\ misses[1].age \in Nat
          /\ row.missing \in Nat
      <3>1. CASE first
        <4>1. misses[1] = entry /\ missing = preview.age
          BY <1>7, <1>8, <3>1 DEF absences, missing
        <4>2. MaxMissing \in Nat /\ MaxLogged \in Nat
          BY Bounds
        <4> QED
          BY <1>1, <1>4, <1>11, <4>1, <4>2 DEF OneAge, Least
      <3>2. CASE ~first
        <4>1. /\ OneAge(presence[d].missing, log[d][1].age, bound)
              /\ missing = presence[d].missing /\ current = log[d] /\ log[d] # <<>>
          BY <1>2, <1>5, <3>2 DEF Counts, Spans, missing
        <4>2. misses[1] = log[d][1] /\ log[d][1] \in LogEntry
          BY <1>2, <1>7, <4>1
        <4> QED
          BY <1>9, <1>11, <4>1, <4>2, Bounds DEF LogEntry
      <3> QED
        BY <3>1, <3>2
    <2>2. row.age <= MaxAge => misses[Len(misses)].age = row.age
      <3>1. MaxAge \in Nat /\ MaxLogged \in Nat /\ MaxLogged > MaxAge
        BY Bounds
      <3> QED
        BY <1>1, <1>4, <1>7, <1>11, <3>1 DEF Least
    <2>3. row.state = "eligible" /\ misses[Len(misses)].age <= MaxAge =>
             misses[1].age - misses[Len(misses)].age >= MinimumHours
      <3> SUFFICES ASSUME row.state = "eligible", misses[Len(misses)].age <= MaxAge
                   PROVE  misses[1].age - misses[Len(misses)].age >= MinimumHours
        OBVIOUS
      <3>1. row.missing - preview.age >= MinimumHours
        BY <1>10, <1>11 DEF eligible
      <3>2. misses[Len(misses)].age = preview.age /\ preview.age <= MaxAge
        <4>1. MaxAge \in Nat /\ MaxLogged \in Nat /\ MaxLogged > MaxAge
          BY Bounds
        <4> QED
          BY <1>1, <1>4, <1>7, <4>1 DEF Least
      <3> QED
        BY <1>1, <2>1, <3>1, <3>2, ApartInLog
    <2> QED
      BY <2>1, <2>2, <2>3 DEF Spans
  <1>14. row.state = "eligible" => row.absences >= policy.required
    BY <1>1, <1>10, <1>11 DEF eligible
  <1>15. Len(misses) <= MaxRequired
    BY <1>8, Bounds
  <1> QED
    BY <1>7, <1>10, <1>11, <1>12, <1>13, <1>14, <1>15 DEF row, misses

LEMMA LoggedIsLog ==
    ASSUME IInv, InProgress, Accepted, NEW d \in Devices
    PROVE  Logged(d) \in Seq(LogEntry) /\ Len(Logged(d)) <= MaxRequired
  <1> DEFINE entry == [revision |-> preview.connectionRevision,
                       age |-> Least(preview.age, MaxLogged),
                       outdated |-> d \in preview.imported]
             current == IF log[d] # <<>> /\ log[d][1].revision = entry.revision THEN log[d]
                        ELSE <<>>
             misses == Append(WithRoom(current), entry)
  <1>1. TypeOK
    BY DEF IInv
  <1>2. entry \in LogEntry
    <2>1. preview.connectionRevision \in ConnectionRevisions
      BY <1>1 DEF Accepted, TypeOK
    <2>2. Least(preview.age, MaxLogged) \in 0..MaxLogged
      <3>1. preview.age \in Nat /\ MaxLogged \in Nat
        BY <1>1, PreviewIsPreviewRow, Bounds DEF PreviewRow
      <3> QED
        BY <3>1, LeastIsInt
    <2> QED
      BY <2>1, <2>2 DEF LogEntry
  <1>3. log[d] \in Seq(LogEntry) /\ Len(log[d]) \in Nat /\ Len(log[d]) <= MaxRequired
    BY <1>1 DEF TypeOK
  <1>4. current = log[d] \/ current = <<>>
    OBVIOUS
  <1>5. \/ Logged(d) = <<>>
        \/ Logged(d) = log[d]
        \/ Logged(d) = misses
    BY DEF Logged
  <1> HIDE DEF entry, current
  <1>6. Continues(current, entry, misses)
    BY <1>1, <1>2, <1>4, LogContinues
  <1> HIDE DEF misses
  <1>7. misses \in Seq(LogEntry) /\ Len(misses) <= MaxRequired
    <2>1. Len(current) \in Nat /\ Len(current) <= MaxRequired
      <3>1. CASE current = <<>>
        BY <3>1, Bounds
      <3>2. CASE current = log[d]
        BY <1>3, <3>2
      <3> QED
        BY <1>4, <3>1, <3>2
    <2> QED
      BY <1>6, <2>1, Bounds DEF Continues
  <1>8. CASE Logged(d) = <<>>
    BY <1>8, EmptySeq, Bounds
  <1> QED
    BY <1>3, <1>5, <1>7, <1>8

\* What the invariant says of a device, of its row and its log and of whether the
\* last accepted snapshot reported it.
Consistent(d, row, misses, seen) ==
    /\ row \in PresenceRow \cup {NoPresence}
    /\ mapping[d] = "none" => row = NoPresence
    /\ mapping[d] = "inactive" <=> row.state \in {"retired", "restore_ready"}
    /\ row # NoPresence =>
          /\ row.policyRevision <= policy.revision
          /\ row.state = "eligible" /\ row.policyRevision = policy.revision =>
                row.absences >= policy.required
    /\ row = NoPresence \/ row.state \in {"observed", "not_evaluated"} => misses = <<>>
    /\ row.state \in {"observed", "not_evaluated"} => row.absences = 0
    /\ row.state = "restore_ready" => misses = <<>> /\ seen
    /\ row.state \in {"monitoring", "eligible"} =>
          Counts(row, misses) /\ Spans(row, misses) /\ ~seen

LEMMA PublishedIsConsistent ==
    ASSUME IInv, preview.phase = "read", Accepted, NEW d \in Devices
    PROVE  Consistent(d, Marked(d), Logged(d), d \in preview.seen)
  <1> DEFINE row == Marked(d)
             misses == Logged(d)
             seen == d \in preview.seen
             fresh == d \in preview.fresh
  <1>1. TypeOK /\ InProgress /\ policy.revision \in Nat
        /\ mapping[d] \in {"none", "active", "inactive"}
        /\ preview.filtered \in BOOLEAN
    <2>1. TypeOK /\ InProgress
      BY DEF IInv, InProgress
    <2> QED
      BY <2>1, PreviewIsPreviewRow, Bounds DEF TypeOK, PreviewRow
  <1>2. /\ mapping[d] = "none" => presence[d] = NoPresence
        /\ mapping[d] = "inactive" <=> presence[d].state \in {"retired", "restore_ready"}
    BY DEF IInv, MappingFollowsState
  <1>3. \A state \in {"observed", "restore_ready", "not_evaluated", "retired"} :
           LET evaluated == Evaluated(state, 0, 0)
           IN  /\ evaluated \in PresenceRow /\ evaluated # NoPresence
               /\ evaluated.state = state /\ evaluated.absences = 0
               /\ evaluated.policyRevision = policy.revision
    <2> TAKE state \in {"observed", "restore_ready", "not_evaluated", "retired"}
    <2>1. state \in States /\ 0 \in 0..MaxRequired /\ 0 \in 0..MaxMissing
      BY Bounds DEF States
    <2> QED
      BY <1>1, <2>1, EvaluatedIsPresenceRow
  <1>4. CASE mapping[d] = "none"
    <2>1. row = NoPresence /\ misses = <<>>
      BY <1>2, <1>4 DEF Marked, Logged
    <2> QED
      BY <1>4, <2>1, NoPresenceHasNoState DEF Consistent
  <1>5. CASE mapping[d] = "active" /\ seen
    <2>1. row = Evaluated("observed", 0, 0) /\ misses = <<>>
      BY <1>5 DEF Marked, Logged
    <2> HIDE DEF row, misses
    <2> QED
      BY <1>1, <1>3, <1>5, <2>1 DEF Consistent, row, misses
  <1>6. CASE mapping[d] = "inactive" /\ seen
    <2>1. row = Evaluated("restore_ready", 0, 0) /\ misses = <<>>
      BY <1>6 DEF Marked, Logged
    <2> QED
      BY <1>1, <1>3, <1>6, <2>1 DEF Consistent
  <1>7. CASE mapping[d] # "none" /\ ~seen /\ fresh
    <2>1. presence[d] = NoPresence
      BY <1>1, <1>7 DEF IInv, ImportsAreNews
    <2>2. mapping[d] = "active" /\ log[d] = <<>>
      BY <1>1, <1>2, <1>7, <2>1, NoPresenceHasNoState DEF IInv, CountsFromNothing
    <2>3. row = NoPresence /\ misses = <<>>
      BY <1>7, <2>1, <2>2 DEF Marked, Logged
    <2> QED
      BY <2>2, <2>3, NoPresenceHasNoState DEF Consistent
  <1>8. CASE mapping[d] = "active" /\ ~seen /\ ~fresh /\ preview.filtered
    <2>1. row = Evaluated("not_evaluated", 0, 0) /\ misses = <<>>
      BY <1>8 DEF Marked, Logged
    <2> QED
      BY <1>1, <1>3, <1>8, <2>1 DEF Consistent
  <1>9. CASE mapping[d] = "active" /\ ~seen /\ ~fresh /\ ~preview.filtered
    <2>1. row = Missed(d)
      BY <1>9 DEF Marked
    <2>2. /\ row \in PresenceRow
          /\ row.state \in {"monitoring", "eligible"}
          /\ row.policyRevision = policy.revision
          /\ row.state = "eligible" => row.absences >= policy.required
          /\ Counts(row, misses) /\ Spans(row, misses)
      BY <1>9, <2>1, MissedCounts
    <2>3. row # NoPresence
      BY <2>2, NoPresenceHasNoState
    <2> HIDE DEF row, misses
    <2> QED
      BY <1>1, <1>9, <2>2, <2>3 DEF Consistent, row, misses
  <1>10. CASE mapping[d] = "inactive" /\ ~seen /\ ~fresh
    <2>1. CASE presence[d].state = "restore_ready"
      <3>1. row = Evaluated("retired", 0, 0)
        BY <1>10, <2>1 DEF Marked
      <3> HIDE DEF row, misses
      <3> QED
        BY <1>1, <1>3, <1>10, <3>1 DEF Consistent, row, misses
    <2>2. CASE presence[d].state = "retired"
      <3>1. row = presence[d] /\ row # NoPresence
        BY <1>10, <2>2, NoPresenceHasNoState DEF Marked
      <3>2. row \in PresenceRow /\ row.policyRevision <= policy.revision
        BY <1>1, <3>1, RowIsPresenceRow DEF IInv, RevisionsAreTerms
      <3> HIDE DEF row, misses
      <3> QED
        BY <1>10, <2>2, <3>1, <3>2 DEF Consistent, row, misses
    <2> QED
      BY <1>2, <1>10, <2>1, <2>2
  <1> QED
    BY <1>1, <1>4, <1>5, <1>6, <1>7, <1>8, <1>9, <1>10

LEMMA PublishPreviewInv == IInv /\ PublishPreview => IInv'
  <1> SUFFICES ASSUME IInv, PublishPreview PROVE IInv'
    OBVIOUS
  <1>1. /\ UNCHANGED <<policy, connection, mapped, reported, mapping, import>>
        /\ preview' = NoPreview /\ preview.phase = "read"
    BY DEF PublishPreview, scopeVars
  <1>2. ~InProgress'
    BY <1>1, NoPreviewIsIdle DEF InProgress
  <1>3. ImportsAreNews'
    BY <1>2 DEF ImportsAreNews
  <1>4. CASE ~Accepted
    <2>1. presence' = presence /\ log' = log /\ sighted' = sighted
      BY <1>4 DEF PublishPreview, historyVars
    <2>2. TypeOK'
      BY <1>1, <2>1 DEF IInv, TypeOK
    <2>3. RevisionsAreTerms'
      BY <1>1, <1>2, <2>1 DEF IInv, RevisionsAreTerms
    <2>4. UNCHANGED <<mapping, presence, historyVars>>
      BY <1>1, <2>1 DEF historyVars
    <2> QED
      BY <1>3, <2>2, <2>3, <2>4, RowsStay DEF IInv
  <1>5. CASE Accepted
    <2>1. /\ presence' = [d \in Devices |-> Marked(d)]
          /\ log' = [d \in Devices |-> Logged(d)]
          /\ sighted' = preview.seen
      BY <1>5 DEF PublishPreview
    <2>2. InProgress
      BY <1>1 DEF InProgress
    <2>3. \A d \in Devices :
             /\ Consistent(d, presence'[d], log'[d], d \in sighted')
             /\ log'[d] \in Seq(LogEntry) /\ Len(log'[d]) <= MaxRequired
      BY <1>1, <1>5, <2>1, <2>2, PublishedIsConsistent, LoggedIsLog
    <2>4. TypeOK'
      <3>1. presence' \in [Devices -> PresenceRow \cup {NoPresence}]
            /\ log' \in [Devices -> Seq(LogEntry)]
        <4>1. \A d \in Devices : presence'[d] \in PresenceRow \cup {NoPresence}
          BY <2>3 DEF Consistent
        <4> QED
          BY <2>1, <2>3, <4>1
      <3>2. sighted' \in SUBSET Devices
        BY <2>1, <2>2, PreviewIsPreviewRow DEF IInv, PreviewRow
      <3> QED
        BY <1>1, <2>3, <3>1, <3>2 DEF IInv, TypeOK
    <2>5. MappingFollowsState'
      BY <1>1, <2>3 DEF Consistent, MappingFollowsState
    <2>6. RevisionsAreTerms'
      BY <1>1, <1>2, <2>3 DEF Consistent, RevisionsAreTerms
    <2>7. CountsFromNothing'
      BY <2>3 DEF Consistent, CountsFromNothing
    <2>8. CountsTheLog'
      BY <2>3 DEF Consistent, CountsTheLog
    <2> QED
      BY <1>3, <2>4, <2>5, <2>6, <2>7, <2>8 DEF IInv
  <1> QED
    BY <1>4, <1>5

LEMMA NextInv == IInv /\ [Next]_vars => IInv'
  <1> SUFFICES ASSUME IInv, [Next]_vars PROVE IInv'
    OBVIOUS
  <1>1. CASE PreviewNext
    BY <1>1, StartPreviewInv, LabelPreviewInv, ReadProviderInv, PublishPreviewInv,
       AbandonPreviewInv DEF PreviewNext
  <1>2. CASE DeviceNext
    BY <1>2, OutsideInv, ImportApplyInv, DecisionInv DEF DeviceNext
  <1>3. CASE ScopeNext
    BY <1>3, SavePolicyInv, ChangeConnectionInv, MapCustomerInv DEF ScopeNext
  <1>4. CASE Tick
    BY <1>4, TickInv
  <1>5. CASE UNCHANGED vars
    <2> USE <1>5 DEF vars, scopeVars
    <2>1. UNCHANGED <<mapping, presence, historyVars>>
      OBVIOUS
    <2>2. TypeOK'
      BY DEF IInv, TypeOK, historyVars
    <2>3. RevisionsAreTerms' /\ ImportsAreNews'
      BY DEF IInv, RevisionsAreTerms, ImportsAreNews, InProgress, historyVars
    <2> QED
      BY <2>1, <2>2, <2>3, RowsStay DEF IInv
  <1> QED
    BY <1>1, <1>2, <1>3, <1>4, <1>5 DEF Next

\* Between any two transactions presence rows, mappings, the preview under way and
\* what snapshots have reported agree (_apply_postgres_ci_presence_snapshot,
\* _observe_postgres_ci_presence, retire_ci_mapping and restore_ci_mapping write
\* them in transactions of their own).
THEOREM Invariant == Spec => []IInv
  <1>1. Init => IInv
    BY InitInv
  <1>2. IInv /\ [Next]_vars => IInv'
    BY NextInv
  <1> QED
    BY <1>1, <1>2, PTL DEF Spec

----------------------------------------------------------------------------
(* Decisions *)

\* No step but a retirement makes a mapping inactive.
LEMMA OnlyRetireRetires ==
    ASSUME IInv, [Next]_vars, NEW d \in Devices,
           mapping[d] = "active", mapping'[d] = "inactive"
    PROVE  Retire(d)
  <1>1. mapping \in [Devices -> {"none", "active", "inactive"}]
    BY DEF IInv, TypeOK
  <1>2. ~UNCHANGED mapping
    OBVIOUS
  <1>3. PICK e \in Devices : ImportApply(e) \/ Retire(e) \/ Restore(e)
    BY <1>2
    DEF Next, PreviewNext, DeviceNext, ScopeNext, StartPreview, LabelPreview, ReadProvider,
        PublishPreview, AbandonPreview, ImportRead, ImportAbandoned, ProviderChanges,
        SavePolicy, ChangeConnection, MapCustomer, Tick, vars
  <1>4. CASE ImportApply(e) \/ Restore(e)
    BY <1>1, <1>4 DEF ImportApply, Restore
  <1>5. CASE Retire(e)
    <2>1. e = d
      BY <1>1, <1>5 DEF Retire
    <2> QED
      BY <1>5, <2>1
  <1> QED
    BY <1>3, <1>4, <1>5

\* No step but a restore makes it active again.
LEMMA OnlyRestoreRestores ==
    ASSUME IInv, [Next]_vars, NEW d \in Devices,
           mapping[d] = "inactive", mapping'[d] = "active"
    PROVE  Restore(d)
  <1>1. mapping \in [Devices -> {"none", "active", "inactive"}]
    BY DEF IInv, TypeOK
  <1>2. ~UNCHANGED mapping
    OBVIOUS
  <1>3. PICK e \in Devices : ImportApply(e) \/ Retire(e) \/ Restore(e)
    BY <1>2
    DEF Next, PreviewNext, DeviceNext, ScopeNext, StartPreview, LabelPreview, ReadProvider,
        PublishPreview, AbandonPreview, ImportRead, ImportAbandoned, ProviderChanges,
        SavePolicy, ChangeConnection, MapCustomer, Tick, vars
  <1>4. CASE ImportApply(e) \/ Retire(e)
    BY <1>1, <1>4 DEF ImportApply, Importable, Retire
  <1>5. CASE Restore(e)
    <2>1. e = d
      BY <1>1, <1>5 DEF Restore
    <2> QED
      BY <1>5, <2>1
  <1> QED
    BY <1>3, <1>4, <1>5

LEMMA RetireIsJustified ==
    ASSUME IInv, NEW d \in Devices, Retire(d)
    PROVE  LET misses == log[d]
               n == Len(misses)
           IN  /\ n >= policy.required
               /\ \A i \in 1..n : misses[i].revision = connection.revision
               /\ misses[1].age - misses[n].age >= MinimumHours
               /\ misses[n].age <= MaxAge
               /\ \A i, j \in 1..n : misses[i].outdated /\ misses[j].outdated => i = j
               /\ d \notin sighted
  <1> DEFINE row == presence[d]
             misses == log[d]
             n == Len(misses)
  <1>1. row.state = "eligible" /\ row # NoPresence
    BY NoPresenceHasNoState DEF Retire
  <1>2. /\ row.age <= MaxAge /\ row.policyRevision = policy.revision
        /\ row.connectionRevision = connection.revision
    BY DEF Retire, Fresh
  <1>3. row.absences >= policy.required
    BY <1>1, <1>2 DEF IInv, RevisionsAreTerms
  <1>4. Counts(row, misses) /\ Spans(row, misses) /\ d \notin sighted
    BY <1>1 DEF IInv, CountsTheLog
  <1> HIDE DEF row, misses
  <1>5. misses[n].age = row.age
    BY <1>2, <1>4 DEF Spans
  <1>6. misses[1].age - misses[n].age >= MinimumHours /\ misses[n].age <= MaxAge
    BY <1>1, <1>2, <1>4, <1>5 DEF Spans
  <1>7. /\ n = row.absences
        /\ \A i \in 1..n : /\ misses[i].revision = connection.revision
                           /\ misses[i].outdated => i = 1
    BY <1>2, <1>4 DEF Counts
  <1> QED
    BY <1>3, <1>4, <1>6, <1>7 DEF misses

\* A mapping is retired on the snapshots the policy asks for, and active again only
\* by a restore, for any number of devices, of snapshots and of hours
\* (retire_ci_mapping, restore_ci_mapping).
THEOREM Governed == Spec => GovernedChanges
  <1>1. IInv /\ [Next]_vars =>
           [\A d \in Devices : mapping[d] = "active" /\ mapping'[d] = "inactive" =>
               LET misses == log[d]
                   n == Len(misses)
               IN  /\ n >= policy.required
                   /\ \A i \in 1..n : misses[i].revision = connection.revision
                   /\ misses[1].age - misses[n].age >= MinimumHours
                   /\ misses[n].age <= MaxAge
                   /\ \A i, j \in 1..n : misses[i].outdated /\ misses[j].outdated => i = j
                   /\ d \notin sighted]_vars
    BY OnlyRetireRetires, RetireIsJustified
  <1>2. IInv /\ [Next]_vars =>
           [\A d \in Devices : mapping[d] = "inactive" /\ mapping'[d] = "active" =>
               d \in sighted /\ presence[d].state = "restore_ready" /\ import' = import]_vars
    <2> SUFFICES ASSUME IInv, [Next]_vars, NEW d \in Devices,
                        mapping[d] = "inactive", mapping'[d] = "active"
                 PROVE  /\ d \in sighted /\ presence[d].state = "restore_ready"
                        /\ import' = import
      OBVIOUS
    <2>1. Restore(d)
      BY OnlyRestoreRestores
    <2> QED
      BY <2>1 DEF Restore, IInv, CountsFromNothing
  <1> QED
    BY <1>1, <1>2, Invariant, PTL
    DEF Spec, GovernedChanges, RetirementIsJustified, OnlyRestoreReactivates
============================================================================
