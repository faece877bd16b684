CONSTANTS
    a = a
    b = b
    c = c
    CIs = {a, b, c}
    Edges <- MCEdges
    Symmetric = {"connected_to"}
    Suggested <- Provided
    Automatic <- MCAutomatic
    Prints = {1, 2}
    AutoGenerations = {1}
    Requests = {q1, q2}
    Passes = {p1, p2}
    MinObservations = 2
    MaxTime = 2
    MaxGeneration = 2
    MaxRevision = 3
    Editors = {e1, e2}
    Seeders = {s1, s2}
    Nobody = Nobody
    MaxVersion = 3
    Items <- MCItems
    Kind <- MCKind
    Estates <- MCEstates
    Sections <- MCSections
    Holders = {"c1", "c2"}
    Workers = {"w1", "w2"}
    Retention = 2
    MaxClock = 3
    MaxReports = 2
    MaxChanges = 2
SPECIFICATION MCSpec
INVARIANTS TypeOK SoundButForStaleChecks ImpactIsSeen InventoryIsNewest
PROPERTIES ApprovedAsRead NewestEvidenceStands AutomationFollowsPolicy TermsStay
SYMMETRY Symmetry
CHECK_DEADLOCK FALSE
