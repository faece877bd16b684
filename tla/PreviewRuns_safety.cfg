SPECIFICATION Spec
CONSTANTS
    Policies = {p1}
    Owners = {o1, o2}
    None = None
    Triggers = {"scheduled"}
    MaxRuns = 2
    MaxAttempts = 2
    MaxFailures = 0
    RunLease = 1
    DirectLease = 1
    QueuedLease = 1
INVARIANTS IInv OneActiveRun
PROPERTIES OutcomesAreTrue PublicationIsFenced
SYMMETRY OwnerSymmetry
