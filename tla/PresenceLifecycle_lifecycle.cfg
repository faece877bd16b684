SPECIFICATION FairSpec
CONSTANTS
    Devices = {d1}
    MaxRequired = 2
    MinimumHours = 1
    MaxAge = 1
    MaxLag = 1
    MaxPolicyRevision = 2
    MaxConnectionRevision = 2
INVARIANT IInv
PROPERTIES GovernedChanges OffersFollow
