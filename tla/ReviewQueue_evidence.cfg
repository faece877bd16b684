SPECIFICATION FairSpec
CONSTANTS
    Ids = {x1}
    Admins = {a1}
    Outcomes = {"create", "conflict"}
    MaxVersion = 2
    MaxPolicyRevision = 3
    MaxConnectionRevision = 1
INVARIANT IInv
PROPERTIES DismissalsStand NothingIsLost
