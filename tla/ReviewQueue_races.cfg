SPECIFICATION Spec
CONSTANTS
    Ids = {x1}
    Admins = {a1, a2}
    Outcomes = {"create", "link"}
    MaxVersion = 1
    MaxPolicyRevision = 2
    MaxConnectionRevision = 2
SYMMETRY Symmetry
INVARIANTS NoDuplicateCreate
PROPERTIES ImportsRespectExclusions
