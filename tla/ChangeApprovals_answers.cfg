SPECIFICATION Spec
CONSTANTS
    Approvers = {a1, a2}
    Technicians = {t1}
    Visitors = {v1, v2}
    Batches = {b1, b2}
    Targets = {"impact_review", "awaiting_approval", "approved"}
    MaxPlan = 1
INVARIANT IInv
PROPERTY SignOffStands
SYMMETRY Symmetry
