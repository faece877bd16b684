SPECIFICATION Spec
ACTION_CONSTRAINT OneKind
CONSTANTS
    Events = {c1, c2}
    Notices = {n1}
    Workers = {w1}
    Admins = {a1}
    Operations = {"notice", "requeue", "retry", "save"}
    Situations = {"skip", "ready"}
    MaxAttempts = 1
    Window = 1
    StaleAfter = 1
    MaxSettings = 2
INVARIANTS TypeOK NoticedEvidenceIsTrue
