CONSTANTS
    Requests = {q1, q2}
    Users = {u1, u2}
    Identifiers = {i1, i2}
    Requesters = {s1, s2}
    Counters = {1, 2}
    IdLimit = 1
    SourceLimit = 2
    Window = 2
    PendingTtl = 1
    AuditWindow = 1
    MaxRows = 3
    MaxTime = 2
    MaxAttempts = 1
    KeptChallenges = 0
    LinkLimit = 2
    MaxPasswords = 2
    MaxEnrollments = 2
    MaxCodes = 2
    MaxChallenges = 2
    MaxSessions = 2
    MaxLinks = 2
    MaxTokens = 1
SPECIFICATION MCSpec
INVARIANTS TypeOK ThrottleIsExact ProofsAreSpentOnce AccessEnds
PROPERTY AdminsAreLostOnlyByOverlap
SYMMETRY Symmetry
CHECK_DEADLOCK FALSE
