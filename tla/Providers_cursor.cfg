CONSTANTS
    Inventory <- MCInventory
    Organizations = {"o1", "o2"}
    Servers = {"s1", "s2"}
    Tasks = {"p1", "p2"}
    Legacy <- MCLegacy
    RestDevices = {"d1"}
    MaxAssets = 3
    ListLimit = 5
    MaxGeneration = 3
    MaxSaves = 2
    Kinds = {"ncentral", "connectwise"}
    Users = {"u1", "u2"}
    Testers = {"t1"}
    Situations <- MCSituations
    MaxRevision = 4
    Companies = {"c1", "c2"}
    Customers = {"m1", "m2"}
    Workers = {"w1", "w2", "w3"}
    Replicas = {"r1", "r2"}
    Home <- MCHome
    MaxRuns = 2
    MaxEdits = 3
    Orgs = {"o1", "o2"}
    Estates <- MCEstates
    Limit <- MCLimit
    MaxListed = 3
    MaxPreviews = 4
    Devices = 3
    Readers = {1, 2}
    Attempts = 2
    MaxRejected = 1
SPECIFICATION MCSpec
PROPERTY CursorAdvances
CHECK_DEADLOCK FALSE
