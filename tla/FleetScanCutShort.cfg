CONSTANTS
    ReplicaConfigured = FALSE
    n1 = n1
    n2 = n2
    h1 = h1
    h2 = h2
    Names = {n1, n2}
    Hosts = {h1, h2}
    NoHost = NoHost
    All = All
    NoTarget = NoTarget
    Checks = {"host", "image"}
    InitialConfig <- OneConfigured
    InitialTable <- OneInTable
    Requests = {r1}
    CommandTimeout = 3
    OwnTimeout <- ExampleTimeouts
    Durations = {1, 20}
    TextLength = 8
    p1 = "p1"
    p2 = "p2"
    BackupPaths <- SomePaths
    MaxAges = {0, 1}
    Ages = {0, 1, 2}
    Counters = {0, 1, 2, 3}
    MaxEdits = 0
    MaxFaults = 0

SPECIFICATION Spec

CHECK_DEADLOCK FALSE

INVARIANT
    NothingMeansChecked
