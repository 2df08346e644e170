CONSTANTS
    ReplicaConfigured = TRUE
    n1 = n1
    n2 = n2
    h1 = h1
    h2 = h2
    Names = {n1, n2}
    Hosts = {h1, h2}
    NoHost = NoHost
    All = All
    NoTarget = NoTarget
    Checks = {"status", "top", "versions", "updates", "backups", "list", "timers", "host", "image",
              "docker", "logs", "ping"}
    InitialConfig <- OneConfigured
    InitialTable <- OneInTable
    Requests = {r1}
    CommandTimeout = 3
    OwnTimeout <- ExampleTimeouts
    Durations = {1, 20}
    TextLength = 8
    p1 = "p1"
    p2 = "p2"
    BackupPaths <- SomePaths
    MaxAges = {0, 1}
    Ages = {0, 1, 2}
    Counters = {0, 1, 2, 3}
    MaxEdits = 2
    MaxFaults = 1

SPECIFICATION Spec

CHECK_DEADLOCK FALSE

INVARIANTS
    TypeOK
    AnswersAboutAsked
    AskedAreAnswered
    TimeoutIsNotNothing
    ReportedAsRead
