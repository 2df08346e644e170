CONSTANTS
    ReplicaConfigured = TRUE
    Members = {"admin", "m1"}
    InitialAdmin = "admin"
    Nobody = Nobody
    Requests = {"r1"}
    Inputs <- SomeInputs
    MaxEdits = 2
    MaxFaults = 1
    RunRequests = {"g1", "g2", "g3"}
    MaxRunFaults = 2

SPECIFICATION BotSpec

CHECK_DEADLOCK FALSE

INVARIANTS
    TypeOK
    CommandsOnlyIfEntitled
    CommandsAreAudited
    RunsTypeOK
    RowsAndReportsAreTrue

PROPERTY
    ServiceComesUp
    StartedRunEnds
