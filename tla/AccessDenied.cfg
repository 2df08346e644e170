CONSTANTS
    ReplicaConfigured = FALSE
    Members = {"admin", "m1"}
    InitialAdmin = "admin"
    Nobody = Nobody
    Requests = {"r1"}
    Inputs <- CommandsAndScan
    MaxEdits = 1
    MaxFaults = 0

SPECIFICATION Spec

CHECK_DEADLOCK FALSE

INVARIANT
    UnentitledAreDenied
