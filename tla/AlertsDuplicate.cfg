CONSTANTS
    ReplicaConfigured = FALSE
    Servers = {}
    Endpoints = {"e1"}
    Rounds = {1, 2}
    Operators = {}
    Conditions <- OverlapConditions
    WarningAt = 80
    CriticalAt = 90
    ChatConfigured = TRUE
    MaxRows <- OverlapRows
    MaxLists = 0
    MaxFaults = 0

SPECIFICATION Spec

INVARIANT
    NoDuplicateAlert
