CONSTANTS
    ReplicaConfigured = TRUE
    Servers = {"s1"}
    Endpoints = {}
    Rounds = {1}
    Operators = {}
    Conditions <- LiveConditions
    WarningAt = 80
    CriticalAt = 90
    ChatConfigured = TRUE
    MaxRows <- LiveRows
    MaxLists = 0
    MaxFaults = 1

SPECIFICATION FairSpec

PROPERTIES
    PersistentFaultIsRaised
    CriticalHiddenOnlyByWarning
