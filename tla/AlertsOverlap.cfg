CONSTANTS
    ReplicaConfigured = FALSE
    Servers = {}
    Endpoints = {"e1"}
    Rounds = {1, 2}
    Operators = {"u1"}
    Conditions <- OverlapConditions
    WarningAt = 80
    CriticalAt = 90
    ChatConfigured = TRUE
    MaxRows <- OverlapRows
    MaxLists = 1
    MaxFaults = 1

SPECIFICATION Spec

INVARIANTS
    TypeOK
    OverlapBoundsDuplicates
    SilencedOnlyByFaults

PROPERTIES
    ButtonOutlivesActiveAlert
    ImplementsLedger
