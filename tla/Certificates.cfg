CONSTANTS
    ReplicaConfigured = TRUE
    ChatConfigured = TRUE
    Domains <- TwoDomains
    WarnDays <- ExampleWarnDays
    Day = 2
    Interval = 2
    Requests = {"q1"}
    FirstExpiries <- SoonAndLater
    Lifetime = 18
    MaxNow = 7
    MaxEvents = 2

SPECIFICATION Spec

CHECK_DEADLOCK FALSE

INVARIANTS
    TypeOK
    WarnedInTime
    WarnedTwiceAtMost
    RowsAreFresh
