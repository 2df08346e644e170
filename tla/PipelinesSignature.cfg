CONSTANTS
    ReplicaConfigured = FALSE
    Deliveries = {d1}
    Reports <- AllReports
    Presses = {p1, p2}
    Admins = {a1, a2}
    Nobody = Nobody
    p1 = p1
    p2 = p2
    a1 = a1
    a2 = a2
    d1 = d1
    MaxFaults = 0

SPECIFICATION Spec

CHECK_DEADLOCK FALSE

INVARIANT
    PostNamesWhoDecided
