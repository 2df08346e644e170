CONSTANTS
    ReplicaConfigured = TRUE
    Deliveries = {d1, d2}
    Reports <- FewReports
    Presses = {p1, p2}
    Admins = {a1, a2}
    Nobody = Nobody
    p1 = p1
    p2 = p2
    a1 = a1
    a2 = a2
    d1 = d1
    d2 = d2
    MaxFaults = 1

SPECIFICATION Spec

SYMMETRY Interchangeable

CHECK_DEADLOCK FALSE

INVARIANTS
    TypeOK
    RowTellsADecision
    RowKnowsItsPost
    SignedPostShowsADecision
    ButtonsLeftOnlyByRace

PROPERTY
    ImplementsBoard
