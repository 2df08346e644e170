CONSTANTS
    h1 = h1
    h2 = h2
    g1 = g1
    g2 = g2
    Hosts = {h1, h2}
    Runs = {g1, g2}
    Conns = {c1, c2, c3}
    None = None
    MaxIdle = 1
    Worker <- OneEach
    Calls = 2
    c1 = c1
    c2 = c2
    c3 = c3

SPECIFICATION DashboardSpec

INVARIANTS
    TypeOK
    OneHolder
    ClosedIffUnowned
    RightHost
    OpenBounded

PROPERTIES
    RunEnds
    HealthIsAnswered
