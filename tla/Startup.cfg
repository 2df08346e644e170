CONSTANTS
    ReplicaConfigured = TRUE
    Instances = {i1, i2}
    Migrations = 3
    Idempotent = {3}
    FirstImages = {2}
    MaxDeploys = 1
    MaxFaults = 1
    i1 = i1
    i2 = i2

SPECIFICATION FairSpec

CHECK_DEADLOCK FALSE

INVARIANTS
    TypeOK
    ServesOnWholeSchema

PROPERTIES
    ImplementsLog
    EveryoneServes
