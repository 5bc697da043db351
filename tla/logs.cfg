SPECIFICATION PathSpec
CONSTANTS
    BatchSize = 2
    MaxLines = 3
    FatalErrors = TRUE
    MaxRotations = 1
    MaxFailures = 1
    MaxCrashes = 1
    MaxLag = 2
    MaxShipped = 3
    MaxCuts = 1
    Containers = {c1, c2}
    PoolSize = 3
    MaxLogged = 1
    MaxChanges = 1
    MaxBreaks = 1
    MaxDeaths = 1
    c1 = c1
    c2 = c2
INVARIANTS
    PathTypeOK
    BountyHasLog
    DuplicatesPaid
    ShippedAccounted
    MirrorsLog
    NoSecondStream
PROPERTIES
    CheckpointsKept
    NeverStuck
    OrphanPickedUp
CHECK_DEADLOCK FALSE
