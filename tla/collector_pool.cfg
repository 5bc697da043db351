SPECIFICATION Spec
CONSTANTS
    Containers = {c1, c2}
    PoolSize = 2
    MaxLines = 1
    MaxChanges = 1
    MaxBreaks = 1
    MaxDeaths = 0
    c1 = c1
    c2 = c2
PROPERTIES
    OrphanPickedUp
CHECK_DEADLOCK FALSE
