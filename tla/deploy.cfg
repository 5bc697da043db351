SPECIFICATION MCSpec
CONSTANTS
    Topologies = {t1}
    Jobs = {j1, j2}
    Configs = {"a", "b"}
    FirstConfig = "a"
    Calls = {"api", "loop", "live"}
    MaxInFlight = 1
    MaxChanges = 2
    MaxFaults = 1
    t1 = t1
    j1 = j1
    j2 = j2
INVARIANTS
    DeployTypeOK
    PendingUntouched
    LiveIsUp
    RestMatchesDocker
PROPERTIES
    TransientEnds
    FlagDrained
    DriftRepaired
CHECK_DEADLOCK FALSE
