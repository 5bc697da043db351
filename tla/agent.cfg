SPECIFICATION Spec
CONSTANTS
    Topologies = {t1, t2}
    Configs = {"a", "b"}
    FirstConfig = "a"
    Calls = {"api", "loop", "live"}
    MaxInFlight = 1
    MaxChanges = 1
    MaxFaults = 1
    t1 = t1
    t2 = t2
INVARIANTS
    RowsDescribeDocker
    TornDownIsGone
CHECK_DEADLOCK FALSE
