SPECIFICATION Spec
CONSTANTS
    Topologies = {t1}
    Configs = {"a", "b"}
    FirstConfig = "a"
    Calls = {"api", "loop"}
    MaxInFlight = 1
    MaxChanges = 0
    MaxFaults = 0
    t1 = t1
PROPERTIES
    FlaggedForContent
CHECK_DEADLOCK FALSE
