SPECIFICATION Spec
CONSTANTS
    LanNames = {"a", "b"}
    Subnets = {1, 2}
    Hosts = {1, 2, 3}
    Deckies = {1, 2}
    Services = {"s"}
    FirstLans = {"a"}
    PinnedHosts = {1}
    Patches = {}
    MaxOps = 2
    MaxApi = 0
    MaxFaults = 0
INVARIANTS
    FleetHarmless
CHECK_DEADLOCK FALSE
