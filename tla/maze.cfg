SPECIFICATION MCSpec
CONSTANTS
    LanNames = {"a", "b", "c"}
    Subnets = {1, 2}
    Hosts = {1, 2, 3}
    Deckies = {1, 2}
    Services = {"s"}
    FirstLans = {"a"}
    PinnedHosts = {1}
    Patches <- MCPatches
    MaxOps = 3
    MaxApi = 2
    MaxFaults = 1
    Topologies = {t1}
    Jobs = {j1}
    Watchers = {w1, w2}
    MaxMutations = 2
    MaxCrashes = 1
    t1 = t1
    j1 = j1
    w1 = w1
    w2 = w2
INVARIANTS
    TypeOK
    FailedMutationShows
    WiresFollowRows
PROPERTIES
    HomeKept
    OutcomeFinal
CHECK_DEADLOCK FALSE
