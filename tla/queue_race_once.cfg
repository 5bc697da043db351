SPECIFICATION Spec
CONSTANTS
    Topologies = {t1}
    Watchers = {w1, w2}
    MaxMutations = 2
    MaxCrashes = 0
    t1 = t1
    w1 = w1
    w2 = w2
INVARIANTS
    AtMostOnce
CHECK_DEADLOCK FALSE
