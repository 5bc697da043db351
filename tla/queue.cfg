SPECIFICATION Spec
CONSTANTS
    Topologies = {t1, t2}
    Watchers = {w1}
    MaxMutations = 2
    MaxCrashes = 1
    t1 = t1
    t2 = t2
    w1 = w1
INVARIANTS
    TypeOK
    OutcomeEarned
    RerunsPaidByCrashes
PROPERTIES
    OldestUnresolvedFirst
    PendingClaimed
    ClaimedResolved
CHECK_DEADLOCK FALSE
