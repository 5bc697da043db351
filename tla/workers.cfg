SPECIFICATION WorkersSpec
CONSTANTS
    Deckies = {"a", "b"}
    MaxRows = 2
    MaxNetFaults = 1
    MaxDrops = 1
    MaxCrashes = 1
    Releases = {"r0", "r1", "r2"}
    Installed = "r0"
    MaxOps = 2
    MaxDeaths = 1
    Subs = {s1, s2}
    OutSize = 1
    InSize = 1
    SocketSize = 1
    BusEvents = 3
    Tasks = {k1, k2}
    Threshold = 2
    HookEvents = 3
    MaxPatches = 2
    MaxRestarts = 1
    MaxErrors = 1
    s1 = s1
    s2 = s2
    k1 = k1
    k2 = k2
INVARIANTS
    WorkersTypeOK
    OutcomeMatchesAttempt
    SuccessesEarned
    UpdatedRuns
    FailureRestores
    StaysSubscribed
PROPERTIES
    EveryRowEnds
    LatestArrives
    Woken
    DisabledGoesQuiet
    TripEarned
CHECK_DEADLOCK FALSE
