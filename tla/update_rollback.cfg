SPECIFICATION Spec
CONSTANTS
    Releases = {"r0", "r1"}
    Installed = "r0"
    MaxOps = 1
    MaxDeaths = 0
INVARIANTS
    RolledBackRuns
CHECK_DEADLOCK FALSE
