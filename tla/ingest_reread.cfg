SPECIFICATION Spec
CONSTANTS
    BatchSize = 2
    MaxLines = 3
    FatalErrors = FALSE
    MaxRotations = 0
    MaxFailures = 1
    MaxCrashes = 0
INVARIANTS
    UncommittedReread
