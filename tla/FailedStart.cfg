\* A start that fails once the directory exists.
SPECIFICATION Spec
CONSTANTS
    Collectors = {c1}
    Sighted = {}
    DryRunners = {}
    BeatsOnTime = TRUE
    StaleAfter = 1
    MaxBeats = 3
    MaxFaults = 1
    MaxGcFaults = 0
INVARIANTS
    FailedStartLeavesTrace
CHECK_DEADLOCK FALSE
