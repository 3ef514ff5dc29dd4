\* A lock whose removal fails in Drop.
SPECIFICATION Spec
CONSTANTS
    Collectors = {c1}
    Sighted = {}
    DryRunners = {}
    BeatsOnTime = TRUE
    StaleAfter = 1
    MaxBeats = 3
    MaxFaults = 1
    MaxGcFaults = 0
INVARIANTS
    LockBesideStatusIsAKill
CHECK_DEADLOCK FALSE
