\* Remote collectors and a run that may be suspended past STALE_AFTER.
SPECIFICATION Spec
CONSTANTS
    Collectors = {c1, c2}
    Sighted = {}
    DryRunners = {}
    BeatsOnTime = FALSE
    StaleAfter = 1
    MaxBeats = 2
    MaxFaults = 1
    MaxGcFaults = 0
PROPERTIES
    QuietVerdictStands
CHECK_DEADLOCK FALSE
