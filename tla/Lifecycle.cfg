\* A collector on the run's machine and a remote one; every owned lock is
\* refreshed in time, and collectors are run again and again.
SPECIFICATION FairSpec
CONSTANTS
    Collectors = {c1, c2}
    Sighted = {c1}
    DryRunners = {}
    BeatsOnTime = TRUE
    StaleAfter = 1
    MaxBeats = 3
    MaxFaults = 2
    MaxGcFaults = 1
INVARIANTS
    GcReapsOnlyTheDead
    NoLockBesideStatus
    OneFaultIsRecorded
PROPERTIES
    SettledIsFinal
    ImplementsRunRecord
    KilledRunIsRecorded
CHECK_DEADLOCK FALSE
