\* Two stages on the run's own thread, closed before, after or never.
SPECIFICATION Spec
CONSTANTS
    s1 = s1
    s2 = s2
    Stages <- TwoStages
    Artifacts = {artifact}
    Log = log
    SameThread = TRUE
    MaxWrites = 5
    MaxFaults = 2
SYMMETRY StageSymmetry
CHECK_DEADLOCK FALSE
INVARIANTS
    SealedRunVerifies
PROPERTIES
    RecordedRunIsStill
