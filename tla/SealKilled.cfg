\* A run killed while it writes its manifest.
SPECIFICATION Spec
CONSTANTS
    s1 = s1
    s2 = s2
    Stages <- TwoStages
    Artifacts = {artifact}
    Log = log
    SameThread = TRUE
    MaxWrites = 3
    MaxFaults = 0
SYMMETRY StageSymmetry
CHECK_DEADLOCK FALSE
INVARIANT
    FailedRunVerifies
