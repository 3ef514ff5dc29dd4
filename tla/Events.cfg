\* Four accepted calls over thirteen events, two I/O errors, every end of the run.
SPECIFICATION Spec
CONSTANTS
    Payloads <- Logged
    Units = {u, v}
    OwnKinds = {"x.repo.flow"}
    Null = Null
    Odd = Odd
    u = u
    v = v
    MaxCalls = 4
    MaxFaults = 2
CHECK_DEADLOCK FALSE
INVARIANTS
    AcknowledgedIsWritten
    LawfulRunPassesDeep
    FinishedEventsAreWhole
