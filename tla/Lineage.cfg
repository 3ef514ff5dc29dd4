\* Three runs, found and started; two changes of their lives.
SPECIFICATION Spec
CONSTANTS
    Runs = {a, b, c}
    NoRun = NoRun
    None = None
    Slugs = {"sweep", OwnSlug}
    OwnSlug = OwnSlug
    Found <- FoundLineages
    Options <- AllOptions
    MaxChanges = 2
SYMMETRY RunSymmetry
CHECK_DEADLOCK FALSE
INVARIANTS
    AcceptedIsAcyclic
    CycleIsFound
    AcceptedStaysAccepted
    StartSettlesTheShape
