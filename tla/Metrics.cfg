\* Two runs of an experiment under any two declarations.
SPECIFICATION Spec
CONSTANTS
    Names = {"rate", "member", "n_units"}
    Reserved = {"n_units"}
    Scopes = {"run", "trial"}
    RunScope = "run"
    Families = {"wide", "narrow"}
    Covers <- FamilyNames
    Declarations <- ThreeDeclarations
    MaxBatch = 2
    MaxRuns = 2
    MaxRows = 3
    MaxFaults = 1
CHECK_DEADLOCK FALSE
INVARIANTS
    AuditKnowsFinishedNames
    MetaAccountsForTheRun
    CountsMatchRows
    FinishedKeysAreUnique
