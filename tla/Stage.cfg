\* Counted and unbounded stages, with a timer that may fire on any tick.
SPECIFICATION StageSpec
CONSTANTS
    Totals <- SmallTotals
    ReportInterval = 2
    MaxTicks = 45
    MaxQuiet = 3
CHECK_DEADLOCK FALSE
INVARIANTS
    BoundedSilence
    ReportsOnTheGrid
