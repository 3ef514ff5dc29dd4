\* Three runs, one of which may be killed; any holder may be slow and any
\* waiter may lose patience.
SPECIFICATION FairLinkSpec
CONSTANTS
    r1 = r1
    r2 = r2
    r3 = r3
    NoRun = NoRun
    Runs <- Three
    FinishedAt <- ThreeInstants
    SlowHolders = TRUE
    LongWaits = TRUE
    MaxKills = 1
CHECK_DEADLOCK FALSE
INVARIANTS
    OneUpdateAtATime
    LinkIsLatest
PROPERTIES
    LinkMovesForward
    EveryFinishReturns
