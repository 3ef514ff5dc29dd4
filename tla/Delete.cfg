\* Syncs and deletes on two machines, together or not, killed between two steps
\* or inside a removal, and repeated.
SPECIFICATION FairSpec
CONSTANTS
    Machines = {home, other}
    Home = home
    AllowInternal = TRUE
    MaxMishaps = 2
CHECK_DEADLOCK FALSE
INVARIANTS
    DeletedStaysDeleted
    InterruptedDeleteResumes
PROPERTIES
    TombstoneFirst
    LiveRunIsSpared
    DeletionCompletes
