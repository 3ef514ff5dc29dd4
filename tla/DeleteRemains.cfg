\* A kill inside remove_dir_all, and a sync that takes internal runs.
SPECIFICATION Spec
CONSTANTS
    Machines = {home}
    Home = home
    AllowInternal = TRUE
    MaxMishaps = 1
CHECK_DEADLOCK FALSE
INVARIANT
    TombstonedNotSent
