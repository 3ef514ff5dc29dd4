\* A kill inside remove_dir_all.
SPECIFICATION Spec
CONSTANTS
    Machines = {home}
    Home = home
    AllowInternal = FALSE
    MaxMishaps = 1
CHECK_DEADLOCK FALSE
INVARIANT
    NeverRefused
