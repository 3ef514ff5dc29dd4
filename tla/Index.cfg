\* A canonical and a legacy run; two syncs, a delete, one kill.
SPECIFICATION Spec
CONSTANTS
    c = c
    l = l
    x = x
    Dirs = {c, l, x}
    Legacy = {l, x}
    Beginnings = {{l}, {x}}
    Gone = {l, x}
    Hidden = {}
    NoDate = {x}
    Kept = {"run.json", "status.json", "metrics.csv"}
    Large <- LargeFiles
    RowsAt <- RunRowsAt
    Moved = {"wall_sec"}
    GroupOf <- Groups
    DirOrder <- Order
    TableOrder <- TablesInOrder
    Absent = Absent
    MaxSyncs = 2
    MaxKills = 1
CHECK_DEADLOCK FALSE
INVARIANTS
    CurrentIndexIsTheVault
    EndedRunIsWhole
PROPERTIES
    EndedStaysEnded
    IndexCatchesUp
