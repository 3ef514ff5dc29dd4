\* A run synced again and again, live and ended, by syncs that may overlap and
\* be killed; someone rewrites metrics.csv and may restore it.
SPECIFICATION Spec
CONSTANTS
    Syncers = {s1, s2}
    FileOrder <- ThreeFiles
    AppendOnly = {"metrics.csv"}
    Immutable = {"run.json"}
    Editable = {"metrics.csv"}
    NoFile = NoFile
    CompressOver = 1
    MaxLength = 2
    MaxEdits = 2
    MaxKills = 1
    MaxSyncs = 3
SYMMETRY SyncerSymmetry
CHECK_DEADLOCK FALSE
INVARIANTS
    ReceiptDescribesCopy
PROPERTIES
    HistoryKept
