\* A sync refused at run.json, after metrics.csv changed its form.
SPECIFICATION Spec
CONSTANTS
    Syncers = {s1}
    FileOrder <- ThreeFiles
    AppendOnly = {"metrics.csv"}
    Immutable = {"run.json"}
    Editable = {"metrics.csv", "run.json"}
    NoFile = NoFile
    CompressOver = 1
    MaxLength = 2
    MaxEdits = 3
    MaxKills = 0
    MaxSyncs = 3
CHECK_DEADLOCK FALSE
PROPERTIES
    RewritesRefused
