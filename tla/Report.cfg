\* Two runs and a legacy run of one experiment, which may be in the vault
\* before, and two changes of the vault.
SPECIFICATION ReportSpec
CONSTANTS
    a = a
    b = b
    l = l
    Runs = {a, b, l}
    Legacy = {l}
    PathOf <- Paths
    FilesOf <- LegacyFiles
    ExperimentOf <- Experiments
    RowsOf <- Recorded
    IssuesOf <- Issues
    DocsOf <- Docs
    Vocabulary <- ReservedNames
    NameOrder <- Names
    Headlines = 1
    SummaryMetrics = 1
    MaxChanges = 2
    MetricStems = {"metrics", "x_summary", "firm_metrics", "y_metrics"}
    TimeUnit <- Units
    PairedValue <- Pairs
    Unusable = {}
    IsDate <- Days
    IsTime <- Hours
    Absent = Absent
INVARIANTS
    HeadlineIsShown
    ReportAddsUp
    EachNumberOnce
