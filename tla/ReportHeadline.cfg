\* A headline that only the points of a series carry.
SPECIFICATION ReportSpec
CONSTANTS
    a = a
    b = b
    l = l
    Runs = {a, b, l}
    Legacy = {l}
    PathOf <- Paths
    FilesOf <- LegacyFiles
    ExperimentOf <- Experiments
    RowsOf <- Recorded
    IssuesOf <- Issues
    DocsOf <- Docs
    Vocabulary <- ReservedNames
    NameOrder <- Names
    Headlines = 1
    SummaryMetrics = 1
    MaxChanges = 2
    MetricStems = {"metrics", "x_summary", "firm_metrics", "y_metrics"}
    TimeUnit <- Units
    PairedValue <- Pairs
    Unusable = {}
    IsDate <- Days
    IsTime <- Hours
    Absent = Absent
PROPERTY
    HeadlineIsAlwaysShown
