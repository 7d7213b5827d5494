SPECIFICATION Spec
CONSTANTS
    Ids <- MCIds
    Vals = {a, b}
    NoVal = NoVal
    NoId = NoId
    AuditLog = FALSE
    Compaction = "concurrent"
    MaxLines = 4
    MaxSeq = 5
    MaxBatch = 1
    MaxCrashes = 0
PROPERTY
    CompactionPreservesLatest
