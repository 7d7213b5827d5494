SPECIFICATION Spec
CONSTANTS
    Ids <- MCIds
    Vals = {a, b}
    NoVal = NoVal
    NoId = NoId
    AuditLog = FALSE
    Compaction = "quiescent"
    MaxLines = 4
    MaxSeq = 5
    MaxBatch = 2
    MaxCrashes = 2
INVARIANTS
    AckedSurvives
    ReadersSeeAcked
PROPERTY
    CompactionPreservesLatest
