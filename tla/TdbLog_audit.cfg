SPECIFICATION Spec
CONSTANTS
    Ids <- MCIds
    Vals = {a, b}
    NoVal = NoVal
    NoId = NoId
    AuditLog = TRUE
    Compaction = "never"
    MaxLines = 5
    MaxSeq = 5
    MaxBatch = 2
    MaxCrashes = 2
INVARIANTS
    SeqIncreasing
