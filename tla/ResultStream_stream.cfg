SPECIFICATION Spec
CONSTANTS
    Values = {"a", "b", "c", "d"}
    Null = "null"
    HashRange = 8
    Hash <- MCHash
    CanonicalBytes <- MCCanonicalBytes
    ExactMaxValues = 1
    ExactMaxBytes = 2
    KmvHashes = 2
    Tables <- MCTables
    Limits = {0, 2, 4, 5}
    MaxRows = 3
    MaxBytes = 6
    BatchSize = 2
    HeaderBytes = 1
    RowBytes <- MCRowBytes
    MaxFaults = 3
CHECK_DEADLOCK FALSE
INVARIANTS TypeOK PublishedExact DistinctRight CountRight FailureLeavesNothing
PROPERTY AbortReadsNothing
