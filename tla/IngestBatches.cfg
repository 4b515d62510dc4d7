SPECIFICATION FairBatchSpec
INVARIANTS
    BatchTypeOK
    CountsMatchItems
    ServedNeverFailed
    NeverDoneEarly
    WithinCapacity
PROPERTIES
    BatchSettles
CONSTANTS
    q1 = q1
    q2 = q2
    c1 = c1
    c2 = c2
    k1 = k1
    None = None
    Refused = Refused
    Ids <- TwoIds
    Runs <- SixRuns
    DocumentOf <- ThreeEach
    Checksums <- TwoChecksums
    Requests <- TwoRequests
    Keys <- NoKeys
    InflightLimit = 1
    KeysSequential = TRUE
    ReadsPrompt = FALSE
    Files <- TwoFiles
    Loader = q1
CHECK_DEADLOCK FALSE
