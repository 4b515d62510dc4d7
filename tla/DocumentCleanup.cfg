SPECIFICATION CleanupSpec
SYMMETRY IngestSymmetry
INVARIANTS
    CleanupTypeOK
    DocumentsComplete
    RepeatedOnlyAfterFailure
PROPERTIES
    AnswersStand
    ServedRunsKept
    ImplementsContract
CONSTANTS
    q1 = q1
    q2 = q2
    c1 = c1
    c2 = c2
    k1 = k1
    None = None
    Refused = Refused
    Ids <- TwoIds
    Runs <- FiveRuns
    DocumentOf <- ThreeOfOne
    Checksums <- TwoChecksums
    Requests <- TwoRequests
    Keys <- OneKey
    InflightLimit = 2
    KeysSequential = TRUE
    ReadsPrompt = TRUE
    CleanupUndisturbed = TRUE
CHECK_DEADLOCK FALSE
