SPECIFICATION Spec
INVARIANTS
    OneRunInFlight
CONSTANTS
    q1 = q1
    q2 = q2
    c1 = c1
    c2 = c2
    k1 = k1
    None = None
    Refused = Refused
    Ids <- OneId
    Runs <- FourRuns
    DocumentOf <- AllOfOne
    Checksums <- OneChecksum
    Requests <- TwoRequests
    Keys <- NoKeys
    InflightLimit = 0
    KeysSequential = TRUE
    ReadsPrompt = FALSE
CHECK_DEADLOCK FALSE
