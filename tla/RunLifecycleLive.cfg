SPECIFICATION FairSpec
INVARIANTS
    Recoverable
PROPERTIES
    EveryRunEnds
CONSTANTS
    w1 = w1
    w2 = w2
    u1 = u1
    d1 = d1
    d2 = d2
    None = None
    Runs <- TwoRuns
    DocumentOf <- TwoRunsOf
    Documents <- TwoDocuments
    Uploads <- NoUpload
    Workers <- TwoWorkers
    MaxAttempts = 3
    FailableStages <- TwoStages
    LeasesTimely = TRUE
    SweepsPrompt = TRUE
    QuietAfterPromotion = TRUE
    ReadsPrompt = TRUE
