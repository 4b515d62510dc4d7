SPECIFICATION Spec
INVARIANTS
    ActiveRunIsPublished
CONSTANTS
    w1 = w1
    w2 = w2
    u1 = u1
    d1 = d1
    d2 = d2
    None = None
    Runs <- OneRun
    DocumentOf <- OneRunOf
    Documents <- OneDocument
    Uploads <- NoUpload
    Workers <- TwoWorkers
    MaxAttempts = 2
    FailableStages <- SomeStages
    LeasesTimely = FALSE
    SweepsPrompt = TRUE
    QuietAfterPromotion = TRUE
    ReadsPrompt = TRUE
