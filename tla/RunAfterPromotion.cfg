SPECIFICATION Spec
PROPERTIES
    ServedCorpusOnlyReplaced
CONSTANTS
    w1 = w1
    w2 = w2
    u1 = u1
    d1 = d1
    d2 = d2
    None = None
    Runs <- OneRun
    DocumentOf <- OneRunOf
    Documents <- OneDocument
    Uploads <- NoUpload
    Workers <- OneWorker
    MaxAttempts = 2
    FailableStages <- SomeStages
    LeasesTimely = TRUE
    SweepsPrompt = TRUE
    QuietAfterPromotion = FALSE
    ReadsPrompt = TRUE
