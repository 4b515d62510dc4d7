SPECIFICATION Spec
SYMMETRY WorkerSymmetry
INVARIANTS
    TypeOK
    ActiveRunIsPublished
    OneWorkerPerRun
    AttemptsBounded
    OneInflightRunPerDocument
    SafetyInv
PROPERTIES
    ServedCorpusOnlyReplaced
    NeverServesOlderRun
    ImplementsContract
CONSTANTS
    w1 = w1
    w2 = w2
    u1 = u1
    d1 = d1
    d2 = d2
    None = None
    Runs <- ThreeRuns
    DocumentOf <- ThreeRunsOf
    Documents <- OneDocument
    Uploads <- OneUpload
    Workers <- TwoWorkers
    MaxAttempts = 3
    FailableStages <- SomeStages
    LeasesTimely = TRUE
    SweepsPrompt = TRUE
    QuietAfterPromotion = TRUE
    ReadsPrompt = TRUE
