SPECIFICATION Spec
PROPERTIES
    RejectionIsFinal
CONSTANTS
    w1 = w1
    w2 = w2
    o1 = o1
    o2 = o2
    None = None
    Tasks <- OneTask
    DependsOn <- NoDependencies
    Workers <- OneWorker
    Operators <- TwoOperators
    NeedsApproval <- FirstTask
    Promotable <- NoTasks
    SelfCommitting <- NoTasks
    MaxAttempts = 2
    LeasesTimely = TRUE
    SweepsPrompt = TRUE
    DecisionsPrompt = FALSE
