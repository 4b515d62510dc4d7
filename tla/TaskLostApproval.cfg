SPECIFICATION Spec
INVARIANTS
    ApprovalIsKept
CONSTANTS
    w1 = w1
    w2 = w2
    o1 = o1
    o2 = o2
    None = None
    Tasks <- TwoTasks
    DependsOn <- SecondOnFirst
    Workers <- OneWorker
    Operators <- OneOperator
    NeedsApproval <- SecondTask
    Promotable <- NoTasks
    SelfCommitting <- NoTasks
    MaxAttempts = 2
    LeasesTimely = TRUE
    SweepsPrompt = TRUE
    DecisionsPrompt = FALSE
