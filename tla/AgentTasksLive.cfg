SPECIFICATION FairSpec
PROPERTIES
    GrantedTaskEnds
CONSTANTS
    w1 = w1
    w2 = w2
    o1 = o1
    o2 = o2
    None = None
    Tasks <- TwoTasks
    DependsOn <- SecondOnFirst
    Workers <- TwoWorkers
    Operators <- OneOperator
    NeedsApproval <- SecondTask
    Promotable <- TwoTasks
    SelfCommitting <- FirstTask
    MaxAttempts = 2
    LeasesTimely = TRUE
    SweepsPrompt = TRUE
    DecisionsPrompt = TRUE
