SPECIFICATION Spec
SYMMETRY SessionSymmetry
INVARIANTS
    TypeOK
    DependenciesFirst
    ApprovalIsKept
    AttemptsAccountedFor
    OneWorkerPerTask
    EffectAppliedOnce
    DecisionInv
    NoWorkWithoutApproval
    ApprovalInv
PROPERTIES
    RejectionIsFinal
    CheckpointHonoured
CONSTANTS
    w1 = w1
    w2 = w2
    o1 = o1
    o2 = o2
    None = None
    Tasks <- ThreeTasks
    DependsOn <- LastOnBoth
    Workers <- TwoWorkers
    Operators <- TwoOperators
    NeedsApproval <- LastTwo
    Promotable <- TwoTasks
    SelfCommitting <- FirstTask
    MaxAttempts = 2
    LeasesTimely = TRUE
    SweepsPrompt = TRUE
    DecisionsPrompt = TRUE
