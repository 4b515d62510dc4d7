SPECIFICATION Spec
SYMMETRY ReplaySymmetry
INVARIANTS
    TypeOK
    QueuedOnce
    ClosedOnEvidence
    LastFinalizationSettles
PROPERTIES
    ClosureStands
CONSTANTS
    q1 = q1
    q2 = q2
    r1 = r1
    r2 = r2
    None = None
    Requests <- TwoRequests
    Reports <- TwoReports
    Verified <- OneReport
    Plans <- TwoPlans
    MaxAttempts = 2
