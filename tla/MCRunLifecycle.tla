---------------------------- MODULE MCRunLifecycle ----------------------------
EXTENDS RunLifecycleInvariant, TLC

CONSTANTS w1, w2, u1, d1, d2

OneWorker  == {w1}
TwoWorkers == {w1, w2}
NoUpload   == {}
OneUpload  == {u1}
OneDocument  == {d1}
TwoDocuments == {d1, d2}

OneRun    == 1 .. 1
TwoRuns   == 1 .. 2
ThreeRuns == 1 .. 3

OneRunOf       == [r \in OneRun |-> d1]
TwoRunsOf      == [r \in TwoRuns |-> IF r = 1 THEN d1 ELSE d2]
ThreeRunsOf    == [r \in ThreeRuns |-> d1]

SomeStages == {"parse", "run_persist", "validation", "promotion"}
TwoStages  == {"parse", "validation"}

WorkerSymmetry == Permutations({w1, w2})
===============================================================================
