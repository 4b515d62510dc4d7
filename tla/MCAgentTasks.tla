----------------------------- MODULE MCAgentTasks -----------------------------
EXTENDS AgentTaskInvariant, TLC

CONSTANTS w1, w2, o1, o2

OneWorker    == {w1}
TwoWorkers   == {w1, w2}
OneOperator  == {o1}
TwoOperators == {o1, o2}

OneTask   == 1 .. 1
TwoTasks  == 1 .. 2
ThreeTasks == 1 .. 3
NoTasks   == {}

NoDependencies == [t \in OneTask |-> {}]
SecondOnFirst  == [t \in TwoTasks |-> IF t = 2 THEN {1} ELSE {}]
LastOnBoth     == [t \in ThreeTasks |-> IF t = 3 THEN {1, 2} ELSE {}]
FirstTask  == {1}
SecondTask == {2}
LastTwo    == {2, 3}

SessionSymmetry == Permutations({w1, w2}) \cup Permutations({o1, o2})
===============================================================================
