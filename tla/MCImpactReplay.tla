---------------------------- MODULE MCImpactReplay ----------------------------
EXTENDS ImpactReplay, TLC

CONSTANTS q1, q2, r1, r2

TwoRequests == {q1, q2}
TwoReports  == {r1, r2}
OneReport   == {r1}
TwoPlans    == 1 .. 2

ReplaySymmetry == Permutations({q1, q2})
===============================================================================
