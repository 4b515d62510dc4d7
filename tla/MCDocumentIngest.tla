--------------------------- MODULE MCDocumentIngest ---------------------------
EXTENDS DocumentIngest, TLC

CONSTANTS q1, q2, c1, c2, k1

OneId  == 1 .. 1
TwoIds == 1 .. 2
FourRuns == 1 .. 4
FiveRuns == 1 .. 5
SixRuns  == 1 .. 6

AllOfOne   == [r \in FourRuns |-> 1]
ThreeOfOne == [r \in FiveRuns |-> IF r <= 3 THEN 1 ELSE 2]
ThreeEach  == [r \in SixRuns |-> IF r <= 3 THEN 1 ELSE 2]

OneChecksum  == {c1}
TwoChecksums == {c1, c2}
TwoRequests  == {q1, q2}
NoKeys == {}
OneKey == {k1}

IngestSymmetry == Permutations({q1, q2}) \cup Permutations({c1, c2})
===============================================================================
