CONSTANTS
    Socks = {s1, s2, s3}
    Numbers = {1, 2, 3, 4}
    BaseNumbers = {1}
    Faulty = TRUE
SPECIFICATION FairKeySpec
INVARIANTS UniqueTargets ClosesOwnHandles
PROPERTY ClaimEnds
CHECK_DEADLOCK FALSE
