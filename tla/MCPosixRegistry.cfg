CONSTANTS
    Threads = {t1, t2}
    Fds = {f1, f2}
    Instances = {i1, i2}
    Ports = {p1, p2}
    MapSize = 2
    Other = Other
    None = None
SPECIFICATION FairSpec
INVARIANTS NoUseAfterFree OnePortPerInstance
PROPERTIES ReplacementSurvives ClosingPortFreed
