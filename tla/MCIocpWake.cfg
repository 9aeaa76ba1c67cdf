CONSTANTS
    Wakers = {w1}
    Callbacks = {c1}
    Waiters = {t1, t2}
    Finite = {t1}
    Faulty = TRUE
    Batch = 2
    None = None
SPECIFICATION FairSpec
INVARIANTS HandleLease WakeNotLost ErrorNotMasked
PROPERTIES WakeEndsWait CloseEndsWaits
CHECK_DEADLOCK FALSE
