CONSTANTS
    Threads = {t1, t2}
    Shared = {s1, s2}
    MaxFd = 2
    MaxReapers = 1
    MaxRequests = 1
    None = None
SPECIFICATION TeardownSpec
INVARIANTS NoUseAfterFree OneTeardownOwner KernelStorageHeld CallbackHeld ReaperSlotsExact
PROPERTIES TeardownSettles TeardownReturns
CHECK_DEADLOCK FALSE
