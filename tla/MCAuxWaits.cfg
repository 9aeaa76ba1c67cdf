SPECIFICATION FairSpec
CONSTANTS
    Regs = {r1, r2}
    Kinds = {"PERSISTENT", "TERMINAL", "CONSUMPTIVE", "ET_UNSUPPORTED", "PIPE"}
    Modes <- MCModes
    Faults = {"disarm", "node", "post", "register", "sample"}
    Closes = TRUE
    MaxFaults = 1
    MaxCount = 1
    MaxGen = 3
    None = None
INVARIANTS StorageHeld NotificationConserved NoneForgotten
PROPERTY EventuallyReported
CHECK_DEADLOCK FALSE
