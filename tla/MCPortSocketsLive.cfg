CONSTANTS
    f1 = f1
    f2 = f2
    Fds = {f1, f2}
    Socks = {s1, s2}
    Active = {"IN"}
    Masks = {{"IN"}}
    Modes <- MixedModes
    Term = "HUP"
    Faults = {}
    Closes = FALSE
    Coalesce = TRUE
    MaxEvents = 2
    MaxObj = 1
    MaxGen = 2
    None = None
SPECIFICATION FairSpec
INVARIANT NoDuplicateInWait
PROPERTY EventuallyReported
