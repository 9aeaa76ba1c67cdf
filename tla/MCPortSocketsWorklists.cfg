CONSTANTS
    f1 = f1
    f2 = f2
    Fds = {f1}
    Socks = {s1, s2}
    Active = {"IN"}
    Masks = {{"IN"}, {"IN", "OUT"}}
    Modes <- AllModes
    Term = "HUP"
    Faults = {}
    Closes = FALSE
    Coalesce = FALSE
    MaxEvents = 1
    MaxObj = 1
    MaxGen = 3
    None = None
SPECIFICATION Spec
SYMMETRY Symmetry
INVARIANT WorklistsValid
