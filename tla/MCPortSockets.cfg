CONSTANTS
    f1 = f1
    f2 = f2
    Fds = {f1}
    Socks = {s1, s2}
    Active = {"IN"}
    Masks = {{"IN"}, {"IN", "OUT"}}
    Modes <- AllModes
    Term = "HUP"
    Faults = {"submit", "cancel", "node", "post", "dequeue"}
    Closes = TRUE
    Coalesce = FALSE
    MaxEvents = 1
    MaxObj = 2
    MaxGen = 2
    None = None
SPECIFICATION Spec
SYMMETRY Symmetry
INVARIANTS InFlightOwned ReadyHasOneNode NoneForgotten
PROPERTIES DeliveryCurrent 
