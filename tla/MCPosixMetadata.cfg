CONSTANTS
    Waiters = {w1}
    Fds = {f1, f2}
    o1 = o1
    o2 = o2
    o3 = o3
    Files = {o1, o2, o3}
    Fingerprint <- MCFingerprint
    Data = {d1, d2}
    Contexts = {c1, c2}
    MaxNodes = 2
    None = None
SPECIFICATION Spec
SYMMETRY Symmetry
CONSTANT NoMemory = TRUE
INVARIANTS Synchronized ContextRight
