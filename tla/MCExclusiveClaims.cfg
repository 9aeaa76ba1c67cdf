CONSTANTS
    Regs = {r1, r2, r3}
    Exclusive = {r1, r2}
    Publishers = {r1}
    Bases = {b1, b2}
    Directional = {"READ"}
    None = None
SPECIFICATION Spec
SYMMETRY Symmetry
INVARIANTS ClaimsExclusive
PROPERTY DenialJustified
