SPECIFICATION Spec
CONSTANTS
    ProjectIds = {p1, p2}
    ItemIds = {i1}
    Names = {a, b}
    Nonces = {n1, n2}
    Updates = {u1, u2}
    None = None
    Colons = 2
    MaxClock = 2
SYMMETRY Symmetry
INVARIANT SuccessIsStored
CHECK_DEADLOCK FALSE
