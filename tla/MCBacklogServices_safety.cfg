SPECIFICATION Spec
CONSTANTS
    ProjectIds = {p1, p2}
    ItemIds = {i1}
    Names = {a, b}
    Nonces = {n1, n2}
    Updates = {u1, u2, u3}
    None = None
    Colons = 0
    MaxClock = 2
SYMMETRY Symmetry
INVARIANTS TypeOK OneReceiptPerMutation DraftIsUnspent ActiveNamesDiffer
PROPERTIES NoLostUpdate ArchivedIsReadOnly ImplementsConfirmations
CHECK_DEADLOCK FALSE
