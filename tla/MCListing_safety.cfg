SPECIFICATION Spec
CONSTANTS
    Projects = {"p1", "p2"}
    Rows <- SomeRows
    Today = 1
    Limit = 3
    PageSize = 2
    MaxUnits = 8
    Overhead = 2
    NoLimit = NoLimit
    MaxItems = 4
    MaxChanges = 1
INVARIANTS TypeOK WalkShowsAll MostUrgentFirst EveryItemOnce PartsFit
