\* Two mornings, two items in one or two parts, two crashes or lost replies.
CONSTANTS
    i1 = i1
    i2 = i2
    Days <- TwoDays
    DayLength = 5
    Scheduled = 1
    Cutoff = 4
    StaleAfter = 1
    RetryWindow = 1
    MaxAttempts = 2
    SendAttempts = 2
    Delays <- ShortAndLong
    Items <- TwoItems
    Limit = 2
    MaxClock = 9
    MaxFaults = 2
SPECIFICATION Spec
SYMMETRY Symmetry
INVARIANTS TypeOK DuplicatesNeedFaults InOrder SentMeansDelivered RetryBudget
PROPERTIES NoAttemptOutsideWindow
