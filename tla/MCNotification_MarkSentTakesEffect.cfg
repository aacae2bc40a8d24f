\* Documented behaviour the code does not have: MarkSentTakesEffect.
CONSTANTS
    i1 = i1
    i2 = i2
    Days <- OneDay
    DayLength = 5
    Scheduled = 1
    Cutoff = 4
    StaleAfter = 0
    RetryWindow = 1
    MaxAttempts = 2
    SendAttempts = 2
    Delays <- ShortAndLong
    Items <- OneItem
    Limit = 1
    MaxClock = 4
    MaxFaults = 1
SPECIFICATION Spec
PROPERTIES MarkSentTakesEffect
