\* Documented behaviour the code does not have: RetryAfterHonored.
\* A Retry-After well inside the window, no crash: only the heartbeat ends the
\* process.
CONSTANTS
    i1 = i1
    i2 = i2
    Days <- OneDay
    DayLength = 7
    Scheduled = 1
    Cutoff = 6
    StaleAfter = 1
    RetryWindow = 2
    MaxAttempts = 2
    SendAttempts = 2
    Delays <- LongerThanPulse
    Items <- OneItem
    Limit = 1
    MaxClock = 6
    MaxFaults = 0
    PulseLimit = 1
    MaxUpdates = 1
SPECIFICATION RuntimeSpec
PROPERTIES RetryAfterHonored
CHECK_DEADLOCK FALSE
