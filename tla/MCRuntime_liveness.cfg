\* One morning, two parts: calls that never return, two crashes or lost replies,
\* and a heartbeat that ends a process whose loops are silent.  The process and
\* its clock are fair; only DeliveredWhileOpen supposes anything of Telegram.
CONSTANTS
    i1 = i1
    i2 = i2
    Days <- OneDay
    DayLength = 7
    Scheduled = 1
    Cutoff = 6
    StaleAfter = 1
    RetryWindow = 2
    MaxAttempts = 2
    SendAttempts = 2
    Delays <- ShortAndLong
    Items <- TwoItems
    Limit = 2
    MaxClock = 6
    MaxFaults = 2
    PulseLimit = 1
    MaxUpdates = 1
SPECIFICATION RuntimeFairSpec
INVARIANTS DuplicatesNeedSilence
PROPERTIES ImplementsDelivery HungCallEnds DeliveredWhileOpen
CHECK_DEADLOCK FALSE
