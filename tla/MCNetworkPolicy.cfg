SPECIFICATION PromptSpec
CONSTANTS
    Count = 4
    Usable = {0, 2, 3}
    Public = {2}
    Preempt <- MCPreempt
    RetryWait = 1
    PrivateRetry = 1
    JoinWait = 1
    Cooldown = 2
    Day = 5
    Budget = 1
    MaxManual = 1
INVARIANTS PolicyTypeOK ProbesAreHigher DailyJoins
PROPERTIES EveryProfileTried PreferredRetried
CHECK_DEADLOCK FALSE
