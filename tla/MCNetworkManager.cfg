SPECIFICATION Spec
CONSTANTS
    Count = 2
    Usable = {0, 1}
    Public = {1}
    Preempt <- MCPreempt
    RetryWait = 1
    PrivateRetry = 1
    JoinWait = 1
    Cooldown = 1
    Day = 2
    Budget = 1
    MaxManual = 1
    MaxNonce = 3
    Block = 2
INVARIANTS TypeOK AcceptsAreFresh
PROPERTIES NonceNeverReused ResultIsOwn FaultIsFinal FollowsPolicy
CHECK_DEADLOCK FALSE
