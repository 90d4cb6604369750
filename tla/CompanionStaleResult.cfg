CONSTANTS
    HelloMaxAttempts = 2
    MaxLinkFailures = 2
    PreDelivery = 1
    DeliveryTimeout = 1
    JobTimeout = 1
    OtaHold = 1
    UartCapacity = 1
    MaxId = 4
    RefusedIds = {2}
    MaxAllocations = 3
    MaxJobs = 2
    MaxRestarts = 0
    MaxUploads = 0
SPECIFICATION Spec
INVARIANTS ResultIsOfThisCommand
CHECK_DEADLOCK FALSE
