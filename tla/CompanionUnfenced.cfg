CONSTANTS
    HelloMaxAttempts = 2
    MaxLinkFailures = 2
    PreDelivery = 1
    DeliveryTimeout = 1
    JobTimeout = 1
    OtaHold = 1
    UartCapacity = 1
    MaxId = 6
    RefusedIds = {2}
    MaxAllocations = 5
    MaxJobs = 2
    MaxRestarts = 0
    MaxUploads = 0
SPECIFICATION Spec
PROPERTIES WorkerFenced
CHECK_DEADLOCK FALSE
