CONSTANTS
    HelloMaxAttempts = 1
    MaxLinkFailures = 2
    PreDelivery = 1
    DeliveryTimeout = 1
    JobTimeout = 1
    OtaHold = 1
    UartCapacity = 1
    MaxId = 4
    RefusedIds = {2}
    MaxAllocations = 3
    MaxJobs = 1
    MaxRestarts = 0
    MaxUploads = 1
SPECIFICATION FairSpec
PROPERTIES CommandAnswered
CHECK_DEADLOCK FALSE
