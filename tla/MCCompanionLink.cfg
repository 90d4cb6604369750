CONSTANTS
    HelloMaxAttempts = 2
    MaxLinkFailures = 2
    PreDelivery = 1
    DeliveryTimeout = 1
    JobTimeout = 1
    OtaHold = 1
    UartCapacity = 2
    MaxId = 4
    RefusedIds = {3}
    MaxAllocations = 3
    MaxJobs = 2
    MaxRestarts = 1
    MaxUploads = 0
SPECIFICATION Spec
INVARIANTS TypeOK JobBounded SuccessIsGenuine BusyMatchesJob
PROPERTIES RunsOnce ImplementsCommand
CHECK_DEADLOCK FALSE
