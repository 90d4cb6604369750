SPECIFICATION FairSpec
CONSTANTS
    Debounce = 1
    Hold <- MCHold
    PulseTime = 1
    RetryTime = 1
    RebootTime = 1
    QueueSize = 2
    InputActions <- MCInputActions
    Commands <- MCCommands
    MaxEvents = 2
INVARIANTS RelayAsCommanded DownlinksAccounted NetworkKnows
PROPERTIES EdgeHeld StatusReported
