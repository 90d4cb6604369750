SPECIFICATION Spec
CONSTANTS
    Requests <- MCRequests
    Devices <- MCDevices
    Window = 2
    ReturnAt = 1
    TxLimit = 1
    MaxPolls = 2
INVARIANTS SuccessIsVerified FrameAccepted CreditsConserved ContextOutlivesHost
PROPERTIES OwnCompletion
