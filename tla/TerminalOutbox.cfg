SPECIFICATION FairSpec
CONSTANTS
    e1 = e1
    e2 = e2
    Event <- MCEvent
    DispatchOf <- OneDispatch
    TypeOf <- TwoTypes
    AckNames <- AllNames
    MaxAttempts = 2
    MaxCrashes = 1
    DiskMayFail = FALSE
INVARIANTS Consistent NothingIsLost OneExtraAttempt
PROPERTY OutboxDrains
