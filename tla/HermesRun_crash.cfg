SPECIFICATION Spec
CONSTANTS
    d1 = d1
    d2 = d2
    agentKey = agentKey
    session = session
    NoDispatch = NoDispatch
    Dispatch <- MCDispatch
    Key <- MCKey
    Session <- MCSession
    KeyOf <- SharedKeyOf
    SessionOf <- OneSession
    Timed <- NoneOf
    Cancellable <- OneDispatch
    Ended <- OtherDispatch
    Resettable <- MCSession
    SetupMayFail = TRUE
    MaxCrashes = 1
CHECK_DEADLOCK FALSE
INVARIANTS Consistent OneUnsettledRunPerKey SettledHasOneOutcome
PROPERTY KeepsPromise
