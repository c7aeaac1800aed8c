SPECIFICATION FairSpec
CONSTANTS
    d1 = d1
    d2 = d2
    agentKey = agentKey
    session = session
    NoDispatch = NoDispatch
    Dispatch <- MCDispatch
    Key <- MCKey
    Session <- MCSession
    KeyOf <- SharedKeyOf
    SessionOf <- OneSession
    Timed <- OneDispatch
    Cancellable <- NoneOf
    Ended <- NoneOf
    Resettable <- NoneOf
    SetupMayFail = FALSE
    MaxCrashes = 0
CHECK_DEADLOCK FALSE
PROPERTIES LockWaitEnds TimedRunSettles OutcomeIsForwarded
