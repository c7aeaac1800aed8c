SPECIFICATION FairSpec
CONSTANTS
    k1 = k1
    k2 = k2
    n1 = n1
    n2 = n2
    d1 = d1
    d2 = d2
    Key = {k1, k2}
    Name = {n1, n2}
    Doc = {d1}
    NoKey = NoKey
    MaxDeliveries = 3
    MaxFaults = 2
CHECK_DEADLOCK FALSE
INVARIANT Consistent
PROPERTIES TakesNoExistingProfile ResultIsReported
