SPECIFICATION FairSpec
CONSTANTS
    c1 = c1
    c2 = c2
    i1 = i1
    i2 = i2
    NoCommand = NoCommand
    NoId = NoId
    Command <- MCCommand
    Id <- MCId
    IdOf <- MCIdOf
    Checked <- OneChecked
    LostReplies = TRUE
    Limit = 1
    MaxCrashes = 1
INVARIANTS Consistent MadeAtMostOnce RelayHearsTheTruth
PROPERTIES KeepsPromise ReceiptIsDelivered
