SPECIFICATION SyncSpec
CONSTANTS
    a1 = a1
    a2 = a2
    Agent = {a1, a2}
    Native = {a1}
    Protocols <- OldRelay
    Kinds <- SomeKinds
    MaxEdits = 4
    MaxFaults = 1
INVARIANT SyncConsistent
PROPERTIES UnseenEditIsKept TombstoneIsTruthful NothingComesBack EventuallyInSync
