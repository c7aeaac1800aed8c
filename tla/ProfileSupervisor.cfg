SPECIFICATION FairSpec
CONSTANTS
    d1 = d1
    j1 = j1
    p1 = p1
    e1 = e1
    e2 = e2
    NoWork = NoWork
    NoEpoch = NoEpoch
    NoProcess = NoProcess
    Dispatch = {d1}
    Job = {j1}
    Profile = {p1}
    ProfileOf <- MCProfileOf
    EpochOf <- MCEpochOf
    Process = {q1, q2}
    MaxWorkers = 1
    MaxRestarts = 1
    Redelivered = {d1}
    Faults = {"death", "drop", "post", "idle"}
INVARIANTS Consistent NoDispatchBehindShutdown ExecutedOnce
PROPERTY HandoverEnds
