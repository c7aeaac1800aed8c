SPECIFICATION Spec
CONSTANTS
    o1 = o1
    o2 = o2
    c1 = c1
    c2 = c2
    Op = {o1, o2}
    Content = {c1, c2}
    Absent = Absent
    Folder = Folder
    NoOp = NoOp
    Asked <- MCAsked
    MaxDeliveries = 3
    MaxEdits = 1
    MaxFaults = 2
SYMMETRY Alike
CHECK_DEADLOCK FALSE
INVARIANTS Consistent ReportIsTrue
PROPERTIES UnseenEditIsKept
