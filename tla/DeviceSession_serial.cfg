SPECIFICATION Spec
CONSTANTS
    b1 = b1
    b2 = b2
    Proc = {b1, b2}
    MaxFaults = 2
INVARIANT AuthenticationsAreSerialized
