CONSTANTS
    k1 = k1  k2 = k2  q1 = q1  q2 = q2  q3 = q3
    Keys = {k1, k2}
    Payloads = {1, 2}
    Requests = {q1, q2, q3}
    MaxTime = 4
SPECIFICATION Spec
SYMMETRY Symmetric
INVARIANTS TypeOK OneChain DeletedIsLast AmendsShown
PROPERTY Linear
CHECK_DEADLOCK FALSE
