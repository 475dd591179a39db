CONSTANTS
    c1 = c1
    c2 = c2
    c3 = c3
    c4 = c4
    c5 = c5
    ip1 = ip1
    ip2 = ip2
    Keys = {ip1, ip2}
    Calls = {c1, c2, c3, c4, c5}
    Burst = 2
    Cost = 3
    Refill = 2
    MaxKeys = 1
    Skew = 1
    MaxTime = 5
SYMMETRY Symmetry
SPECIFICATION Spec
INVARIANTS
    TypeOK
    WithinBudget
    RetryAfterIsEnough
CHECK_DEADLOCK FALSE
