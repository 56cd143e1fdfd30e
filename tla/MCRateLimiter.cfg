\* Three requests of three keys over three windows, Redis failing, one restart.
SPECIFICATION Spec
CONSTANTS
    r1 = r1
    r2 = r2
    r3 = r3
    k1 = k1
    k2 = k2
    k3 = k3
    Keys = {k1, k2, k3}
    Limit = 1
    Capacity = 2
    Reqs = {r1, r2, r3}
    LastWindow = 2
    MaxRestarts = 1
SYMMETRY Symmetry
INVARIANTS
    TypeOK
    RedisBudget
    LocalBudget
    RejectionsAreEarned
    OldBucketsDropped
