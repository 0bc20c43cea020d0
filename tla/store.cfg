SPECIFICATION Spec
CONSTANTS
    N = 1
    Faulty <- NoFaulty
    Ops = {o1, o2, o3}
    Namespaces <- OneNamespace
    Messages <- ThreeMessages
    Cap = 2
    Skew = 0
    MaxTime = 2
    MaxRestarts = 1
INVARIANTS StoreSound NoPanic
PROPERTY DropsOnlyOldest
SYMMETRY CallSymmetry
CHECK_DEADLOCK FALSE
