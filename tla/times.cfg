SPECIFICATION Spec
CONSTANTS
    N = 3
    Faulty <- NoFaulty
    Ops = {o1, o2}
    Namespaces <- OneNamespace
    Messages <- TwoMessages
    Cap = 1
    Skew = 0
    MaxTime = 2
    MaxRestarts = 0
INVARIANT CertifiedTimeInWindow
SYMMETRY CallSymmetry
CHECK_DEADLOCK FALSE
