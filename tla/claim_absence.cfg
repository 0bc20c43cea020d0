SPECIFICATION Spec
CONSTANTS
    N = 3
    Faulty <- LastFaulty
    Ops = {o1}
    Namespaces <- OneNamespace
    Messages <- TwoMessages
    Cap = 1
    Skew = 0
    MaxTime = 1
    MaxRestarts = 0
INVARIANT AbsenceVerifies
CHECK_DEADLOCK FALSE
