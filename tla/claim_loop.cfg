SPECIFICATION Spec
CONSTANTS
    N = 3
    Faulty <- NoFaulty
    Ops = {o1}
    Namespaces <- OneNamespace
    Messages <- OneMessage
    Cap = 1
    Skew = 0
    MaxTime = 1
    MaxRestarts = 0
PROPERTY StopsOnlyWhenOutOfResponses
CHECK_DEADLOCK FALSE
