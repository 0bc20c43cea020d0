SPECIFICATION FairSpec
CONSTANTS
    N = 3
    Faulty <- NoFaulty
    Ops = {o1, o2}
    Namespaces <- OneNamespace
    Messages <- TwoMessages
    Cap = 2
    Skew = 0
    MaxTime = 1
    MaxRestarts = 0
PROPERTIES ImplementsAvailability Termination
CHECK_DEADLOCK FALSE
