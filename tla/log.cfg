SPECIFICATION FairSpec
CONSTANTS
    N = 3
    Faulty <- LastFaulty
    Namespaces <- OneNamespace
    Messages <- TwoMessages
    Spans <- SecondTime
    Cap = 1
    Skew = 0
    MaxTime = 1
    MaxWrites = 2
    MaxRestarts = 1
    MaxFaultyLog = 1
INVARIANTS TypeOK LogSound LogComplete CertifiedFollowsLog CertifiedComplete
PROPERTY ReadTermination
CHECK_DEADLOCK FALSE
