SPECIFICATION FairSpec
CONSTANTS
    N = 3
    Faulty <- NoFaulty
    Namespaces <- OneNamespace
    Subscribed <- Feed
    Messages <- TwoMessages
    Cap = 1
    Skew = 0
    MaxTime = 0
    QueueCap = 1
    ChannelCap = 2
    MapCap = 1
    OutCap = 1
    MaxHandled = 3
    MaxRestarts = 1
INVARIANTS TypeOK ConnectedIsActive StreamSound RepeatsGrow
PROPERTIES LostOnlyAtLimits CertifiedEventually 
CHECK_DEADLOCK FALSE
