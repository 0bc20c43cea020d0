SPECIFICATION Spec
CONSTANTS
    N = 3
    Faulty <- NoFaulty
    Namespaces <- OneNamespace
    Subscribed <- Feed
    Messages <- OneMessage
    Cap = 1
    Skew = 0
    MaxTime = 0
    QueueCap = 2
    ChannelCap = 2
    MapCap = 1
    OutCap = 1
    MaxHandled = 2
    MaxRestarts = 0
INVARIANT SignedByQuorum
CHECK_DEADLOCK FALSE
