SPECIFICATION Spec
CONSTANTS
    N = 3
    Faulty <- LastFaulty
    Ops = {o1, o2}
    Namespaces <- OneNamespace
    Messages <- TwoMessages
    Cap = 1
    Skew = 0
    MaxTime = 1
    MaxRestarts = 1
INVARIANTS TypeOK NoConflict CertificateVerifies AvailableOnlyIfWritten WriteDeniedOnlyByFaults
SYMMETRY CallSymmetry
CHECK_DEADLOCK FALSE
