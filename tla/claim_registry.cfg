SPECIFICATION Spec
CONSTANTS
    Addresses = {a1}
    Keys = {k1}
    ParsableKeys = {k1}
    NoAddress = zero
    NoKey = empty
    MinimumStake = 1
    MaxStake = 1
    MaxIndex = 1
    MaxDepth = 1
INVARIANT AllValidatorsListed
CHECK_DEADLOCK FALSE
