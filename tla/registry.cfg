SPECIFICATION ContractSpec
CONSTANTS
    Addresses = {a1, a2}
    Keys = {k1, k2}
    NoAddress = zero
    NoKey = empty
    MinimumStake = 1
    MaxStake = 2
    MaxIndex = 3
    MaxDepth = 2
INVARIANTS RegistryTypeOK Solvent AddressesExact LookupSound IndexNeverReassigned
CHECK_DEADLOCK FALSE
