\* The signings are bounded.
SPECIFICATION Spec
CONSTANTS
    Zeros = Zeros
    InitialHash = InitialHash
    Uninitialized = Uninitialized
    k1 = k1
    k2 = k2
    h1 = h1
    h2 = h2
    Plans <- MCPlans
    MaxSignings = 2
INVARIANTS GeneratesByTheStandard NoncesDiffer
CHECK_DEADLOCK FALSE
