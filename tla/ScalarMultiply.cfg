\* A call that has returned takes no further step.
SPECIFICATION Spec
CONSTANTS
    NLimbs = 3
    LimbBits = 8
    Prime = 1048423
    Order = 1046701
    A = 0
    Table <- MCTable
    Scalars <- MCScalars
    Blinds <- MCBlinds
    Inverses <- MCInverses
INVARIANTS InverseRight SumOfDigits ResultIsMultiple
CHECK_DEADLOCK FALSE
