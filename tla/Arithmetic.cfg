\* The calls in a row are bounded.
SPECIFICATION Spec
CONSTANTS
    NLimbs = 3
    LimbBits = 8
    Moduli <- MCModuli
    Data <- MCData
    MaxSteps = 2
INVARIANTS ResultKept AssertionsHold WrittenReadBack
CHECK_DEADLOCK FALSE
