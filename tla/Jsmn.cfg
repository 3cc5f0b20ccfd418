\* A tokenizer that has returned takes no further step.
SPECIFICATION Spec
CONSTANTS
    Documents <- MCDocuments
    MaxNoise = 5
    MaxMarks = 7
    Rooms = {0, 2, 3, 5, 100}
INVARIANTS DocumentsTokenized SuperiorIsParent CutOffRefused TokensInPlace
CHECK_DEADLOCK FALSE
