SPECIFICATION Spec
CONSTANTS
    Docs <- AllLayouts
    MaxSizes = {0, 1, 2, 3}
INVARIANTS SoundStoredAtHome SuccessIsComplete AcceptsExactlyFitting SoundReturns StoredUnderKey
PROPERTY Terminates
