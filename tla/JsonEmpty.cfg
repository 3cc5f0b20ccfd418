SPECIFICATION Spec
CONSTANTS
    Docs <- MCEmptyLists
    MaxSizes = {2}
INVARIANT Returns
