SPECIFICATION Spec
CONSTANTS
    Docs <- MCAnyOrder
    MaxSizes = {1}
INVARIANT StoredAtHome
