SPECIFICATION Spec
CONSTANTS
    NULL = NULL
    Modulus = 256
    RawMaxLen = 4
    TransformFactor = 3
    Raus <- MCRaus
    Numbers <- MCNumbers
    Compared <- MCCompared
    Rooms <- MCRooms
    HexTexts <- MCHexTexts
    Contracts <- MCContracts
    Binaries <- MCBinaries
    Inputs <- MCInputs
    Orders <- MCOrders
    Replies <- MCReplies
INVARIANTS RauKept NumberKept BuildsAgree InPlaceAgrees ContractBytesWhole PublishReadable OrderReadBack ReadsInsideReply
