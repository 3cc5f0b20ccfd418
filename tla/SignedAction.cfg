SPECIFICATION Spec
CONSTANTS
    NULL = NULL
    BlockSize = 136
    Prime = 19
    Order = 13
    G <- MCG
    WordMax = 31
    MaxTries = 2
    Blinds = {1, 6}
    Calls <- MCCalls
    Digests = {0, 5, 13, 30}
INVARIANTS SignatureIsOfSentCore SentActionVerifies SenderRecovered SentActionWhole RefusedOnlyForRoom
