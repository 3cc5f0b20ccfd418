SPECIFICATION SpongeSpec
CONSTANTS
    BlockSize = 3
    Chunks <- MCChunks
    MaxFed = 9
INVARIANT DigestOfInput
