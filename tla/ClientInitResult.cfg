SPECIFICATION Spec
CONSTANTS
    NULL = NULL
    NoPath = NoPath
    NoConfig = NoConfig
    etc_ssl = etc_ssl
    ca_bundle = ca_bundle
    Paths <- MCPaths
    CertDirs <- MCCertDirs
    CertFiles <- MCCertFiles
    Versions = {0, 1, 2}
    MaxRes = 3
    ChunkSizes = {1, 2}
    MaxBody = 3
    ArgLens = {41, 300}
    PackedLens = {0, 1, 1023}
    Totals <- MCTotals
    MaxActions = 2
INVARIANT InitialisedCallsSupported
