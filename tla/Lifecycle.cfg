SPECIFICATION FairSpec
CONSTANTS
    Rank <- MCFour
    Peers <- MCFourPeers
    Arch <- MCArch
    Gpu <- MCGpu
    Supported <- MCSupported
    CloseMayFail = TRUE
    MaxCalls = 1
    MaxLog = 9
INVARIANTS CollectivesMatch ExportersFreeLast KernelMemoryLive NothingLeaks
PROPERTIES Implements EveryoneEnds
CHECK_DEADLOCK FALSE
