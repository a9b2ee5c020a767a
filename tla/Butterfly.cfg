SPECIFICATION FairSpec
CONSTANTS
    Rank <- MCTp4Rank
    Rounds = 2
    Peer <- MCFlyPeer
    NBlocks = 1
    NChunks = 1
    GridLimit <- MCFixedLimit
    AdvanceAll = FALSE
    LowerFirst = TRUE
    MaxCalls = 3
    FlagMod = 64
    Add <- MCOrderedAdd
    Input <- MCOrderedInput
    Zero <- MCOrderedZero
    Partial <- MCPartial
INVARIANT PeersAdjacent
PROPERTIES Implements AllCallsReturn
