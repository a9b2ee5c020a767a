SPECIFICATION Spec
CONSTANTS
    Rank <- MCTp2Rank
    Rounds = 1
    Peer <- MCTp2Peer
    NBlocks = 2
    NChunks = 3
    GridLimit <- MCVaryLimit
    AdvanceAll = TRUE
    LowerFirst = FALSE
    MaxCalls = 4
    FlagMod = 64
    Add <- MCCommAdd
    Input <- MCCommInput
    Zero <- MCCommZero
    Partial <- MCPartial
INVARIANTS NoOverwrite FreshPayload UniformEpoch
