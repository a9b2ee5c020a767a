SPECIFICATION FairSpec
CONSTANTS
    Pair <- MCPair
    Cross <- MCCross
    NBlocks = 2
    NChunks = 4
    OneshotMax = 1
    BulkThreshold = 2
    BlockLimit <- MCOneBlock
    Plans <- MCMixed
    MaxCalls = 3
    Add <- MCAdd
    Input <- MCInput
    Zero <- MCZero
INVARIANTS NoOverwrite Lockstep
PROPERTIES Implements AllCallsReturn
