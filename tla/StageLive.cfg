\* Drafts, and room and budget for both requests in every step, so that none
\* leaves the batch before its end.
CONSTANTS
    r1 = r1
    r2 = r2
    Requests = {r1, r2}
    Prompt <- Long
    MaxOut <- UpTo4
    NumSpec = 1
    QueueSize = 2
    MaxRunning = 2
    BlockSize = 2
    HashBlock = 2
    MaxPrefill = 8
    UseEagle = TRUE
    Blocks = 12
    ModelLen = 9
    Aborts = 0
    Controls = {}
SPECIFICATION StageFairSpec
INVARIANTS FirstInputs BroadcastsMatch
PROPERTIES EveryRequestEnds
