\* Drafts, and blocks for one request: a decode is preempted.
CONSTANTS
    r1 = r1
    r2 = r2
    Requests = {r1, r2}
    Prompt <- Short
    MaxOut <- UpTo4
    NumSpec = 1
    QueueSize = 2
    MaxRunning = 2
    BlockSize = 2
    HashBlock = 2
    MaxPrefill = 8
    UseEagle = TRUE
    Blocks = 6
    ModelLen = 8
    Aborts = 0
    Controls = {}
SPECIFICATION StageSpec
INVARIANT FirstInputs
