\* No drafts, three batches in flight, blocks for one long request: requests
\* are preempted, reset and resumed in chunks narrower than a block, or the
\* scheduler is paused.
CONSTANTS
    r1 = r1
    r2 = r2
    Requests = {r1, r2}
    Prompt <- Short
    MaxOut <- UpTo3
    NumSpec = 0
    QueueSize = 3
    MaxRunning = 2
    BlockSize = 4
    HashBlock = 4
    MaxPrefill = 3
    UseEagle = FALSE
    Blocks = 2
    ModelLen = 6
    Aborts = 1
    Controls = {"reset", "pause"}
SPECIFICATION StageSpec
INVARIANTS InOrder FirstInputs
