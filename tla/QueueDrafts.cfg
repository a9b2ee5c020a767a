\* Draft tokens, three batches in flight, blocks for one prompt and a half.
CONSTANTS
    r1 = r1
    r2 = r2
    Requests = {r1, r2}
    Prompt <- Chunked
    MaxOut <- Output
    NumSpec = 1
    QueueSize = 3
    MaxRunning = 2
    BlockSize = 4
    HashBlock = 2
    MaxPrefill = 8
    UseEagle = TRUE
    Blocks = 5
    ModelLen = 16
    Aborts = 1
    Controls = {"reset", "pause"}
SPECIFICATION Spec
INVARIANTS OneDecodeStep InFlightExact WorkerReady DraftsFollow
