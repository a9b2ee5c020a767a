\* Two requests of one step, one of which may be aborted, two calls, a signal or
\* a failure of the executor at any moment.
CONSTANTS
    Requests <- Two
    Calls <- Two
    Ops = {"hold_keep", "sleep_wait", "resume", "wake_part"}
    Steps <- OneEach
    QueueSize = 2
    MaxRunning = 2
    Aborted = {1}
    MaxInputs = 2
    Late = FALSE
    Patient = TRUE
SPECIFICATION FairSpec
INVARIANTS AbortsHold PauseHolds ResidentToRun NoneForgotten
PROPERTIES CallsAnswered EngineEnds
