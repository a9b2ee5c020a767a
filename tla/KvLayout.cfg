SPECIFICATION Spec
CONSTANTS
    Models <- MCModels
    Memories <- MCMemories
    Overrides = {0, 9}
    MlaPage = 3
    IndexPage = 1
    MlaBlocks = 2
    StateBlocks = 2
INVARIANTS StartsByRule SharersDisjoint CheckedRequestFits
