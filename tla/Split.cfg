\* Blocks of 4 tokens with 2-token hash blocks; a chunk holds up to 6 tokens.
CONSTANTS
    BlockSize = 4
    HashBlock = 2
    MaxPrefill = 6
    UseEagle = TRUE
    MaxTokens = 14
SPECIFICATION FairSpec
INVARIANTS EndsAligned CacheStopsVisited
PROPERTIES PrefillEnds
