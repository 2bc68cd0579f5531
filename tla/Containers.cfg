CONSTANTS
    Keys = {1, 2, 5}
    v1 = v1
    v2 = v2
    Vals = {v1, v2}
    Hash <- Hashes
    INITIAL_MAX = 1
    Overlays <- SomeOverlays
    PoolMayFail = TRUE
    SkipKeys = {1, 2, 3, 4}
    SkipLevels = 3
    CmapKeys <- IntKeys
    CmapHash <- hash_func_int
    CmapSize = 4
    RingNodes = {1, 2, 3, 4}
    ListNodes = {1, 2, 3, 4}
SPECIFICATION AllSpec
INVARIANTS
    TypeOK ChainsSound IterationComplete
    SkipIsSortedMap ChainedIsMap ListsAreSequences
PROPERTY ImplementsMap
SYMMETRY Symmetry
\* a crashed program, and a container that is destroyed or hangs, stops
CHECK_DEADLOCK FALSE
