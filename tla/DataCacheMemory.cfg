SPECIFICATION Spec
CONSTANTS
    WAYS = 2
    POLICY = "LRU"
    Tags = {0, 1, 2}
    Indexes = {0}
    BLOCK_SIZE = 2
    DELAY = 2
    CodeBlocks = {}
INVARIANTS
    TypeOK
    LoadsCurrent
    NeverLost
    CleanMatches
    SnapshotFresh
    InStep
    OneVictim
