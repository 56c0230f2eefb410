SPECIFICATION FairSpec
CONSTANTS
    BLOCK_SIZE = 2
    FETCH_WORDS = 2
    NUM_WORDS = 4
    Targets = {1, 2}
INVARIANTS
    TypeOK
    FetchPosition
    NoOverflow
PROPERTIES
    FollowsStream
    Delivers
