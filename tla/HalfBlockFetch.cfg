SPECIFICATION Spec
CONSTANTS
    BLOCK_SIZE = 4
    FETCH_WORDS = 2
    NUM_WORDS = 8
    Targets = {1}
PROPERTIES
    FollowsStream
