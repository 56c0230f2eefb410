SPECIFICATION FairSpec
CONSTANTS
    WAYS = 1
    POLICY = "DIRECT"
    Tags = {0, 1}
    Indexes = {0}
    BLOCK_SIZE = 2
    DELAY = 4
    CodeBlocks <- TagZero
INVARIANTS
    LoadsCurrent
PROPERTIES
    ActsAsPort
    Answers
    LeavesBus
