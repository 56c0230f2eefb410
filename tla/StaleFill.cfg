SPECIFICATION Spec
CONSTANTS
    WAYS = 1
    POLICY = "DIRECT"
    Tags = {0, 1}
    Indexes = {0}
    BLOCK_SIZE = 1
    DELAY = 4
    CodeBlocks <- TagZero
INVARIANTS
    FillIsAnswer
