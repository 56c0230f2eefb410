SPECIFICATION Spec
CONSTANTS
    DRIS_NUM_ENTRIES = 2
    FETCH_WAYS = 1
    EXEC_UNITS = 1
    RETIRES_PER_CYCLE = 1
    NUM_SHELF_ENTRIES = 2
    Registers = {0, 1}
    Instrs <- SpeculativeLoads
    Accesses <- OneWord
INVARIANTS
    OwnResults
