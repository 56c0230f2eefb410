SPECIFICATION Spec
CONSTANTS
    DRIS_NUM_ENTRIES = 4
    FETCH_WAYS = 2
    EXEC_UNITS = 2
    RETIRES_PER_CYCLE = 2
    NUM_SHELF_ENTRIES = 3
    Registers = {0, 1}
    Instrs <- DataflowMix
    Accesses <- OneWord
INVARIANTS
    TypeOK
    ValidWindow
    LockersExact
    OwnResults
    ShelfMatchesDris
    InFlight
    Underway
PROPERTIES
    RetireRightPathOnly
    RoomLostByIntake
    TrapIsFinal
