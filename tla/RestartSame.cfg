SPECIFICATION Spec
CONSTANTS
    Lane = 4
    XLEN = 8
    BitAnd <- And8
    BitOr <- Or8
    BitXor <- Xor8
    ShiftLeft <- Shl8
    ShiftRight <- Shr8
    USER_TEXT_START = 16
    USER_DATA_START = 64
    STACK_START = 112
    STACK_END = 120
    KERNEL_TEXT_START = 128
    KERNEL_DATA_START = 160
    DataFile <- MCDataFile
    StackContents <- OneStack
    Decode <- MCDecode
    RISCV_NUM_REGS = 5
    REG_SP = 2
    REG_GP = 3
    REG_A0 = 4
    ECALL_ARG_HALT = 10
    MaxCycle = 2
    Lines <- RestartLines
    FirstProgram <- Dotted
    StalePaths <- SamePath
    Strtol <- MCStrtol
    PathOf <- MCPathOf
    NamedRegister <- MCNamedRegister
    Encodings <- MCIsa
    MaxCommands = 3
PROPERTY
    RestartSame
CHECK_DEADLOCK FALSE
