------------------------------- MODULE RefSim -------------------------------
(***************************************************************************)
(* sim.c, the processor of the reference simulator: what one call of       *)
(* process_instruction does to the processor, and what it records in the   *)
(* memory trace.  Instructions are records of their fields; the immediate  *)
(* is already extended to a word (RefImmediates is about how).             *)
(***************************************************************************)
EXTENDS RefMemory

CONSTANTS
    Decode(_),          \* the fields of a word taken as an instruction
    RISCV_NUM_REGS, REG_SP, REG_GP, REG_A0,
    ECALL_ARG_HALT,
    MaxCycle            \* bound: the cycle counter stays there

Registers == 0 .. RISCV_NUM_REGS - 1

ASSUME RegisterAssumption ==
    /\ RISCV_NUM_REGS \in Nat
    /\ {REG_SP, REG_GP, REG_A0} \subseteq Registers \ {0}
    /\ REG_SP # REG_GP
    /\ ECALL_ARG_HALT \in Word
    /\ MaxCycle \in Nat

Instruction ==
    [opcode : {"OP", "IMM", "LOAD", "STORE", "LUI", "AUIPC", "JAL", "JALR", "BRANCH",
               "SYSTEM", "unknown"},
     funct3 : STRING, funct7 : STRING,
     rd : Registers, rs1 : Registers, rs2 : Registers, imm : Word]

\* A word that was not fetched reads as 0, which is no instruction.
ASSUME DecodeAssumption ==
    /\ \A w \in Word : Decode(w) \in Instruction
    /\ Decode(0).opcode = "unknown"

\* One line of the memory trace.
NoAccess == [is_store |-> FALSE, addr |-> 0, mask |-> {}, data |-> 0]

Access(is_store, addr, mask, data) ==
    [is_store |-> is_store, addr |-> addr, mask |-> mask, data |-> data]

register_write(registers, rd, value) ==
    IF rd = 0 THEN registers ELSE [registers EXCEPT ![rd] = value]

Halt(cpu) == [cpu EXCEPT !.halted = TRUE]

NextPc(cpu) == [cpu EXCEPT !.pc = Add(@, 4)]

\* rd := value and on to the next instruction.
WriteBack(cpu, rd, value) ==
    NextPc([cpu EXCEPT !.registers = register_write(@, rd, value)])

HaltIf(cpu, fault) == [cpu EXCEPT !.halted = @ \/ fault]

LessSigned(x, y) == Signed(x) < Signed(y)

\* The arithmetic of OP_OP and OP_IMM on their two operands.
Arithmetic(funct3, alternate, x, y) ==
    CASE funct3 = "ADD_SUB" -> IF alternate THEN Sub(x, y) ELSE Add(x, y)
      [] funct3 = "SLL"     -> ShiftLeft(x, Amount(y))
      [] funct3 = "SLT"     -> Truth(LessSigned(x, y))
      [] funct3 = "SLTU"    -> Truth(x < y)
      [] funct3 = "XOR"     -> BitXor(x, y)
      [] funct3 = "SRL_SRA" -> IF alternate THEN ShiftRightArith(x, Amount(y))
                                            ELSE ShiftRight(x, Amount(y))
      [] funct3 = "OR"      -> BitOr(x, y)
      [] funct3 = "AND"     -> BitAnd(x, y)
      [] OTHER              -> 0

ArithmeticCodes == {"ADD_SUB", "SLL", "SLT", "SLTU", "XOR", "SRL_SRA", "OR", "AND"}

\* Comparisons, XOR, OR and AND do not look at funct7.
op_known(i) ==
    /\ i.funct3 \in ArithmeticCodes
    /\ i.funct3 \in {"ADD_SUB", "SRL_SRA"} => i.funct7 \in {"INT", "ALT_INT"}
    /\ i.funct3 = "SLL" => i.funct7 = "INT"

OP_OP(cpu, i) ==
    IF op_known(i)
    THEN WriteBack(cpu, i.rd,
             Arithmetic(i.funct3, i.funct7 = "ALT_INT" /\ i.funct3 \in {"ADD_SUB", "SRL_SRA"},
                        cpu.registers[i.rs1], cpu.registers[i.rs2]))
    ELSE Halt(cpu)

\* Only the shifts look at imm[11:5].
op_imm_known(i) ==
    /\ i.funct3 \in ArithmeticCodes
    /\ i.funct3 = "SLL" => i.funct7 = "INT"
    /\ i.funct3 = "SRL_SRA" => i.funct7 \in {"INT", "ALT_INT"}

OP_IMM(cpu, i) ==
    IF op_imm_known(i)
    THEN WriteBack(cpu, i.rd,
             Arithmetic(i.funct3, i.funct7 = "ALT_INT" /\ i.funct3 = "SRL_SRA",
                        cpu.registers[i.rs1], i.imm))
    ELSE Halt(cpu)

\* The bytes a load or store of this funct3 touches.
AccessSize(funct3) ==
    CASE funct3 \in {"LB", "LBU", "SB"} -> 1
      [] funct3 \in {"LH", "LHU", "SH"} -> 2
      [] OTHER -> 4

LoadCodes == {"LB", "LH", "LW", "LBU", "LHU"}

StoreCodes == {"SB", "SH", "SW"}

Address(cpu, i) == Add(cpu.registers[i.rs1], i.imm)

aligned_addr(addr) == addr - (addr % 4)

\* LW asks for the address itself, the others for the word around it.
WordAsked(i, addr) == IF AccessSize(i.funct3) = 4 THEN addr ELSE aligned_addr(addr)

OP_LOAD(cpu, i) ==
    LET size   == AccessSize(i.funct3)
        addr   == Address(cpu, i)
        index  == IF size = 4 THEN 0 ELSE addr % 4
        result == TakeLanes(mem_read32(cpu.segments, WordAsked(i, addr)), index, size)
        value  == IF i.funct3 \in {"LB", "LH"} THEN SignExtend(result, size) ELSE result
    IN  IF i.funct3 \notin LoadCodes THEN [cpu |-> Halt(cpu), access |-> NoAccess]
        ELSE [cpu |-> HaltIf(WriteBack(cpu, i.rd, value),
                             AccessFaults(cpu.segments, WordAsked(i, addr))),
              access |-> Access(FALSE, addr, LaneMask(index, size),
                                PutLanes(0, index, size, result))]

\* Fault: the bytes around the stored ones are cleared.
StoreClears(cpu, i) ==
    LET size  == AccessSize(i.funct3)
        addr  == Address(cpu, i)
        index == IF size = 4 THEN 0 ELSE addr % 4
        value == cpu.registers[i.rs2]
        data  == PutLanes(0, index, size, value)
    IN  IF i.funct3 \notin StoreCodes THEN [cpu |-> Halt(cpu), access |-> NoAccess]
        ELSE [cpu |-> NextPc(HaltIf([cpu EXCEPT !.segments = mem_write32(@, WordAsked(i, addr), data)],
                                    AccessFaults(cpu.segments, WordAsked(i, addr)))),
              access |-> Access(TRUE, addr, LaneMask(index, size),
                                PutLanes(0, index, size, value))]

\* The word around the address is read, changed and written back; the access is
\* recorded before mem_write32 finds out whether it is allowed.
OP_STORE(cpu, i) ==
    LET size  == AccessSize(i.funct3)
        addr  == Address(cpu, i)
        index == IF size = 4 THEN 0 ELSE addr % 4
        value == cpu.registers[i.rs2]
        data  == IF size = 4 THEN value
                 ELSE PutLanes(mem_read32(cpu.segments, aligned_addr(addr)), index, size, value)
    IN  IF i.funct3 \notin StoreCodes THEN [cpu |-> Halt(cpu), access |-> NoAccess]
        ELSE [cpu |-> NextPc(HaltIf([cpu EXCEPT !.segments = mem_write32(@, WordAsked(i, addr), data)],
                                    AccessFaults(cpu.segments, WordAsked(i, addr)))),
              access |-> Access(TRUE, addr, LaneMask(index, size),
                                PutLanes(0, index, size, value))]

OP_LUI(cpu, i) == WriteBack(cpu, i.rd, i.imm)

OP_AUIPC(cpu, i) == WriteBack(cpu, i.rd, Add(i.imm, cpu.pc))

OP_JAL(cpu, i) ==
    [cpu EXCEPT !.registers = register_write(@, i.rd, Add(cpu.pc, 4)),
                !.pc = Add(@, i.imm)]

\* Fault: rd is written before the target is computed.
JalrWritesFirst(cpu, i) ==
    LET linked == register_write(cpu.registers, i.rd, Add(cpu.pc, 4))
        target == Add(linked[i.rs1], i.imm)
    IN  [cpu EXCEPT !.registers = linked, !.pc = target - (target % 2)]

\* The target is computed before rd is written, which may be rs1.
OP_JALR(cpu, i) ==
    LET target == Add(cpu.registers[i.rs1], i.imm) IN
    [cpu EXCEPT !.registers = register_write(@, i.rd, Add(cpu.pc, 4)),
                !.pc = target - (target % 2)]

BranchCodes == {"BEQ", "BNE", "BLT", "BGE", "BLTU", "BGEU"}

BranchTaken(funct3, x, y) ==
    CASE funct3 = "BEQ"  -> x = y
      [] funct3 = "BNE"  -> x # y
      [] funct3 = "BLT"  -> LessSigned(x, y)
      [] funct3 = "BGE"  -> ~LessSigned(x, y)
      [] funct3 = "BLTU" -> x < y
      [] funct3 = "BGEU" -> x >= y
      [] OTHER           -> FALSE

OP_BRANCH(cpu, i) ==
    IF i.funct3 \notin BranchCodes THEN Halt(cpu)
    ELSE IF BranchTaken(i.funct3, cpu.registers[i.rs1], cpu.registers[i.rs2])
         THEN [cpu EXCEPT !.pc = Add(@, i.imm)]
         ELSE NextPc(cpu)

\* funct12 of a system instruction is its immediate; ECALL is 0.
OP_SYSTEM(cpu, i) ==
    IF i.imm # 0 \/ cpu.registers[REG_A0] = ECALL_ARG_HALT THEN Halt(cpu) ELSE NextPc(cpu)

\* The switch over the opcode.
Execute(cpu, i) ==
    CASE i.opcode = "LOAD"  -> OP_LOAD(cpu, i)
      [] i.opcode = "STORE" -> OP_STORE(cpu, i)
      [] OTHER ->
           [access |-> NoAccess,
            cpu |-> CASE i.opcode = "OP"     -> OP_OP(cpu, i)
                      [] i.opcode = "IMM"    -> OP_IMM(cpu, i)
                      [] i.opcode = "LUI"    -> OP_LUI(cpu, i)
                      [] i.opcode = "AUIPC"  -> OP_AUIPC(cpu, i)
                      [] i.opcode = "JAL"    -> OP_JAL(cpu, i)
                      [] i.opcode = "JALR"   -> OP_JALR(cpu, i)
                      [] i.opcode = "BRANCH" -> OP_BRANCH(cpu, i)
                      [] i.opcode = "SYSTEM" -> OP_SYSTEM(cpu, i)
                      [] OTHER               -> Halt(cpu)]

\* A fetch that faults halts the processor, and the 0 it returns is executed.
process_instruction(cpu) ==
    Execute(HaltIf(cpu, AccessFaults(cpu.segments, cpu.pc)),
            Decode(mem_read32(cpu.segments, cpu.pc)))

\* process_instruction and the cycle counter of run_simulator.
RunCycle(cpu) ==
    LET done == process_instruction(cpu) IN
    [done EXCEPT !.cpu.cycle = IF @ < MaxCycle THEN @ + 1 ELSE @]

=============================================================================
