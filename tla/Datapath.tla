------------------------------ MODULE Datapath ------------------------------
(***************************************************************************)
(* What the core's data path computes for one instruction, from its        *)
(* operands to the values the commit seam reports: riscv_decode.sv, the    *)
(* operand multiplexers of Scheduler.sv, riscv_alu, IntExecutionUnit.sv,   *)
(* and the load and store lanes of LightningCore.sv and                    *)
(* MemoryScheduler.sv.  When each of these steps happens is Dris's and     *)
(* LightningCore's business.                                               *)
(***************************************************************************)
EXTENDS RefSim, RefImmediates

Signals == [useImm |-> FALSE, usePC |-> FALSE, rfWrite |-> FALSE, memRead |-> FALSE,
            memWrite |-> FALSE, syscall |-> FALSE, illegal_instr |-> FALSE,
            alu_op |-> "DC", pc_source |-> "plus4"]

Illegal(signals) == [signals EXCEPT !.illegal_instr = TRUE]

\* alu_op of an R-type instruction, "illegal" for an encoding it does not know.
rtype_alu_op(i) ==
    CASE i.funct7 = "ALT_INT" /\ i.funct3 = "ADD_SUB" -> "SUB"
      [] i.funct7 = "ALT_INT" /\ i.funct3 = "SRL_SRA" -> "SRA"
      [] i.funct7 = "INT" /\ i.funct3 = "ADD_SUB"     -> "ADD"
      [] i.funct7 = "INT" /\ i.funct3 = "SRL_SRA"     -> "SRL"
      [] i.funct7 = "INT" /\ i.funct3 \in ArithmeticCodes \ {"ADD_SUB", "SRL_SRA"} -> i.funct3
      [] OTHER                                        -> "illegal"

\* alu_op of an I-type instruction; SLLI does not look at imm[11:5].
itype_alu_op(i) ==
    CASE i.funct3 = "ADD_SUB"                         -> "ADD"
      [] i.funct3 = "SRL_SRA" /\ i.funct7 = "INT"     -> "SRL"
      [] i.funct3 = "SRL_SRA" /\ i.funct7 = "ALT_INT" -> "SRA"
      [] i.funct3 \in ArithmeticCodes \ {"ADD_SUB", "SRL_SRA"} -> i.funct3
      [] OTHER                                        -> "illegal"

WithAluOp(signals, alu_op) ==
    IF alu_op = "illegal" THEN Illegal(signals) ELSE [signals EXCEPT !.alu_op = alu_op]

riscv_decode(i) ==
    CASE i.opcode = "AUIPC"  -> [Signals EXCEPT !.useImm = TRUE, !.usePC = TRUE,
                                                !.rfWrite = TRUE, !.alu_op = "ADD"]
      [] i.opcode = "LUI"    -> [Signals EXCEPT !.useImm = TRUE, !.rfWrite = TRUE,
                                                !.alu_op = "PASS"]
      [] i.opcode = "OP"     -> WithAluOp([Signals EXCEPT !.rfWrite = TRUE], rtype_alu_op(i))
      [] i.opcode = "IMM"    -> WithAluOp([Signals EXCEPT !.useImm = TRUE, !.rfWrite = TRUE],
                                          itype_alu_op(i))
      [] i.opcode = "LOAD"   -> WithAluOp([Signals EXCEPT !.useImm = TRUE, !.rfWrite = TRUE,
                                                          !.memRead = TRUE],
                                          IF i.funct3 \in LoadCodes THEN "ADD" ELSE "illegal")
      [] i.opcode = "JAL"    -> [Signals EXCEPT !.useImm = TRUE, !.usePC = TRUE, !.rfWrite = TRUE,
                                                !.alu_op = "ADD4", !.pc_source = "uncond"]
      [] i.opcode = "JALR"   -> [Signals EXCEPT !.useImm = TRUE, !.usePC = TRUE, !.rfWrite = TRUE,
                                                !.alu_op = "ADD4", !.pc_source = "indirect"]
      [] i.opcode = "STORE"  -> [Signals EXCEPT !.useImm = TRUE, !.memWrite = TRUE,
                                                !.alu_op = "ADD"]
      [] i.opcode = "BRANCH" -> WithAluOp([Signals EXCEPT !.pc_source = "cond"],
                                          IF i.funct3 \in BranchCodes THEN i.funct3 ELSE "illegal")
      [] i.opcode = "SYSTEM" /\ i.imm = 0 -> [Signals EXCEPT !.syscall = TRUE, !.alu_op = "PASS"]
      [] OTHER               -> Illegal(Signals)

\* ECALL reads a0 through both source ports.
source(i, rs) == IF riscv_decode(i).syscall THEN REG_A0 ELSE rs

operand_1(registers, pc, i) ==
    IF riscv_decode(i).usePC THEN pc ELSE registers[source(i, i.rs1)]

operand_2(registers, i) ==
    IF riscv_decode(i).useImm THEN i.imm ELSE registers[source(i, i.rs2)]

riscv_alu(alu_op, x, y) ==
    CASE alu_op = "ADD"  -> Add(x, y)
      [] alu_op = "ADD4" -> Add(x, 4)
      [] alu_op = "SUB"  -> Add(x, Add(Not(y), 1))
      [] alu_op = "SLL"  -> ShiftLeft(x, Amount(y))
      [] alu_op = "SRL"  -> ShiftRight(x, Amount(y))
      [] alu_op = "SRA"  -> ShiftRightArith(x, Amount(y))
      [] alu_op = "XOR"  -> BitXor(x, y)
      [] alu_op = "OR"   -> BitOr(x, y)
      [] alu_op = "AND"  -> BitAnd(x, y)
      [] alu_op = "SLT"  -> Truth(Signed(x) < Signed(y))
      [] alu_op = "SLTU" -> Truth(x < y)
      [] alu_op = "BEQ"  -> Truth(x = y)
      [] alu_op = "BNE"  -> Truth(x # y)
      [] alu_op = "BLT"  -> Truth(Signed(x) < Signed(y))
      [] alu_op = "BGE"  -> Truth(Signed(x) >= Signed(y))
      [] alu_op = "BLTU" -> Truth(x < y)
      [] alu_op = "BGEU" -> Truth(x >= y)
      [] alu_op = "PASS" -> y
      [] OTHER           -> 0

alu_out(registers, pc, i) ==
    riscv_alu(riscv_decode(i).alu_op, operand_1(registers, pc, i), operand_2(registers, i))

\* next_pc_logic; the target of JALR uses rs1, its ALU operand is the pc.
next_pc(registers, pc, i) ==
    LET pc_source == riscv_decode(i).pc_source
        indirect  == Add(registers[i.rs1], i.imm)
    IN  CASE pc_source = "cond" /\ alu_out(registers, pc, i) = 1 -> Add(pc, i.imm)
          [] pc_source = "uncond"   -> Add(pc, i.imm)
          [] pc_source = "indirect" -> indirect - (indirect % 2)
          [] OTHER                  -> Add(pc, 4)

\* Where the lanes of an access start: by both low address bits for a byte, by
\* the upper one for a halfword.
LaneOffset(funct3, addr) ==
    CASE AccessSize(funct3) = 1 -> addr % 4
      [] AccessSize(funct3) = 2 -> 2 * ((addr % 4) \div 2)
      [] OTHER -> 0

get_byte_mask(funct3, addr) == LaneMask(LaneOffset(funct3, addr), AccessSize(funct3))

\* The word the D-cache returned, to the value written back.
get_load_data(funct3, addr, word) ==
    LET field == TakeLanes(word, LaneOffset(funct3, addr), AccessSize(funct3)) IN
    IF funct3 \in {"LB", "LH"} THEN SignExtend(field, AccessSize(funct3)) ELSE field

get_store_data(funct3, addr, rs2_data) ==
    PutLanes(0, LaneOffset(funct3, addr), AccessSize(funct3), rs2_data)

\* The D-cache writes the lanes of the mask and leaves the others.
MergeLanes(word, mask, data) ==
    FromLanes([l \in Lanes |-> IF l \in mask THEN get_byte(data, l) ELSE get_byte(word, l)])

\* The rd value that retires, given the word memory holds at the address.
RetiredValue(registers, pc, i, word) ==
    IF riscv_decode(i).memRead THEN get_load_data(i.funct3, alu_out(registers, pc, i), word)
                               ELSE alu_out(registers, pc, i)

\* commit_mem_seam: a load's extended value is put back into its lanes.
commit_mem_seam(registers, pc, i, word) ==
    LET addr   == alu_out(registers, pc, i)
        offset == IF AccessSize(i.funct3) = 4 THEN 0 ELSE addr % 4
    IN  CASE riscv_decode(i).memRead ->
               Access(FALSE, addr, get_byte_mask(i.funct3, addr),
                      PutLanes(0, offset, AccessSize(i.funct3),
                               get_load_data(i.funct3, addr, word)))
          [] riscv_decode(i).memWrite ->
               Access(TRUE, addr, get_byte_mask(i.funct3, addr),
                      get_store_data(i.funct3, addr, registers[i.rs2]))
          [] OTHER -> NoAccess

\* What makes DRIS set the trap bit.
traps(registers, pc, i) ==
    \/ riscv_decode(i).illegal_instr
    \/ riscv_decode(i).syscall /\ alu_out(registers, pc, i) = ECALL_ARG_HALT

-----------------------------------------------------------------------------
(* The two implementations side by side. *)

\* The encodings both sides define: RV32I's, without an unaligned access.
Comparable(cpu, i) ==
    /\ ~riscv_decode(i).illegal_instr
    /\ i.opcode = "IMM" /\ i.funct3 = "SLL" => i.funct7 = "INT"
    /\ i.opcode = "STORE" => i.funct3 \in StoreCodes
    /\ i.opcode \in {"LOAD", "STORE"} =>
          /\ Address(cpu, i) % AccessSize(i.funct3) = 0
          /\ ~AccessFaults(cpu.segments, aligned_addr(Address(cpu, i)))

\* The reference executes instruction i of a running processor as the data path
\* does: same register, next pc, trace line, word in memory, and same verdict.
Agrees(cpu, i) ==
    LET ref  == Execute(cpu, i)
        word == mem_read32(cpu.segments, aligned_addr(Address(cpu, i)))
        seam == commit_mem_seam(cpu.registers, cpu.pc, i, word)
        trap == traps(cpu.registers, cpu.pc, i)
        rd   == IF riscv_decode(i).rfWrite THEN i.rd ELSE 0
    IN  /\ ref.cpu.halted = trap
        /\ ref.access = seam
        /\ ref.cpu.registers =
              register_write(cpu.registers, rd, RetiredValue(cpu.registers, cpu.pc, i, word))
        /\ ~trap => ref.cpu.pc = next_pc(cpu.registers, cpu.pc, i)
        /\ i.opcode = "STORE" =>
              mem_read32(ref.cpu.segments, aligned_addr(Address(cpu, i)))
                  = MergeLanes(word, seam.mask, seam.data)

=============================================================================
