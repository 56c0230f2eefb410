---------------------------- MODULE RefImmediates ----------------------------
(***************************************************************************)
(* How the immediate of an instruction is put together: by shifts and      *)
(* masks in sim.c, by concatenation in ImmediateGenerator (core/lib.sv).   *)
(* A word is followed symbolically: each of its bits is the set of         *)
(* instruction bits or-ed into it, and a 0 is the empty set.               *)
(***************************************************************************)
EXTENDS Integers, Sequences

WordBits == 0 .. 31

instr == [b \in WordBits |-> {b}]

Zero == {}

\* The C operators on words of bits.
Left(x, n) == [b \in WordBits |-> IF b >= n THEN x[b - n] ELSE Zero]

RightLogical(x, n) == [b \in WordBits |-> IF b + n <= 31 THEN x[b + n] ELSE Zero]

RightArith(x, n) == [b \in WordBits |-> x[IF b + n <= 31 THEN b + n ELSE 31]]

Mask(x, bits) == [b \in WordBits |-> IF b \in bits THEN x[b] ELSE Zero]

Or(x, y) == [b \in WordBits |-> x[b] \cup y[b]]

\* & with a mask of n ones.
Low(n) == 0 .. n - 1

-----------------------------------------------------------------------------
(* sim.c. *)

itype_imm == RightArith(instr, 20)

stype_offset == Or(Left(RightArith(instr, 25), 5), Mask(RightLogical(instr, 7), Low(5)))

utype_immed == Mask(instr, 12 .. 31)

\* The 21 bits of a jump offset, then extended from bit 20.
ujtype_bits ==
    Or(Or(Left(Mask(RightLogical(instr, 31), Low(1)), 20), Left(Mask(RightLogical(instr, 12), Low(8)), 12)),
       Or(Left(Mask(RightLogical(instr, 20), Low(1)), 11), Left(Mask(RightLogical(instr, 21), Low(10)), 1)))

ujtype_immed == RightArith(Left(ujtype_bits, 11), 11)

sbtype_offset ==
    Or(Or(Left(RightArith(instr, 31), 12), Left(Mask(RightLogical(instr, 7), Low(1)), 11)),
       Or(Left(Mask(RightLogical(instr, 25), Low(6)), 5), Left(Mask(RightLogical(instr, 8), Low(4)), 1)))

\* The immediate process_instruction uses with each opcode.
sim_immediate ==
    [IMM    |-> itype_imm,    LOAD  |-> itype_imm,    JALR   |-> itype_imm,
     STORE  |-> stype_offset, LUI   |-> utype_immed,  AUIPC  |-> utype_immed,
     JAL    |-> ujtype_immed, BRANCH |-> sbtype_offset]

-----------------------------------------------------------------------------
(* ImmediateGenerator.  A concatenation is the sequence of its bits, the most *)
(* significant one first; the high bits of one that is too wide are lost.     *)

\* instr[hi:lo], {n{instr[bit]}} and n zeros.
Slice(hi, lo) == [k \in 1 .. hi - lo + 1 |-> instr[hi - k + 1]]

Copies(n, bit) == [k \in 1 .. n |-> instr[bit]]

Zeroes(n) == [k \in 1 .. n |-> Zero]

Assigned(bits) == [b \in WordBits |-> bits[Len(bits) - b]]

ImmediateGenerator ==
    [IMM_I  |-> Assigned(Copies(21, 31) \o Slice(30, 20)),
     IMM_S  |-> Assigned(Copies(21, 31) \o Slice(30, 25) \o Slice(11, 8) \o Slice(7, 7)),
     IMM_SB |-> Assigned(Copies(20, 31) \o Slice(7, 7) \o Slice(30, 25) \o Slice(11, 8) \o Zeroes(1)),
     IMM_U  |-> Assigned(Copies(2, 31) \o Slice(30, 20) \o Slice(19, 12) \o Zeroes(12)),
     IMM_UJ |-> Assigned(Copies(12, 31) \o Slice(19, 12) \o Slice(20, 20) \o Slice(30, 25)
                            \o Slice(24, 21) \o Zeroes(1))]

\* The format riscv_decode selects for each opcode.
imm_mode ==
    [IMM    |-> "IMM_I", LOAD |-> "IMM_I", JALR  |-> "IMM_I", STORE |-> "IMM_S",
     BRANCH |-> "IMM_SB", LUI |-> "IMM_U", AUIPC |-> "IMM_U", JAL   |-> "IMM_UJ"]

-----------------------------------------------------------------------------

\* Both sides take every bit of every immediate, the copies of the sign and the
\* zeros included, from the same bit of the instruction.
ImmediatesAgree ==
    \A opcode \in DOMAIN imm_mode :
        sim_immediate[opcode] = ImmediateGenerator[imm_mode[opcode]]

=============================================================================
