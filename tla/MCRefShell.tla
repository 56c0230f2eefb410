----------------------------- MODULE MCRefShell -----------------------------
(***************************************************************************)
(* A small instance of RefShell: words of four 2-bit lanes, five           *)
(* registers, programs of a few instructions, and the lines a user may     *)
(* type.                                                                   *)
(***************************************************************************)
EXTENDS RefShell

Bits == 0 .. 7

Bit(x, n) == (x \div 2^n) % 2

Bitwise(Op(_, _), x, y) == FoldSet(LAMBDA n, sum : sum + Op(Bit(x, n), Bit(y, n)) * 2^n, 0, Bits)

\* Tables over half words, so that an operator is two look-ups.
Table(Op(_, _)) == [pair \in (0 .. 15) \X (0 .. 15) |-> Bitwise(Op, pair[1], pair[2])]

AndTable == Table(LAMBDA a, b : a * b)

OrTable == Table(LAMBDA a, b : IF a + b = 0 THEN 0 ELSE 1)

XorTable == Table(LAMBDA a, b : (a + b) % 2)

Combine(table, x, y) == table[x % 16, y % 16] + 16 * table[x \div 16, y \div 16]

And8(x, y) == Combine(AndTable, x, y)

Or8(x, y) == Combine(OrTable, x, y)

Xor8(x, y) == Combine(XorTable, x, y)

Shl8(x, n) == (x * 2^n) % 256

Shr8(x, n) == x \div 2^n

-----------------------------------------------------------------------------
ra == 1
sp == 2
gp == 3
a0 == 4

I(opcode, funct3, funct7, rd, rs1, rs2, imm) ==
    [opcode |-> opcode, funct3 |-> funct3, funct7 |-> funct7, rd |-> rd, rs1 |-> rs1,
     rs2 |-> rs2, imm |-> imm % 256]

Unknown == I("unknown", "", "", 0, 0, 0, 0)

\* The instructions of the programs; the word that encodes one is its place here.
Code == << I("IMM", "XOR", "INT", ra, ra, 0, 1),        \* 1  xori ra, ra, 1
           I("STORE", "SH", "", 0, gp, ra, 2),          \* 2  sh ra, 2(gp)
           I("LOAD", "LH", "", a0, gp, 0, 1),           \* 3  lh a0, 1(gp)
           I("JAL", "", "", 0, 0, 0, -12),              \* 4  jal x0, -12
           I("IMM", "ADD_SUB", "INT", a0, 0, 0, 10),    \* 5  addi a0, x0, 10
           I("STORE", "SB", "", 0, sp, a0, -3),         \* 6  sb a0, -3(sp)
           I("SYSTEM", "", "", 0, 0, 0, 0),             \* 7  ecall
           I("STORE", "SH", "", 0, gp, gp, 3),          \* 8  sh gp, 3(gp)
           I("STORE", "SW", "", 0, gp, ra, 5) >>        \* 9  sw ra, 5(gp)

MCDecode(w) == IF w \in DOMAIN Code THEN Code[w] ELSE Unknown

WordBytes(w) == << w % 4, (w \div 4) % 4, (w \div 16) % 4, (w \div 64) % 4 >>

Text(words) == FlattenSeq([k \in DOMAIN words |-> WordBytes(words[k])])

File(bytes) == [status |-> "ok", bytes |-> bytes]

Missing == [status |-> "missing", bytes |-> << >>]

Data == Text(<< 27, 228 >>)

\* loop never halts; halt ends in an ecall; a.b stores beyond a word, then where
\* it may not.  The data of big is too large, the text of odd is not whole words,
\* and the kernel's text of torn cannot be read.
MCDataFile(path, extension) ==
    CASE extension = ".text.bin" /\ path = <<"loop">> -> File(Text(<< 1, 2, 3, 4 >>))
      [] extension = ".text.bin" /\ path = <<"halt">> -> File(Text(<< 5, 6, 7 >>))
      [] extension = ".text.bin" /\ path = <<"a", "b">> -> File(Text(<< 8, 9, 1 >>))
      [] extension = ".text.bin" /\ path \in {<<"big">>, <<"torn">>} -> File(Text(<< 7 >>))
      [] extension = ".text.bin" /\ path = <<"odd">> -> File(<< 1, 0, 0, 0, 2, 0 >>)
      [] path = <<"big">> /\ extension = ".data.bin" -> File([k \in 1 .. 52 |-> 0])
      [] path = <<"torn">> /\ extension = ".ktext.bin" -> [status |-> "unreadable", bytes |-> Data]
      [] /\ extension # ".text.bin" /\ <<path, extension>> # <<<<"torn">>, ".ktext.bin">>
         /\ path \in {<<"loop">>, <<"halt">>, <<"a", "b">>, <<"odd">>, <<"torn">>} ->
            File(IF extension = ".data.bin" THEN Data ELSE << >>)
      [] OTHER -> Missing

Zeros == [k \in 1 .. 8 |-> 0]

Leftovers == [k \in 1 .. 8 |-> 3]

OneStack == {Zeros}

AnyStack == {Zeros, Leftovers}

-----------------------------------------------------------------------------
Fails == [ok |-> FALSE, val |-> 0]

Reads(n) == [ok |-> TRUE, val |-> n]

MCStrtol(token, base) ==
    CASE token = "2" -> Reads(2)
      [] token = "-3" -> Reads(-3)
      [] token = "300" -> Reads(IF base = 16 THEN 768 ELSE 300)
      [] token = "010" -> Reads(CASE base = 10 -> 10 [] base = 16 -> 16 [] OTHER -> 8)
      [] token = "0x40" /\ base # 10 -> Reads(64)
      [] token = "0x44" /\ base # 10 -> Reads(68)
      [] token = "0x46" /\ base # 10 -> Reads(70)
      [] OTHER -> Fails

MCNamedRegister(token) == IF token = "ra" THEN {ra} ELSE IF token = "a0" THEN {a0} ELSE {}

MCPathOf(token) ==
    CASE token = "halt.S" -> <<"halt", "S">>
      [] token = "a.b.S" -> <<"a", "b", "S">>
      [] token = "big.S" -> <<"big", "S">>
      [] token = "odd.S" -> <<"odd", "S">>
      [] token = "torn" -> <<"torn">>
      [] OTHER -> <<"nothing">>

\* A freed path reads as before, or as something else.
MCStalePaths(path) == {path, <<"nothing">>}

SamePath(path) == {path}

L(command, args) == [command |-> command, args |-> args]

RunLines == { L("step", << >>), L("s", <<"2">>), L("step", <<"-3">>), L("step", <<"ra">>),
              L("go", << >>), L("g", <<"2">>) }

PokeLines == { L("reg", <<"ra", "-3">>), L("r", <<"2", "300">>), L("reg", <<"a0">>),
               L("reg", <<"a0", "010">>), L("mem", <<"0x46", "0x44">>), L("m", <<"0x40">>),
               L("mem", <<"2", "2">>) }

DumpLines == { L("rdump", <<"f">>), L("mdump", <<"0x40", "0x44", "f", "f">>),
               L("mdump", <<"0x44", "0x40", "f">>), L("mdump", <<"0x40", "0x44">>) }

LoadLines == { L("restart", << >>), L("restart", <<"2">>), L("load", << >>), L("load", <<"halt.S">>),
               L("load", <<"a.b.S">>), L("load", <<"big.S">>), L("load", <<"odd.S">>),
               L("load", <<"torn">>) }

ModeLines == { L("verbose", << >>), L("t", << >>), L("statetrace", <<"f">>), L("memtrace", << >>),
               L("memtrace", <<"2", "2">>) }

OtherLines == { L("quit", << >>), L("q", <<"2">>), L("", << >>), L("help", << >>) }

AllLines == RunLines \cup PokeLines \cup DumpLines \cup LoadLines \cup ModeLines \cup OtherLines

RestartLines == { L("step", << >>), L("restart", << >>) }

Looping == <<"loop", "S">>

Dotted == <<"a", "b", "S">>

-----------------------------------------------------------------------------
\* One instruction of every kind, with every alignment and both signs.
MCIsa ==
    {I("OP", f, g, ra, a, gp, 0) : f \in ArithmeticCodes, g \in {"INT", "ALT_INT", "MULDIV"}, a \in {ra, a0}}
    \cup {I("IMM", f, g, a0, ra, 0, m) : f \in ArithmeticCodes, g \in {"INT", "ALT_INT"}, m \in {3, -1}}
    \cup {I("LOAD", f, "", a0, gp, 0, m) : f \in LoadCodes, m \in {0, 1, 2, 3, -4}}
    \cup {I("STORE", f, "", 0, gp, r, m) : f \in StoreCodes, r \in {ra, sp}, m \in {0, 1, 2, 7}}
    \cup {I("BRANCH", f, "", 0, ra, r, -8) : f \in BranchCodes, r \in {ra, sp}}
    \cup {I(o, "", "", ra, ra, 0, 37) : o \in {"LUI", "AUIPC", "JAL", "JALR", "unknown"}}
    \cup {I("SYSTEM", "", "", 0, 0, 0, m) : m \in {0, 1}}

=============================================================================
