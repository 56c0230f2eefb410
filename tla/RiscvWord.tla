----------------------------- MODULE RiscvWord -----------------------------
(***************************************************************************)
(* The uint32_t and int32_t values both implementations compute with: the  *)
(* reference simulator (tools/refsim) in C, the core's data path in        *)
(* SystemVerilog.  A word has four lanes of Lane values each, so Lane is   *)
(* 256 in the code; every result is reduced to the width of a word.        *)
(***************************************************************************)
EXTENDS Integers

CONSTANTS
    Lane,               \* how many values a byte has
    XLEN,               \* how many bits a word has
    BitAnd(_, _), BitOr(_, _), BitXor(_, _),        \* &, | and ^
    ShiftLeft(_, _), ShiftRight(_, _)               \* << and unsigned >>

Modulus == Lane * Lane * Lane * Lane

Word == 0 .. Modulus - 1

Byte == 0 .. Lane - 1

ASSUME LaneAssumption == Lane \in Nat \ {0, 1}

ASSUME ShiftAssumption == XLEN \in Nat \ {0}

\* The C operators never leave the width of their operands.
ASSUME BitwiseAssumption ==
    \A x, y \in Word : /\ BitAnd(x, y) \in Word
                       /\ BitOr(x, y) \in Word
                       /\ BitXor(x, y) \in Word

ASSUME ShifterAssumption ==
    \A x \in Word, n \in 0 .. XLEN - 1 : ShiftLeft(x, n) \in Word /\ ShiftRight(x, n) \in Word

Add(x, y) == (x + y) % Modulus

Sub(x, y) == (x - y) % Modulus

\* ~x, and -x as the ALU forms it.
Not(x) == Modulus - 1 - x

\* The value of a word as an int32_t.
Signed(x) == IF x < Modulus \div 2 THEN x ELSE x - Modulus

\* The low bits of a shift amount: & 0x1F, [4:0].
Amount(y) == y % XLEN

\* >> of an int32_t, >>> of a $signed.
ShiftRightArith(x, n) ==
    IF Signed(x) < 0 THEN Not(ShiftRight(Not(x), n)) ELSE ShiftRight(x, n)

Truth(condition) == IF condition THEN 1 ELSE 0

Lanes == 0 .. 3

LaneWeight == [l \in Lanes |-> CASE l = 0 -> 1
                                 [] l = 1 -> Lane
                                 [] l = 2 -> Lane * Lane
                                 [] OTHER -> Lane * Lane * Lane]

\* (value >> (8 * byte)) & 0xFF.
get_byte(value, byte) == (value \div LaneWeight[byte]) % Lane

\* A word put together from its four lanes.
FromLanes(bytes) ==
    (bytes[0] * LaneWeight[0] + bytes[1] * LaneWeight[1]
        + bytes[2] * LaneWeight[2] + bytes[3] * LaneWeight[3]) % Modulus

\* The size lanes of a word from index on, moved down to lane 0; lanes past the
\* end of the word are zero.
TakeLanes(value, index, size) ==
    FromLanes([l \in Lanes |->
        IF l < size /\ index + l \in Lanes THEN get_byte(value, index + l) ELSE 0])

\* A word whose size lanes from index on are replaced by the low lanes of field;
\* lanes past the end of the word are lost.
PutLanes(value, index, size, field) ==
    FromLanes([l \in Lanes |->
        IF l \in index .. index + size - 1 THEN get_byte(field, l - index)
                                           ELSE get_byte(value, l)])

\* The sign of the lowest size lanes copied into the lanes above them.
SignExtend(value, size) ==
    FromLanes([l \in Lanes |->
        IF l < size THEN get_byte(value, l)
        ELSE IF get_byte(value, size - 1) < Lane \div 2 THEN 0 ELSE Lane - 1])

\* The byte mask of size lanes from index on, as the set of its bits.
LaneMask(index, size) == (index .. index + size - 1) \cap Lanes

=============================================================================
