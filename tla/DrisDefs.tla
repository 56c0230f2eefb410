------------------------------ MODULE DrisDefs ------------------------------
(***************************************************************************)
(* rtl/ooo/1DRIS_defs.sv: the identifiers every part of the out-of-order   *)
(* core shares.  A DRIS id is a lap colour and an index into the circular  *)
(* buffer; `{id_color, id_index}` read as one number is the pointer        *)
(* fetch_ptr and retire_ptr count with, so an id is modelled as that       *)
(* number, 0 .. 2 * DRIS_NUM_ENTRIES - 1, and the adders that truncate to  *)
(* the pointer's width as arithmetic that wraps there.                     *)
(***************************************************************************)
EXTENDS Integers, FiniteSets

CONSTANTS
    DRIS_NUM_ENTRIES,   \* entries of the DRIS (32 in config.vh)
    FETCH_WAYS,         \* instructions taken in per cycle (4)
    EXEC_UNITS,         \* instructions issued per cycle (4)
    RETIRES_PER_CYCLE,  \* instructions retired per cycle (7)
    Registers,          \* architectural registers, x0 included
    Instrs,             \* decoded instructions fetch may deliver
    Accesses            \* memory accesses an address calculation may yield

X0 == 0

\* "branch" is every control transfer (a conditional branch, or a JAL or JALR,
\* whose rd is then a register); "ecall" is what ends in a trap, the system call
\* that reports the halt code or an illegal instruction.  Any other system call
\* behaves as an "alu" that writes x0.
Ops == {"alu", "load", "store", "branch", "ecall"}

\* What decode leaves of an instruction: rd and the sources are already masked
\* to x0 where the instruction does not write or read them.
Instruction == [op : Ops, rd : Registers, rs1 : Registers, rs2 : Registers]

\* The byte address the memory scheduler compares, and the bytes touched.
Access == [addr : Nat, bytes : SUBSET Nat]

NoAccess == [addr |-> 0, bytes |-> {}]

ASSUME DrisSizeAssumption ==
    /\ DRIS_NUM_ENTRIES \in Nat \ {0}
    /\ FETCH_WAYS \in 1 .. DRIS_NUM_ENTRIES
    /\ EXEC_UNITS \in Nat \ {0}
    /\ RETIRES_PER_CYCLE \in 1 .. DRIS_NUM_ENTRIES

ASSUME InstrAssumption ==
    /\ X0 \in Registers
    /\ Instrs \subseteq Instruction
    /\ \A i \in Instrs : i.op = "store" => i.rd = X0
    /\ Accesses \subseteq Access
    /\ NoAccess \notin Accesses
-----------------------------------------------------------------------------
DrisIds == 0 .. 2 * DRIS_NUM_ENTRIES - 1

DrisIndices == 0 .. DRIS_NUM_ENTRIES - 1

Wrap(n) == IF n >= 2 * DRIS_NUM_ENTRIES THEN n - 2 * DRIS_NUM_ENTRIES ELSE n

id_color(id) == id >= DRIS_NUM_ENTRIES

id_index(id) == IF id_color(id) THEN id - DRIS_NUM_ENTRIES ELSE id

\* Same lap: the lower index was fetched first; otherwise the higher was.
is_older(a, b) ==
    IF id_color(a) = id_color(b)
    THEN id_index(a) < id_index(b)
    ELSE id_index(a) > id_index(b)

slot_id(base, way) == Wrap(base + way)

\* How far id lies ahead of base on the two-lap circle; with the fetch pointer
\* and the retire pointer, the occupancy of the DRIS.
Distance(base, id) ==
    IF id >= base THEN id - base ELSE id - base + 2 * DRIS_NUM_ENTRIES

=============================================================================
