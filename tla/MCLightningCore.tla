-------------------------- MODULE MCLightningCore --------------------------
(***************************************************************************)
(* Small instances of LightningCore: one architectural register besides    *)
(* x0, and instruction mixes that exercise one mechanism at a time.        *)
(***************************************************************************)
EXTENDS LightningCore

I(op, rd, rs1, rs2) == [op |-> op, rd |-> rd, rs1 |-> rs1, rs2 |-> rs2]

\* Renaming across flushes and traps: a producer, a dependent producer, a branch
\* that waits for one, a branch that resolves ahead of older ones, and a halting
\* system call that may be on their wrong path.
DataflowMix ==
    {I("alu", 1, 0, 0), I("alu", 1, 1, 0), I("branch", 0, 1, 0), I("branch", 0, 0, 0),
     I("ecall", 0, 0, 0)}

\* Loads, a store that waits for one, a store that is early, and a halting
\* system call in front of them.
MemoryMix ==
    {I("load", 1, 0, 0), I("store", 0, 0, 1), I("store", 0, 0, 0), I("ecall", 0, 0, 0)}

\* Every way an instruction can be held up.
EveryMix ==
    {I("load", 1, 1, 0), I("store", 0, 0, 1), I("branch", 0, 1, 0)}

\* Loads down a path that may turn out wrong.
SpeculativeLoads == {I("load", 1, 0, 0), I("branch", 0, 0, 0)}

Word(a) == [addr |-> a, bytes |-> a .. a + 3]

Byte(a) == [addr |-> a, bytes |-> {a}]

OneWord == {Word(4)}

WordAndByte == {Word(4), Byte(5)}

=============================================================================
