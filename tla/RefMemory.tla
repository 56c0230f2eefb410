----------------------------- MODULE RefMemory -----------------------------
(***************************************************************************)
(* shell/memory.c and shell/memory_segments.h of the reference simulator:  *)
(* the five segments of the processor's memory, loaded from the files of a *)
(* program.  A buffer is the sequence of its bytes.                        *)
(***************************************************************************)
EXTENDS RiscvWord, Sequences, FiniteSetsExt

CONSTANTS
    USER_TEXT_START, USER_DATA_START, STACK_START, STACK_END,
    KERNEL_TEXT_START, KERNEL_DATA_START,
    DataFile(_, _),     \* program path and extension -> [status, bytes] (the file system)
    StackContents       \* what malloc may leave in the stack's buffer

NULL == << >>

NoExtension == "none"

Segment(base, end, extension) ==
    [base_addr |-> base, max_size |-> end - base, extension |-> extension]

MEMORY_SEGMENTS ==
    << Segment(USER_TEXT_START, USER_DATA_START, ".text.bin"),
       Segment(USER_DATA_START, STACK_START, ".data.bin"),
       Segment(STACK_START, STACK_END, NoExtension),
       Segment(KERNEL_TEXT_START, KERNEL_DATA_START, ".ktext.bin"),
       Segment(KERNEL_DATA_START, Modulus - 1, ".kdata.bin") >>

SegmentIds == 1 .. 5

NoSegment == 0

ASSUME SegmentAssumption ==
    /\ {USER_TEXT_START, USER_DATA_START, STACK_START, STACK_END,
        KERNEL_TEXT_START, KERNEL_DATA_START} \subseteq Word
    /\ 0 < USER_TEXT_START
    /\ USER_TEXT_START < USER_DATA_START
    /\ USER_DATA_START < STACK_START
    /\ STACK_START < STACK_END
    /\ STACK_END <= KERNEL_TEXT_START
    /\ KERNEL_TEXT_START < KERNEL_DATA_START
    /\ KERNEL_DATA_START < Modulus - 1
    /\ (STACK_END - STACK_START) % 4 = 0
    /\ \A base \in {USER_TEXT_START, USER_DATA_START, STACK_START,
                    KERNEL_TEXT_START, KERNEL_DATA_START} : base % 4 = 0

ASSUME StackAssumption ==
    StackContents \subseteq [1 .. STACK_END - STACK_START -> Byte]

\* What main finds in the zeroed MEMORY_SEGMENTS table.
NothingLoaded == [s \in SegmentIds |-> [size |-> 0, mem |-> NULL]]

segment_end_addr(segments, s) ==
    (MEMORY_SEGMENTS[s].base_addr + segments[s].size) % Modulus

SegmentsAround(segments, addr) ==
    {s \in SegmentIds : /\ MEMORY_SEGMENTS[s].base_addr <= addr
                        /\ addr < segment_end_addr(segments, s)}

mem_find_segment(segments, addr) ==
    IF SegmentsAround(segments, addr) = {} THEN NoSegment
    ELSE Min(SegmentsAround(segments, addr))

mem_range_valid(segments, start_addr, end_addr) ==
    \E s \in SegmentIds : /\ MEMORY_SEGMENTS[s].base_addr <= start_addr
                          /\ end_addr <= segment_end_addr(segments, s)

\* A word access that mem_read32 and mem_write32 refuse, halting the processor.
AccessFaults(segments, addr) ==
    addr % 4 # 0 \/ mem_find_segment(segments, addr) = NoSegment

mem_read_word(segments, s, addr) ==
    LET offset == addr - MEMORY_SEGMENTS[s].base_addr IN
    FromLanes([l \in Lanes |-> segments[s].mem[offset + l + 1]])

\* The value half of mem_read32; a refused access reads 0.
mem_read32(segments, addr) ==
    IF AccessFaults(segments, addr) THEN 0
    ELSE mem_read_word(segments, mem_find_segment(segments, addr), addr)

\* Fault: a word written across the end of the segment overruns its buffer.
WriteWordUnclipped(segments, s, addr, value) ==
    LET offset == addr - MEMORY_SEGMENTS[s].base_addr IN
    [segments EXCEPT ![s].mem =
        [k \in 1 .. (IF offset + 4 > Len(@) THEN offset + 4 ELSE Len(@)) |->
            IF k - offset \in 1 .. 4 THEN get_byte(value, k - offset - 1) ELSE @[k]]]

mem_write_word(segments, s, addr, value) ==
    LET offset == addr - MEMORY_SEGMENTS[s].base_addr IN
    [segments EXCEPT ![s].mem =
        [k \in DOMAIN @ |->
            IF k - offset \in 1 .. 4 THEN get_byte(value, k - offset - 1) ELSE @[k]]]

mem_write32(segments, addr, value) ==
    IF AccessFaults(segments, addr) THEN segments
    ELSE mem_write_word(segments, mem_find_segment(segments, addr), addr, value)

\* Fault: a file whose size is not a number of words is loaded all the same.
LoadAnySize(segment, max_size, file) ==
    IF file.status = "missing" THEN [ok |-> FALSE, segment |-> segment]
    ELSE [ok |-> TRUE, segment |-> [size |-> Len(file.bytes), mem |-> file.bytes]]

\* The size is set before it is found too large or unaligned, and stays.
load_mem_segment(segment, max_size, file) ==
    LET size == Len(file.bytes) IN
    IF file.status = "missing" THEN [ok |-> FALSE, segment |-> segment]
    ELSE IF size = 0 THEN [ok |-> TRUE, segment |-> [segment EXCEPT !.size = 0]]
    ELSE IF size \notin 0 .. max_size \/ size % 4 # 0
        THEN [ok |-> FALSE, segment |-> [segment EXCEPT !.size = size]]
    ELSE IF file.status = "unreadable"
        THEN [ok |-> FALSE, segment |-> [size |-> 0, mem |-> NULL]]
    ELSE [ok |-> TRUE, segment |-> [size |-> size, mem |-> [k \in 1 .. size |-> file.bytes[k]]]]

malloc_mem_segment(max_size, contents) == [size |-> max_size, mem |-> contents]

mem_unload_program(segments) ==
    [s \in SegmentIds |->
        IF segments[s].mem # NULL THEN [size |-> 0, mem |-> NULL] ELSE segments[s]]

\* The loop of mem_load_program: the first segment that fails to load stops it,
\* and the segments loaded before it are unloaded.
mem_load_program(segments, path, stack) ==
    LET Result(s) ==
            IF MEMORY_SEGMENTS[s].extension = NoExtension
            THEN [ok |-> TRUE, segment |-> malloc_mem_segment(MEMORY_SEGMENTS[s].max_size, stack)]
            ELSE load_mem_segment(segments[s], MEMORY_SEGMENTS[s].max_size,
                                  DataFile(path, MEMORY_SEGMENTS[s].extension))
        Failed == {s \in SegmentIds : ~Result(s).ok}
    IN  IF Failed = {}
        THEN [ok |-> TRUE, segments |-> [s \in SegmentIds |-> Result(s).segment]]
        ELSE [ok |-> FALSE,
              segments |-> mem_unload_program(
                  [s \in SegmentIds |-> IF s <= Min(Failed) THEN Result(s).segment
                                                            ELSE segments[s]])]

=============================================================================
