--------------------------- MODULE RefShellProofs ---------------------------
(***************************************************************************)
(* Theorems about the reference simulator for every lane width, segment    *)
(* layout, program, file system and line the user may type.                *)
(***************************************************************************)
EXTENDS RefShell, TLAPS, SequenceTheorems

-----------------------------------------------------------------------------
(* Ctrl-C. *)

\* What GoStopsForReason needs while the loop of go still runs: a flag that is up
\* went up after this go reset it.
Interrupted ==
    /\ ctl = "go" /\ sigint => caught
    /\ ctl = "told" /\ ~cpu.halted => caught

\* go never gives up on a running processor without a Ctrl-C typed during that go.
THEOREM InterruptIsFresh == Spec => []GoStopsForReason
<1>1. Init => Interrupted
  BY DEF Init, Interrupted
<1>2. Interrupted /\ [Next]_vars => Interrupted'
  <2> SUFFICES ASSUME Interrupted, [Next]_vars PROVE Interrupted'
    OBVIOUS
  <2>1. CASE ReadLine
    BY <2>1 DEF ReadLine, Interrupted
  <2>2. CASE EndOfFile
    BY <2>2 DEF EndOfFile, Interrupted
  <2>3. CASE sigint_handler
    BY <2>3 DEF sigint_handler, Interrupted
  <2>4. CASE command_step
    BY <2>4 DEF command_step, Entered, Return, Unchanged, Interrupted
  <2>5. CASE command_go
    BY <2>5 DEF command_go, Entered, Return, Unchanged, Interrupted
  <2>6. CASE command_reg
    BY <2>6 DEF command_reg, Return, Interrupted
  <2>7. CASE command_mem
    BY <2>7 DEF command_mem, Return, Crash, Interrupted
  <2>8. CASE command_rdump
    BY <2>8 DEF command_rdump, Return, Interrupted
  <2>9. CASE command_mdump
    BY <2>9 DEF command_mdump, Return, Interrupted
  <2>10. CASE command_restart
    BY <2>10 DEF command_restart, Return, Interrupted
  <2>11. CASE command_load
    BY <2>11 DEF command_load, Return, Interrupted
  <2>12. CASE command_verbose \/ command_trace \/ command_statetrace \/ command_memtrace
    BY <2>12 DEF command_verbose, command_trace, command_statetrace, command_memtrace,
                 Toggle, Return, Interrupted
  <2>13. CASE command_quit
    BY <2>13 DEF command_quit, Return, Interrupted
  <2>14. CASE OtherLine
    BY <2>14 DEF OtherLine, Return, Interrupted
  <2>15. CASE StepLoop
    BY <2>15 DEF StepLoop, run_simulator, Return, Interrupted
  <2>16. CASE GoLoop
    BY <2>16 DEF GoLoop, run_simulator, Interrupted
  <2>17. CASE GoReset
    BY <2>17 DEF GoReset, Return, Interrupted
  <2>18. CASE UNCHANGED vars
    BY <2>18 DEF vars, Interrupted
  <2> QED
    BY <2>1, <2>2, <2>3, <2>4, <2>5, <2>6, <2>7, <2>8, <2>9, <2>10, <2>11, <2>12, <2>13,
       <2>14, <2>15, <2>16, <2>17, <2>18 DEF Next, Simulate, process_command
<1>3. Interrupted => GoStopsForReason
  BY DEF Interrupted, GoStopsForReason
<1> QED
  BY <1>1, <1>2, <1>3, PTL DEF Spec

-----------------------------------------------------------------------------
(* The shape of the processor's state, and the segments' buffers. *)

SegmentShape(segments) ==
    /\ DOMAIN segments = SegmentIds
    /\ \A s \in SegmentIds : DOMAIN segments[s] = {"size", "mem"}

CpuShape(c) ==
    /\ DOMAIN c = {"halted", "cycle", "pc", "registers", "segments"}
    /\ SegmentShape(c.segments)

\* A word written anywhere, from the prompt too, and a whole instruction keep the
\* shape of the state and every buffer its size.
LEMMA RunKeeps ==
    ASSUME NEW c, CpuShape(c)
    PROVE  /\ \A t, a, v : LET w == mem_write_word(c.segments, t, a, v) IN
                           SegmentShape(w) /\ (Backed(c.segments) => Backed(w))
           /\ CpuShape(RunCycle(c).cpu)
           /\ Backed(c.segments) => Backed(RunCycle(c).cpu.segments)
<1> DEFINE Keeps(d) == CpuShape(d) /\ (Backed(c.segments) => Backed(d.segments))
           Plain(d) == DOMAIN d = DOMAIN c /\ d.segments = c.segments
           Done(e) == DOMAIN e = {"cpu", "access"} /\ Keeps(e.cpu)
<1>0. ASSUME NEW t, NEW a, NEW v
      PROVE  LET w == mem_write_word(c.segments, t, a, v) IN
             SegmentShape(w) /\ (Backed(c.segments) => Backed(w))
  <2> DEFINE w == mem_write_word(c.segments, t, a, v)
  <2>1. \A s \in SegmentIds : /\ w[s].size = c.segments[s].size
                              /\ DOMAIN w[s].mem = DOMAIN c.segments[s].mem
                              /\ DOMAIN w[s] = {"size", "mem"}
    BY DEF mem_write_word, CpuShape, SegmentShape
  <2>2. DOMAIN w = SegmentIds
    BY DEF mem_write_word, CpuShape, SegmentShape
  <2> QED
    BY <2>1, <2>2 DEF SegmentShape, Backed
<1>1. ASSUME NEW d, Plain(d) PROVE Keeps(d)
  BY <1>1 DEF CpuShape
<1>2. ASSUME NEW a, NEW v PROVE
        LET w == mem_write32(c.segments, a, v) IN
        SegmentShape(w) /\ (Backed(c.segments) => Backed(w))
  BY <1>0 DEF mem_write32, CpuShape
<1> DEFINE f == HaltIf(c, AccessFaults(c.segments, c.pc))
<1>3. Plain(f) /\ CpuShape(f)
  BY DEF HaltIf, CpuShape
<1>4. ASSUME NEW i PROVE Done(Execute(f, i))
  <2>1. Plain(Halt(f))
    BY <1>3 DEF Halt
  <2>2. Plain(NextPc(f))
    BY <1>3 DEF NextPc
  <2>3. ASSUME NEW rd, NEW v PROVE Plain(WriteBack(f, rd, v))
    BY <1>3 DEF WriteBack, NextPc
  <2>4. Plain(OP_OP(f, i)) /\ Plain(OP_IMM(f, i))
    BY <2>1, <2>3 DEF OP_OP, OP_IMM
  <2>5. Plain(OP_LUI(f, i)) /\ Plain(OP_AUIPC(f, i))
    BY <2>3 DEF OP_LUI, OP_AUIPC
  <2>6. Plain(OP_JAL(f, i)) /\ Plain(OP_JALR(f, i))
    BY <1>3 DEF OP_JAL, OP_JALR
  <2>7. Plain(OP_BRANCH(f, i)) /\ Plain(OP_SYSTEM(f, i))
    <3>1. Plain([f EXCEPT !.pc = Add(@, i.imm)])
      BY <1>3
    <3> QED
      BY <2>1, <2>2, <3>1 DEF OP_BRANCH, OP_SYSTEM
  <2>8. Done(OP_LOAD(f, i))
    <3>1. ASSUME NEW rd, NEW v, NEW b PROVE Plain(HaltIf(WriteBack(f, rd, v), b))
      BY <2>3 DEF HaltIf
    <3> QED
      BY <1>1, <2>1, <3>1 DEF OP_LOAD
  <2>9. Done(OP_STORE(f, i))
    <3>1. ASSUME NEW a, NEW v, NEW b
          PROVE Keeps(NextPc(HaltIf([f EXCEPT !.segments = mem_write32(@, a, v)], b)))
      <4>1. f.segments = c.segments
        BY <1>3
      <4>2. [f EXCEPT !.segments = mem_write32(@, a, v)]
                = [f EXCEPT !.segments = mem_write32(c.segments, a, v)]
        BY <4>1
      <4> DEFINE w == mem_write32(c.segments, a, v)
                 d == NextPc(HaltIf([f EXCEPT !.segments = w], b))
      <4>3. DOMAIN d = DOMAIN f /\ d.segments = w
        <5> HIDE DEF w
        <5> QED
          BY <1>3 DEF NextPc, HaltIf, CpuShape
      <4>4. Keeps(d)
        BY <1>2, <1>3, <4>3 DEF CpuShape
      <4> QED
        BY <4>2, <4>4
    <3> QED
      BY <1>1, <2>1, <3>1 DEF OP_STORE
  <2> QED
    BY <1>1, <2>1, <2>4, <2>5, <2>6, <2>7, <2>8, <2>9 DEF Execute
<1>5. Done(process_instruction(c))
  BY <1>4 DEF process_instruction
<1>6. Keeps([process_instruction(c) EXCEPT !.cpu.cycle = IF @ < MaxCycle THEN @ + 1 ELSE @].cpu)
  BY <1>5 DEF CpuShape
<1> QED
  BY <1>0, <1>6 DEF RunCycle

\* Freeing the buffers of a program leaves none.
Freed(segments) == \A s \in SegmentIds : segments[s].mem = NULL

\* A load that succeeds gives every segment the buffer its size promises.
LEMMA LoadKeeps ==
    ASSUME NEW c, CpuShape(c), Freed(c.segments), NEW path, NEW stack \in StackContents
    PROVE  LET d == init_cpu_state(c, path, stack) IN
           CpuShape(d) /\ (~d.halted => Backed(d.segments))
<1> DEFINE file == StripExtension(path)
           Result(s) ==
              IF MEMORY_SEGMENTS[s].extension = NoExtension
              THEN [ok |-> TRUE,
                    segment |-> malloc_mem_segment(MEMORY_SEGMENTS[s].max_size, stack)]
              ELSE load_mem_segment(c.segments[s], MEMORY_SEGMENTS[s].max_size,
                                    DataFile(file, MEMORY_SEGMENTS[s].extension))
           Failed == {s \in SegmentIds : ~Result(s).ok}
           loaded == mem_load_program(c.segments, file, stack)
           Fits(segment, max_size) ==
              /\ DOMAIN segment.mem = 1 .. segment.size
              /\ segment.size % 4 = 0
              /\ segment.size <= max_size
<1>1. SegmentShape(c.segments)
  BY DEF CpuShape
<1>2. ASSUME NEW s \in SegmentIds
      PROVE  /\ DOMAIN Result(s).segment = {"size", "mem"}
             /\ Result(s).ok => Fits(Result(s).segment, MEMORY_SEGMENTS[s].max_size)
  <2> DEFINE max_size == MEMORY_SEGMENTS[s].max_size
  <2>1. max_size \in Nat /\ (MEMORY_SEGMENTS[s].extension = NoExtension =>
                                max_size = STACK_END - STACK_START)
    BY SegmentAssumption, LaneAssumption
       DEF MEMORY_SEGMENTS, Segment, SegmentIds, NoExtension, Word, Modulus
  <2>2. CASE MEMORY_SEGMENTS[s].extension = NoExtension
    <3>1. DOMAIN stack = 1 .. max_size /\ max_size % 4 = 0
      BY <2>1, <2>2, StackAssumption, SegmentAssumption
    <3> HIDE DEF max_size
    <3> QED
      BY <2>2, <3>1, <2>1 DEF malloc_mem_segment, max_size
  <2>3. ASSUME NEW old, DOMAIN old = {"size", "mem"}, old.mem = NULL, NEW m \in Nat, NEW data
        PROVE  LET r == load_mem_segment(old, m, data) IN
               DOMAIN r.segment = {"size", "mem"} /\ (r.ok => Fits(r.segment, m))
    <3> DEFINE size == Len(data.bytes)
    <3>1. CASE data.status = "missing"
      BY <2>3, <3>1 DEF load_mem_segment
    <3>2. CASE data.status # "missing" /\ size = 0
      BY <2>3, <3>2 DEF load_mem_segment, NULL
    <3>3. CASE data.status # "missing" /\ size # 0
      <4> DEFINE r == load_mem_segment(old, m, data)
      <4>1. CASE size \notin 0 .. m \/ size % 4 # 0
        <5>1. r = [ok |-> FALSE, segment |-> [old EXCEPT !.size = size]]
          BY <3>3, <4>1 DEF load_mem_segment
        <5> QED
          BY <2>3, <5>1
      <4>2. CASE size \in 0 .. m /\ size % 4 = 0 /\ data.status = "unreadable"
        BY <3>3, <4>2 DEF load_mem_segment
      <4>3. CASE size \in 0 .. m /\ size % 4 = 0 /\ data.status # "unreadable"
        <5>1. r = [ok |-> TRUE,
                   segment |-> [size |-> size, mem |-> [k \in 1 .. size |-> data.bytes[k]]]]
          BY <3>3, <4>3 DEF load_mem_segment
        <5> HIDE DEF size, r
        <5>2. /\ DOMAIN r.segment = {"size", "mem"}
              /\ r.segment.size = size
              /\ DOMAIN r.segment.mem = 1 .. size
          BY <5>1
        <5>3. size % 4 = 0 /\ size <= m
          BY <4>3
        <5> QED
          BY <5>2, <5>3 DEF r
      <4> QED
        BY <4>1, <4>2, <4>3
    <3> QED
      BY <3>1, <3>2, <3>3
  <2>4. CASE MEMORY_SEGMENTS[s].extension # NoExtension
    <3>1. DOMAIN c.segments[s] = {"size", "mem"} /\ c.segments[s].mem = NULL
      BY <1>1 DEF SegmentShape, Freed
    <3> DEFINE r == load_mem_segment(c.segments[s], max_size,
                                     DataFile(file, MEMORY_SEGMENTS[s].extension))
    <3>2. DOMAIN r.segment = {"size", "mem"} /\ (r.ok => Fits(r.segment, max_size))
      BY <2>1, <2>3, <3>1
    <3> QED
      BY <2>4, <3>2
  <2> QED
    BY <2>2, <2>4
<1>3. /\ SegmentShape(loaded.segments)
      /\ loaded.ok => Backed(loaded.segments)
  <2>1. loaded = IF Failed = {}
                 THEN [ok |-> TRUE, segments |-> [s \in SegmentIds |-> Result(s).segment]]
                 ELSE [ok |-> FALSE,
                       segments |-> mem_unload_program(
                         [s \in SegmentIds |-> IF s <= Min(Failed) THEN Result(s).segment
                                                                   ELSE c.segments[s]])]
    BY DEF mem_load_program
  <2> HIDE DEF Result
  <2>2. CASE Failed = {}
    BY <1>2, <2>1, <2>2 DEF SegmentShape, Backed
  <2>3. CASE Failed # {}
    <3>1. ASSUME NEW segments, SegmentShape(segments)
          PROVE  SegmentShape(mem_unload_program(segments))
      BY <3>1 DEF mem_unload_program, SegmentShape
    <3>2. SegmentShape([s \in SegmentIds |-> IF s <= Min(Failed) THEN Result(s).segment
                                                                 ELSE c.segments[s]])
      BY <1>1, <1>2 DEF SegmentShape
    <3> QED
      BY <2>1, <2>3, <3>1, <3>2
  <2> QED
    BY <2>2, <2>3
<1> QED
  <2> HIDE DEF loaded
  <2>1. init_cpu_state(c, path, stack) =
          [c EXCEPT !.halted = ~loaded.ok, !.cycle = 0, !.pc = USER_TEXT_START,
                    !.registers = StartRegisters, !.segments = loaded.segments]
    BY DEF init_cpu_state, loaded
  <2> QED
    BY <1>3, <2>1 DEF CpuShape

\* A running processor has every buffer its segments promise, whatever failed to
\* load before.
THEOREM Backing == Spec => [](CpuShape(cpu) /\ SegmentsBacked)
<1> DEFINE Sound == CpuShape(cpu) /\ SegmentsBacked
<1>1. Init => Sound
  <2>1. CpuShape(ZeroCpu) /\ Freed(ZeroCpu.segments)
    BY DEF CpuShape, SegmentShape, ZeroCpu, NothingLoaded, Freed
  <2> QED
    BY <2>1, LoadKeeps DEF Init, FreshlyLoaded, SegmentsBacked
<1>2. Sound /\ [Next]_vars => Sound'
  <2> SUFFICES ASSUME Sound, [Next]_vars PROVE Sound'
    OBVIOUS
  <2>1. CASE UNCHANGED cpu
    BY <2>1 DEF SegmentsBacked
  <2>2. ASSUME NEW path, NEW stack \in StackContents, cpu' = Reload(path, stack)
        PROVE  Sound'
    <3> DEFINE c == [cpu EXCEPT !.segments = mem_unload_program(@)]
    <3>1. c = [cpu EXCEPT !.segments = mem_unload_program(cpu.segments)]
      OBVIOUS
    <3>2. SegmentShape(mem_unload_program(cpu.segments))
          /\ Freed(mem_unload_program(cpu.segments))
      BY DEF CpuShape, SegmentShape, mem_unload_program, Freed
    <3>3. CpuShape(c) /\ Freed(c.segments)
      BY <3>1, <3>2 DEF CpuShape
    <3> QED
      BY <2>2, <3>3, LoadKeeps DEF Reload, SegmentsBacked
  <2>3. CASE run_simulator /\ ~cpu.halted
    BY <2>1, <2>3, RunKeeps DEF run_simulator, SegmentsBacked
  <2>4. CASE command_reg
    BY <2>1, <2>4 DEF command_reg, Unchanged, CpuShape, SegmentsBacked
  <2>5. CASE command_mem
    <3>1. ASSUME NEW t, NEW a, NEW v, cpu' = [cpu EXCEPT !.segments = mem_write_word(@, t, a, v)]
          PROVE  Sound'
      <4> DEFINE w == mem_write_word(cpu.segments, t, a, v)
      <4>1. cpu' = [cpu EXCEPT !.segments = w]
        BY <3>1
      <4>2. SegmentShape(w) /\ (Backed(cpu.segments) => Backed(w))
        BY RunKeeps
      <4> HIDE DEF w
      <4> QED
        BY <4>1, <4>2 DEF CpuShape, SegmentsBacked
    <3> QED
      BY <2>1, <2>5, <3>1 DEF command_mem, Crash, Unchanged
  <2>6. CASE command_restart
    BY <2>1, <2>2, <2>6 DEF command_restart, Unchanged
  <2>7. CASE command_load
    BY <2>1, <2>2, <2>7 DEF command_load, Unchanged
  <2>8. CASE command_quit
    BY <2>1, <2>8 DEF command_quit, Unchanged, Halt, CpuShape, SegmentsBacked
  <2>9. CASE StepLoop \/ GoLoop
    BY <2>1, <2>3, <2>9 DEF StepLoop, GoLoop
  <2>10. CASE command_step \/ command_go \/ OtherLine \/ GoReset
    BY <2>1, <2>10 DEF command_step, command_go, OtherLine, GoReset, Unchanged
  <2>11. CASE command_rdump \/ command_mdump
    BY <2>1, <2>11 DEF command_rdump, command_mdump, Unchanged
  <2>12. CASE command_verbose \/ command_trace \/ command_statetrace \/ command_memtrace
    BY <2>1, <2>12 DEF command_verbose, command_trace, command_statetrace, command_memtrace,
                       Toggle, Unchanged
  <2>13. CASE ReadLine \/ EndOfFile \/ sigint_handler \/ UNCHANGED vars
    BY <2>1, <2>13 DEF ReadLine, EndOfFile, sigint_handler, vars
  <2> QED
    BY <2>4, <2>5, <2>6, <2>7, <2>8, <2>9, <2>10, <2>11, <2>12, <2>13
       DEF Next, Simulate, process_command
<1> QED
  BY <1>1, <1>2, PTL DEF Spec

-----------------------------------------------------------------------------
(* A halted processor. *)

\* Whatever is typed, a halted processor executes nothing until a program is loaded.
THEOREM HaltedStays == Spec => HaltIsFinal
<1> DEFINE Kept == cpu'.halted /\ cpu'.pc = cpu.pc /\ cpu'.cycle = cpu.cycle
<1>1. ASSUME [Next]_vars, cpu.halted, CpuShape(cpu)
      PROVE  line.command \in {"load", "restart"} \/ Kept
  <2>1. CASE UNCHANGED cpu
    BY <1>1, <2>1
  <2>2. CASE command_reg
    BY <1>1, <2>2, <2>1 DEF command_reg, Unchanged, CpuShape
  <2>3. CASE command_mem
    BY <1>1, <2>3, <2>1 DEF command_mem, Crash, Unchanged, CpuShape
  <2>4. CASE command_restart \/ command_load
    BY <2>4 DEF command_restart, command_load, Entered
  <2>5. CASE command_quit
    BY <1>1, <2>5, <2>1 DEF command_quit, Unchanged, Halt, CpuShape
  <2>6. CASE StepLoop \/ GoLoop
    BY <1>1, <2>6 DEF StepLoop, GoLoop
  <2>7. CASE command_step \/ command_go \/ OtherLine \/ GoReset
    BY <2>1, <2>7 DEF command_step, command_go, OtherLine, GoReset, Unchanged
  <2>8. CASE command_rdump \/ command_mdump
    BY <2>1, <2>8 DEF command_rdump, command_mdump, Unchanged
  <2>9. CASE command_verbose \/ command_trace \/ command_statetrace \/ command_memtrace
    BY <2>1, <2>9 DEF command_verbose, command_trace, command_statetrace, command_memtrace,
                      Toggle, Unchanged
  <2>10. CASE ReadLine \/ EndOfFile \/ sigint_handler \/ UNCHANGED vars
    BY <2>1, <2>10 DEF ReadLine, EndOfFile, sigint_handler, vars
  <2> QED
    BY <1>1, <2>2, <2>3, <2>4, <2>5, <2>6, <2>7, <2>8, <2>9, <2>10
       DEF Next, Simulate, process_command
<1>2. CpuShape(cpu) /\ [Next]_vars
        => [cpu.halted => line.command \in {"load", "restart"} \/ Kept]_vars
  BY <1>1
<1> QED
  BY <1>2, Backing, PTL DEF Spec, HaltIsFinal

-----------------------------------------------------------------------------
(* The memory trace. *)

\* A word put together from four bytes has these bytes, however wide a byte is.
LEMMA LaneRoundTrip ==
    ASSUME NEW b \in [Lanes -> Byte], NEW l \in Lanes
    PROVE  get_byte(FromLanes(b), l) = b[l]
<1>1. ASSUME NEW m \in Nat \ {0}, NEW q \in Nat, NEW r \in 0 .. m - 1
      PROVE  (q * m + r) \div m = q /\ (q * m + r) % m = r
  <2>1. q * m + r \in Nat
    BY <1>1
  <2> DEFINE x == q * m + r
             d == x \div m
             y == x % m
  <2>2. d \in Int /\ y \in 0 .. m - 1 /\ x = d * m + y
    BY <1>1, <2>1
  <2>3. (d - q) * m = r - y
    BY <1>1, <2>2
  <2>4. d - q \in Int /\ r - y < m /\ r - y > -m
    BY <1>1, <2>2
  <2> HIDE DEF d, y
  <2>5. ~(d - q >= 1)
    BY <1>1, <2>2, <2>3, <2>4
  <2>6. ~(d - q <= -1)
    BY <1>1, <2>2, <2>3, <2>4
  <2>7. d = q
    BY <2>2, <2>5, <2>6
  <2>8. y = r
    BY <2>2, <2>3, <2>7, <1>1
  <2> QED
    BY <2>7, <2>8 DEF d, y
<1>2. Lane \in Nat /\ Lane > 1
  BY LaneAssumption
<1> DEFINE b0 == b[0]
           b1 == b[1]
           b2 == b[2]
           b3 == b[3]
           v == b0 * 1 + b1 * Lane + b2 * (Lane * Lane) + b3 * (Lane * Lane * Lane)
<1>3. /\ b0 \in 0 .. Lane - 1 /\ b1 \in 0 .. Lane - 1
      /\ b2 \in 0 .. Lane - 1 /\ b3 \in 0 .. Lane - 1
  BY DEF Lanes, Byte
<1> HIDE DEF b0, b1, b2, b3
<1> DEFINE L2 == Lane * Lane
           L3 == Lane * Lane * Lane
<1>4. L2 \in Nat \ {0} /\ L3 \in Nat \ {0} /\ Modulus \in Nat \ {0}
      /\ L3 = L2 * Lane /\ Modulus = L3 * Lane
  BY <1>2 DEF Modulus
<1>5. b0 + b1 * Lane \in 0 .. L2 - 1
  BY <1>2, <1>3
<1>6. b0 + b1 * Lane + b2 * L2 \in 0 .. L3 - 1
  <2> DEFINE w == b0 + b1 * Lane
  <2>1. w \in 0 .. L2 - 1
    BY <1>5
  <2> HIDE DEF L2, L3, w
  <2>2. b2 * L2 <= (Lane - 1) * L2 /\ b2 * L2 \in Nat
    BY <1>2, <1>3, <1>4
  <2>3. (Lane - 1) * L2 = L3 - L2
    BY <1>2, <1>4
  <2>4. w + b2 * L2 \in 0 .. L3 - 1
    BY <2>1, <2>2, <2>3, <1>4
  <2> QED
    BY <2>4 DEF w
<1>7. v \in 0 .. Modulus - 1
  <2> DEFINE w == b0 + b1 * Lane + b2 * L2
  <2>1. w \in 0 .. L3 - 1
    BY <1>6
  <2>2. v = w + b3 * L3
    BY <1>2, <1>3
  <2> HIDE DEF L2, L3, w, v
  <2>3. b3 * L3 <= (Lane - 1) * L3 /\ b3 * L3 \in Nat
    BY <1>2, <1>3, <1>4
  <2>4. (Lane - 1) * L3 = Modulus - L3
    BY <1>2, <1>4
  <2> QED
    BY <2>1, <2>2, <2>3, <2>4, <1>4
<1>8. FromLanes(b) = v
  <2>1. FromLanes(b) = v % Modulus
    BY DEF FromLanes, LaneWeight, Lanes, b0, b1, b2, b3
  <2> HIDE DEF v
  <2> QED
    BY <2>1, <1>1, <1>4, <1>7
<1> DEFINE q1 == b1 + b2 * Lane + b3 * L2
           q2 == b2 + b3 * Lane
<1>9. q1 \in Nat /\ q2 \in Nat
  BY <1>2, <1>3
<1>10. v = q1 * Lane + b0 /\ q1 = q2 * Lane + b1 /\ q2 = b3 * Lane + b2
  BY <1>2, <1>3
<1>11. v = q2 * L2 + (b0 + b1 * Lane) /\ v = b3 * L3 + (b0 + b1 * Lane + b2 * L2)
  BY <1>2, <1>3
<1>12. /\ v % Lane = b0
       /\ (v \div Lane) % Lane = b1
       /\ (v \div L2) % Lane = b2
       /\ (v \div L3) % Lane = b3
  <2> HIDE DEF v, L2, L3, q1, q2
  <2>1. v % Lane = b0 /\ v \div Lane = q1
    BY <1>1, <1>2, <1>3, <1>9, <1>10
  <2>2. q1 % Lane = b1
    BY <1>1, <1>2, <1>3, <1>9, <1>10
  <2>3. v \div L2 = q2
    BY <1>1, <1>4, <1>5, <1>9, <1>11
  <2>4. q2 % Lane = b2
    BY <1>1, <1>2, <1>3, <1>10
  <2>5. v \div L3 = b3
    <3> DEFINE r3 == b0 + b1 * Lane + b2 * L2
    <3>1. b3 \in Nat /\ r3 \in 0 .. L3 - 1 /\ v = b3 * L3 + r3
      BY <1>3, <1>6, <1>11
    <3> HIDE DEF r3
    <3> QED
      BY <1>1, <1>4, <3>1
  <2>6. b3 % Lane = b3
    <3>1. 0 * Lane + b3 = b3 /\ 0 \in Nat /\ Lane \in Nat \ {0} /\ b3 \in 0 .. Lane - 1
      BY <1>2, <1>3
    <3> QED
      BY <1>1, <3>1
  <2> QED
    BY <2>1, <2>2, <2>3, <2>4, <2>5, <2>6
<1>13. v \div 1 = v
  <2> HIDE DEF v
  <2> QED
    BY <1>7, <1>4
<1> HIDE DEF v
<1>14. l \in {0, 1, 2, 3} /\ Lanes = 0 .. 3
  BY DEF Lanes
<1> QED
  BY <1>8, <1>12, <1>13, <1>14 DEF get_byte, LaneWeight, b0, b1, b2, b3

\* Applying the line a store leaves in the memory trace changes memory exactly as
\* the store does: for every size, address, aligned or not, and value.
THEOREM StoreReplays ==
    ASSUME NEW c, NEW i, i.funct3 \in StoreCodes,
           c.registers[i.rs1] \in Word, i.imm \in Word, c.registers[i.rs2] \in Word,
           DOMAIN c = {"halted", "cycle", "pc", "registers", "segments"}
    PROVE  ReplayAccess(c.segments, OP_STORE(c, i).access) = OP_STORE(c, i).cpu.segments
<1> DEFINE size  == AccessSize(i.funct3)
           addr  == Address(c, i)
           index == IF size = 4 THEN 0 ELSE addr % 4
           value == c.registers[i.rs2]
           word  == aligned_addr(addr)
           old   == mem_read32(c.segments, word)
           line_data == PutLanes(0, index, size, value)
           data  == IF size = 4 THEN value ELSE PutLanes(old, index, size, value)
           mask  == LaneMask(index, size)
           merged == MergeLanes(old, mask, line_data)
<1>1. Modulus \in Nat \ {0} /\ Lane \in Nat \ {0} /\ Modulus = Lane * Lane * Lane * Lane
  BY LaneAssumption DEF Modulus
<1>2. addr \in Nat
  BY <1>1 DEF Address, Add, Word
<1>3. size \in {1, 2, 4} /\ index \in 0 .. 3 /\ word \in Nat /\ word % 4 = 0
      /\ (addr = word <=> addr % 4 = 0)
  <2>1. size \in {1, 2, 4}
    BY DEF AccessSize
  <2> HIDE DEF size, addr
  <2> QED
    BY <1>2, <2>1 DEF aligned_addr
<1>4. /\ OP_STORE(c, i).access = Access(TRUE, addr, mask, line_data)
      /\ OP_STORE(c, i).cpu.segments = mem_write32(c.segments, WordAsked(i, addr), data)
  BY DEF OP_STORE, NextPc, HaltIf
<1>5. ASSUME NEW v \in Int, NEW k \in Lanes PROVE get_byte(v, k) \in Byte
  BY <1>1 DEF get_byte, LaneWeight, Lanes, Byte
<1>6. \A l \in Lanes : get_byte(line_data, l) =
        IF l \in index .. index + size - 1 THEN get_byte(value, l - index) ELSE get_byte(0, l)
  <2> DEFINE z == [l \in Lanes |-> IF l \in index .. index + size - 1
                                   THEN get_byte(value, l - index) ELSE get_byte(0, l)]
  <2>1. value \in Int
    BY <1>1 DEF Word
  <2>2. z \in [Lanes -> Byte]
    BY <1>3, <1>5, <2>1 DEF Lanes
  <2>3. line_data = FromLanes(z)
    BY DEF PutLanes
  <2> HIDE DEF line_data, z
  <2>4. \A l \in Lanes : get_byte(line_data, l) = z[l]
    BY <2>2, <2>3, LaneRoundTrip
  <2> QED
    BY <2>4 DEF z
<1>7. CASE size # 4
  <2>1. mask # Lanes /\ \A l \in Lanes : l \in mask <=> l \in index .. index + size - 1
    <3> HIDE DEF size, index
    <3>1. size \in {1, 2} /\ index \in 0 .. 3
      BY <1>3, <1>7
    <3>2. \A l \in Lanes : l \in mask <=> l \in index .. index + size - 1
      BY <3>1 DEF LaneMask, Lanes
    <3>3. 0 \notin index .. index + size - 1 \/ 3 \notin index .. index + size - 1
      BY <3>1
    <3> QED
      BY <3>2, <3>3 DEF Lanes
  <2>2. merged = data
    BY <1>6, <1>7, <2>1 DEF MergeLanes, PutLanes
  <2>3. WordAsked(i, addr) = word
    BY <1>7 DEF WordAsked
  <2> HIDE DEF merged, data, mask, line_data, word
  <2> QED
    BY <1>4, <2>1, <2>2, <2>3 DEF ReplayAccess, Access, mem_write32, word, merged, old
<1>8. CASE size = 4
  <2>1. mask = Lanes /\ index = 0
    BY <1>8 DEF LaneMask, Lanes
  <2>2. \A l \in Lanes : get_byte(merged, l) = get_byte(value, l)
    <3> DEFINE z == [l \in Lanes |-> get_byte(line_data, l)]
    <3>1. \A l \in Lanes : z[l] = get_byte(value, l)
      BY <1>6, <1>8, <2>1 DEF Lanes
    <3>2. value \in Int
      BY <1>1 DEF Word
    <3>3. z \in [Lanes -> Byte]
      BY <1>5, <3>1, <3>2
    <3>4. merged = FromLanes(z)
      BY <2>1 DEF MergeLanes
    <3> HIDE DEF merged, z
    <3> QED
      BY <3>1, <3>3, <3>4, LaneRoundTrip
  <2>3. WordAsked(i, addr) = addr /\ data = value
    BY <1>8 DEF WordAsked
  <2>4. ASSUME NEW s PROVE mem_write_word(c.segments, s, word, merged)
                             = mem_write_word(c.segments, s, word, value)
    <3> HIDE DEF merged, value, word
    <3> QED
      BY <2>2 DEF mem_write_word, Lanes
  <2>5. CASE addr # word
    BY <1>2, <1>3, <1>4, <2>1, <2>3, <2>5 DEF ReplayAccess, Access, mem_write32, AccessFaults
  <2>6. CASE addr = word
    <3> HIDE DEF merged, value, line_data
    <3> QED
      BY <1>4, <2>1, <2>3, <2>4, <2>6 DEF ReplayAccess, Access, mem_write32, merged
  <2> QED
    BY <2>5, <2>6
<1> QED
  BY <1>7, <1>8

-----------------------------------------------------------------------------
(* Types. *)

TypedSegment(g) ==
    /\ g = [size |-> g.size, mem |-> g.mem]
    /\ g.size \in 0 .. Modulus - 1
    /\ \E n \in {0, g.size} : g.mem \in [1 .. n -> Byte]

TypedMemory(segments) == \A s \in SegmentIds : TypedSegment(segments[s])

TypedCpu(c) ==
    /\ CpuShape(c)
    /\ c.halted \in BOOLEAN
    /\ c.cycle \in 0 .. MaxCycle
    /\ c.pc \in Word
    /\ c.registers \in [Registers -> Word]
    /\ c.registers[0] = 0
    /\ TypedMemory(c.segments)

\* A word has at least 16 values, however narrow a byte is.
LEMMA ModulusFact ==
    /\ Modulus \in Nat \ {0} /\ Lane \in Nat \ {0, 1} /\ Modulus >= 16
    /\ 0 \in Word /\ 0 \in Byte
<1>1. Lane \in Nat /\ Lane >= 2
  BY LaneAssumption
<1>2. Lane * Lane >= 4 /\ Lane * Lane \in Nat
  BY <1>1
<1>3. ASSUME NEW m \in Nat, m >= 4 PROVE m * Lane >= 8 /\ m * Lane \in Nat
  BY <1>1, <1>3
<1>4. Lane * Lane * Lane >= 8 /\ Lane * Lane * Lane \in Nat
  BY <1>2, <1>3
<1>5. ASSUME NEW m \in Nat, m >= 8 PROVE m * Lane >= 16 /\ m * Lane \in Nat
  BY <1>1, <1>5
<1>6. Modulus >= 16 /\ Modulus \in Nat
  BY <1>4, <1>5 DEF Modulus
<1> QED
  BY <1>1, <1>6, LaneAssumption DEF Word, Byte

\* What the operators on words return.
LEMMA LanesType == ASSUME NEW b \in [Lanes -> Int] PROVE FromLanes(b) \in Word
<1>1. \A l \in Lanes : b[l] \in Int /\ LaneWeight[l] \in Int
  BY ModulusFact DEF LaneWeight, Lanes
<1> DEFINE v == b[0] * LaneWeight[0] + b[1] * LaneWeight[1]
                + b[2] * LaneWeight[2] + b[3] * LaneWeight[3]
<1>2. v \in Int
  BY <1>1 DEF Lanes
<1>3. FromLanes(b) = v % Modulus
  BY DEF FromLanes
<1> HIDE DEF v
<1> QED
  BY <1>2, <1>3, ModulusFact DEF Word

\* A lane of a word is a byte.
LEMMA ByteType == ASSUME NEW v \in Int, NEW l \in Lanes PROVE get_byte(v, l) \in Byte
  BY ModulusFact DEF get_byte, LaneWeight, Lanes, Byte

\* Sums, differences and aligned addresses are words.
LEMMA WordType ==
    ASSUME NEW x \in Word, NEW y \in Word
    PROVE  /\ Add(x, y) \in Word /\ Sub(x, y) \in Word /\ Not(x) \in Word
           /\ Amount(x) \in 0 .. XLEN - 1
           /\ \A b \in BOOLEAN : Truth(b) \in Word
           /\ Add(x, 4) \in Word
           /\ x - (x % 2) \in Word /\ x - (x % 4) \in Word
<1>1. Modulus \in Nat /\ Modulus >= 16
  BY ModulusFact
<1>2. XLEN \in Nat \ {0}
  BY ShiftAssumption
<1> QED
  BY <1>1, <1>2 DEF Word, Add, Sub, Not, Amount, Truth

\* So are the lanes taken out of a word, put into one, and extended.
LEMMA FieldsType ==
    ASSUME NEW v \in Word, NEW w \in Word, NEW index \in 0 .. 3, NEW size \in {1, 2, 4}
    PROVE  /\ TakeLanes(v, index, size) \in Word
           /\ PutLanes(v, index, size, w) \in Word
           /\ SignExtend(v, size) \in Word
<1>1. v \in Int /\ w \in Int /\ Byte \subseteq Int /\ 0 \in Int /\ Lane - 1 \in Int
  BY ModulusFact DEF Word, Byte
<1>2. TakeLanes(v, index, size) \in Word
  BY <1>1, ByteType, LanesType DEF TakeLanes
<1>3. PutLanes(v, index, size, w) \in Word
  <2>1. ASSUME NEW l \in Lanes, l \in index .. index + size - 1 PROVE l - index \in Lanes
    BY <2>1 DEF Lanes
  <2> QED
    BY <1>1, <2>1, ByteType, LanesType DEF PutLanes
<1>4. SignExtend(v, size) \in Word
  BY <1>1, ByteType, LanesType DEF SignExtend
<1> QED
  BY <1>2, <1>3, <1>4

\* So is every result of OP_OP and OP_IMM.
LEMMA ArithmeticType ==
    ASSUME NEW x \in Word, NEW y \in Word, NEW funct3, NEW alternate \in BOOLEAN
    PROVE  Arithmetic(funct3, alternate, x, y) \in Word
<1>1. Amount(y) \in 0 .. XLEN - 1
  BY WordType
<1>2. ShiftRightArith(x, Amount(y)) \in Word
  BY <1>1, WordType, ShifterAssumption DEF ShiftRightArith
<1>3. ShiftLeft(x, Amount(y)) \in Word /\ ShiftRight(x, Amount(y)) \in Word
  BY <1>1, ShifterAssumption
<1>4. Truth(LessSigned(x, y)) \in Word /\ Truth(x < y) \in Word
  BY ModulusFact DEF Truth, Word
<1>5. 0 \in Word
  BY ModulusFact
<1> QED
  BY <1>2, <1>3, <1>4, <1>5, WordType, BitwiseAssumption DEF Arithmetic

\* The five segments do not overlap the ends of the address space.
LEMMA Layout ==
    ASSUME NEW s \in SegmentIds
    PROVE  /\ MEMORY_SEGMENTS[s].base_addr \in Nat
           /\ MEMORY_SEGMENTS[s].base_addr % 4 = 0
           /\ MEMORY_SEGMENTS[s].max_size \in Nat
           /\ MEMORY_SEGMENTS[s].base_addr + MEMORY_SEGMENTS[s].max_size < Modulus
  BY SegmentAssumption, ModulusFact DEF MEMORY_SEGMENTS, Segment, SegmentIds, Word

\* The first of some segments is one of them.
LEMMA FirstSegment ==
    ASSUME NEW S \in SUBSET SegmentIds, S # {}
    PROVE  Min(S) \in S /\ \A t \in S : Min(S) <= t
<1>1. \E m \in S : \A t \in S : m <= t
  <2>1. CASE 1 \in S
    BY <2>1 DEF SegmentIds
  <2>2. CASE 1 \notin S /\ 2 \in S
    BY <2>2 DEF SegmentIds
  <2>3. CASE 1 \notin S /\ 2 \notin S /\ 3 \in S
    BY <2>3 DEF SegmentIds
  <2>4. CASE 1 \notin S /\ 2 \notin S /\ 3 \notin S /\ 4 \in S
    BY <2>4 DEF SegmentIds
  <2>5. CASE 1 \notin S /\ 2 \notin S /\ 3 \notin S /\ 4 \notin S
    <3>1. \A t \in S : t = 5
      BY <2>5 DEF SegmentIds
    <3> QED
      BY <3>1
  <2> QED
    BY <2>1, <2>2, <2>3, <2>4, <2>5
<1> QED
  BY <1>1 DEF Min

\* An access that is not refused lies in the buffer of one segment, all four lanes.
LEMMA InsideBuffer ==
    ASSUME NEW segments, Backed(segments), NEW addr \in Nat, ~AccessFaults(segments, addr),
           \A s \in SegmentIds : segments[s].size \in Nat
    PROVE  LET s == mem_find_segment(segments, addr)
               offset == addr - MEMORY_SEGMENTS[s].base_addr
           IN  s \in SegmentIds /\ offset \in Nat /\ offset + 4 <= segments[s].size
<1> DEFINE s == mem_find_segment(segments, addr)
           around == SegmentsAround(segments, addr)
<1>1. addr % 4 = 0 /\ s # NoSegment
  BY DEF AccessFaults
<1>2. around # {} /\ s = Min(around)
  BY <1>1 DEF mem_find_segment
<1>3. s \in around
  BY <1>2, FirstSegment DEF SegmentsAround
<1>4. s \in SegmentIds /\ MEMORY_SEGMENTS[s].base_addr <= addr /\ addr < segment_end_addr(segments, s)
  BY <1>3 DEF SegmentsAround
<1> DEFINE base == MEMORY_SEGMENTS[s].base_addr
           max  == MEMORY_SEGMENTS[s].max_size
           size == segments[s].size
<1>5. base \in Nat /\ base % 4 = 0 /\ max \in Nat /\ base + max < Modulus
  BY <1>4, Layout
<1>6. size \in Nat /\ size % 4 = 0 /\ size <= max
  BY <1>4 DEF Backed
<1>7. segment_end_addr(segments, s) = (base + size) % Modulus
  BY DEF segment_end_addr
<1> HIDE DEF s, base, max, size
<1>8. (base + size) % Modulus = base + size
  BY <1>5, <1>6, ModulusFact
<1>9. base <= addr /\ addr < base + size
  BY <1>4, <1>7, <1>8 DEF base
<1>10. addr - base + 4 <= size
  BY <1>1, <1>5, <1>6, <1>9
<1> QED
  BY <1>4, <1>5, <1>9, <1>10 DEF s, base, size

\* A read gives a word, refused or not.
LEMMA ReadType ==
    ASSUME NEW segments, Backed(segments), TypedMemory(segments), NEW addr \in Nat
    PROVE  mem_read32(segments, addr) \in Word
<1>1. CASE AccessFaults(segments, addr)
  BY <1>1, ModulusFact DEF mem_read32
<1>2. CASE ~AccessFaults(segments, addr)
  <2> DEFINE s == mem_find_segment(segments, addr)
             offset == addr - MEMORY_SEGMENTS[s].base_addr
             mem == segments[s].mem
  <2>0. ASSUME NEW t \in SegmentIds PROVE segments[t].size \in Nat
    <3>1. segments[t].size \in 0 .. Modulus - 1
      BY DEF TypedMemory, TypedSegment
    <3> QED
      BY <3>1
  <2>1. s \in SegmentIds /\ offset \in Nat /\ offset + 4 <= segments[s].size
    BY <1>2, <2>0, InsideBuffer
  <2>2. PICK n \in {0, segments[s].size} : mem \in [1 .. n -> Byte]
    BY <2>1 DEF TypedMemory, TypedSegment
  <2>3. DOMAIN mem = 1 .. segments[s].size
    BY <2>1 DEF Backed
  <2>4. mem_read32(segments, addr) = FromLanes([l \in Lanes |-> mem[offset + l + 1]])
    BY <1>2 DEF mem_read32, mem_read_word
  <2> HIDE DEF s, offset, mem
  <2>5. \A l \in Lanes : offset + l + 1 \in DOMAIN mem
    BY <2>0, <2>1, <2>2, <2>3 DEF Lanes
  <2>6. \A k \in DOMAIN mem : mem[k] \in Int
    BY <2>2, ModulusFact DEF Byte
  <2>7. [l \in Lanes |-> mem[offset + l + 1]] \in [Lanes -> Int]
    BY <2>5, <2>6
  <2> QED
    BY <2>4, <2>7, LanesType
<1> QED
  BY <1>1, <1>2

\* A word written anywhere leaves bytes.
LEMMA WriteType ==
    ASSUME NEW segments, SegmentShape(segments), TypedMemory(segments),
           NEW s, NEW addr, NEW v \in Word
    PROVE  TypedMemory(mem_write_word(segments, s, addr, v))
<1> DEFINE offset == addr - MEMORY_SEGMENTS[s].base_addr
           w == mem_write_word(segments, s, addr, v)
<1>1. ASSUME NEW t \in SegmentIds, t # s PROVE w[t] = segments[t]
  BY <1>1 DEF mem_write_word, SegmentShape
<1>5. ASSUME s \in SegmentIds PROVE
        w[s] = [segments[s] EXCEPT !.mem = [k \in DOMAIN segments[s].mem |->
                  IF k - offset \in 1 .. 4 THEN get_byte(v, k - offset - 1) ELSE segments[s].mem[k]]]
  BY <1>5 DEF mem_write_word, SegmentShape
<1>3. ASSUME NEW k, k - offset \in 1 .. 4 PROVE get_byte(v, k - offset - 1) \in Byte
  <2> DEFINE d == k - offset
  <2>1. d - 1 \in Lanes
    BY <1>3 DEF Lanes
  <2> HIDE DEF d
  <2>2. v \in Int
    BY ModulusFact DEF Word
  <2>3. get_byte(v, d - 1) \in Byte
    BY <2>1, <2>2, ByteType
  <2> QED
    BY <2>3 DEF d
<1> HIDE DEF w, offset
<1>4. ASSUME NEW t \in SegmentIds PROVE TypedSegment(w[t])
  <2>1. CASE t # s
    BY <1>1, <2>1 DEF TypedMemory
  <2>2. CASE t = s
    <3> DEFINE m == [k \in DOMAIN segments[s].mem |->
                      IF k - offset \in 1 .. 4 THEN get_byte(v, k - offset - 1) ELSE segments[s].mem[k]]
    <3>1. PICK n \in {0, segments[s].size} : segments[s].mem \in [1 .. n -> Byte]
      BY <2>2 DEF TypedMemory, TypedSegment
    <3>2. m \in [1 .. n -> Byte]
      BY <1>3, <2>2, <3>1
    <3>3. segments[s] = [size |-> segments[s].size, mem |-> segments[s].mem]
      BY <2>2 DEF TypedMemory, TypedSegment
    <3>4. w[s] = [segments[s] EXCEPT !.mem = m]
      BY <1>5, <2>2
    <3> HIDE DEF m
    <3>5. w[s] = [size |-> segments[s].size, mem |-> m]
      BY <3>3, <3>4
    <3> QED
      <4>1. w[s].size = segments[s].size /\ w[s].mem = m
        BY <3>5
      <4>2. segments[s].size \in 0 .. Modulus - 1
        BY <2>2 DEF TypedMemory, TypedSegment
      <4> QED
        BY <2>2, <3>1, <3>2, <3>5, <4>1, <4>2 DEF TypedSegment
  <2> QED
    BY <2>1, <2>2
<1> QED
  BY <1>4 DEF TypedMemory, w

\* One instruction, of any kind, leaves every field of the processor with its type.
LEMMA RunType ==
    ASSUME NEW c, TypedCpu(c), Backed(c.segments)
    PROVE  TypedCpu(RunCycle(c).cpu)
<1> DEFINE fault == AccessFaults(c.segments, c.pc)
           f == HaltIf(c, fault)
           w0 == mem_read32(c.segments, c.pc)
           i == Decode(w0)
           Typed(d) == TypedCpu(d)
<1>1. fault \in BOOLEAN
  BY DEF AccessFaults
<1>2. ASSUME NEW d, Typed(d), NEW b \in BOOLEAN PROVE Typed(HaltIf(d, b))
  BY <1>2 DEF HaltIf, TypedCpu, CpuShape
<1>3. ASSUME NEW d, Typed(d) PROVE Typed(Halt(d)) /\ Typed(NextPc(d))
  <2>1. Add(d.pc, 4) \in Word
    BY <1>3, WordType DEF TypedCpu
  <2> QED
    BY <1>3, <2>1 DEF Halt, NextPc, TypedCpu, CpuShape
<1>4. ASSUME NEW d, Typed(d), NEW rd \in Registers, NEW v \in Word
      PROVE  /\ register_write(d.registers, rd, v) \in [Registers -> Word]
             /\ register_write(d.registers, rd, v)[0] = 0
  BY <1>4 DEF register_write, TypedCpu
<1>5. ASSUME NEW d, Typed(d), NEW r \in [Registers -> Word], r[0] = 0
      PROVE  Typed([d EXCEPT !.registers = r])
  BY <1>5 DEF TypedCpu, CpuShape
<1>17. ASSUME NEW d, Typed(d), NEW pc \in Word PROVE Typed([d EXCEPT !.pc = pc])
  BY <1>17 DEF TypedCpu, CpuShape
<1>6. ASSUME NEW d, Typed(d), NEW rd \in Registers, NEW v \in Word PROVE Typed(WriteBack(d, rd, v))
  <2> DEFINE r == register_write(d.registers, rd, v)
  <2>1. WriteBack(d, rd, v) = NextPc([d EXCEPT !.registers = r])
    BY DEF WriteBack
  <2>2. r \in [Registers -> Word] /\ r[0] = 0
    BY <1>4, <1>6
  <2>3. d.pc \in Word
    BY <1>6 DEF TypedCpu
  <2> HIDE DEF r, Typed
  <2> QED
    BY <1>3, <1>5, <1>6, <2>1, <2>2, <2>3
<1>7. w0 \in Word
  BY ReadType DEF TypedCpu, Word
<1>8. /\ i.rd \in Registers /\ i.rs1 \in Registers /\ i.rs2 \in Registers
      /\ i.imm \in Word
  BY <1>7, DecodeAssumption DEF Instruction
<1>9. Typed(f)
  BY <1>1, <1>2
<1>10. f.segments = c.segments
  BY DEF HaltIf, TypedCpu, CpuShape
<1> DEFINE x == f.registers[i.rs1]
           y == f.registers[i.rs2]
<1>11. x \in Word /\ y \in Word /\ f.pc \in Word /\ Add(f.pc, 4) \in Word /\ Add(f.pc, i.imm) \in Word
       /\ Add(i.imm, f.pc) \in Word
  BY <1>8, <1>9, WordType DEF TypedCpu
<1> DEFINE r == register_write(f.registers, i.rd, Add(f.pc, 4))
<1>18. r \in [Registers -> Word] /\ r[0] = 0
  BY <1>4, <1>8, <1>9, <1>11
<1>12. Typed(Execute(f, i).cpu)
  <2> HIDE DEF f, i, Typed
  <2>1. Typed(OP_OP(f, i)) /\ Typed(OP_IMM(f, i))
    BY <1>3, <1>6, <1>8, <1>9, <1>11, ArithmeticType DEF OP_OP, OP_IMM
  <2>2. Typed(OP_LUI(f, i)) /\ Typed(OP_AUIPC(f, i))
    BY <1>6, <1>8, <1>9, <1>11 DEF OP_LUI, OP_AUIPC
  <2>3. Typed(OP_JAL(f, i))
    <3>1. OP_JAL(f, i) = [f EXCEPT !.registers = r, !.pc = Add(f.pc, i.imm)]
      BY DEF OP_JAL
    <3> HIDE DEF r
    <3> QED
      <4> DEFINE d == [f EXCEPT !.registers = r]
      <4>1. Typed(d)
        BY <1>5, <1>9, <1>18
      <4>2. OP_JAL(f, i) = [d EXCEPT !.pc = Add(f.pc, i.imm)]
        BY <3>1
      <4> HIDE DEF d
      <4> QED
        BY <1>11, <1>17, <4>1, <4>2
  <2>4. Typed(OP_JALR(f, i))
    <3> DEFINE target == Add(x, i.imm)
    <3>1. target - (target % 2) \in Word
      BY <1>8, <1>11, WordType
    <3> DEFINE even == target - (target % 2)
    <3>2. OP_JALR(f, i) = [f EXCEPT !.registers = r, !.pc = even]
      BY DEF OP_JALR
    <3> HIDE DEF even, r
    <3> QED
      <4> DEFINE d == [f EXCEPT !.registers = r]
      <4>1. Typed(d)
        BY <1>5, <1>9, <1>18
      <4>2. OP_JALR(f, i) = [d EXCEPT !.pc = even]
        BY <3>2
      <4>3. even \in Word
        BY <3>1 DEF even
      <4> HIDE DEF d
      <4> QED
        BY <1>17, <4>1, <4>2, <4>3
  <2>5. Typed(OP_BRANCH(f, i)) /\ Typed(OP_SYSTEM(f, i))
    <3>1. [f EXCEPT !.pc = Add(@, i.imm)] = [f EXCEPT !.pc = Add(f.pc, i.imm)]
      OBVIOUS
    <3>2. Typed([f EXCEPT !.pc = Add(@, i.imm)])
      BY <1>9, <1>11, <1>17, <3>1
    <3> QED
      BY <1>3, <1>9, <3>2 DEF OP_BRANCH, OP_SYSTEM
  <2>6. Typed(OP_LOAD(f, i).cpu)
    <3> DEFINE size   == AccessSize(i.funct3)
               addr   == Address(f, i)
               index  == IF size = 4 THEN 0 ELSE addr % 4
               asked  == WordAsked(i, addr)
               word   == mem_read32(f.segments, asked)
               result == TakeLanes(word, index, size)
               value  == IF i.funct3 \in {"LB", "LH"} THEN SignExtend(result, size) ELSE result
    <3>1. addr \in Word /\ addr - (addr % 4) \in Word
      BY <1>8, <1>11, WordType DEF Address
    <3>2. size \in {1, 2, 4} /\ index \in 0 .. 3 /\ asked \in Nat
      <4>1. size \in {1, 2, 4}
        BY DEF AccessSize
      <4>2. asked \in Nat
        BY <3>1 DEF WordAsked, aligned_addr, Word
      <4> HIDE DEF size, addr
      <4> QED
        BY <3>1, <4>1, <4>2 DEF Word
    <3>3. word \in Word
      BY <1>9, <1>10, <3>2, ReadType DEF TypedCpu
    <3> HIDE DEF word, size, index, asked
    <3>4. value \in Word
      BY <3>2, <3>3, FieldsType
    <3>5. AccessFaults(f.segments, asked) \in BOOLEAN
      BY DEF AccessFaults
    <3>6. OP_LOAD(f, i).cpu = IF i.funct3 \notin LoadCodes THEN Halt(f)
                              ELSE HaltIf(WriteBack(f, i.rd, value), AccessFaults(f.segments, asked))
      BY DEF OP_LOAD, word, size, index, asked
    <3> HIDE DEF value
    <3> QED
      BY <1>2, <1>3, <1>6, <1>8, <1>9, <3>4, <3>5, <3>6
  <2>7. Typed(OP_STORE(f, i).cpu)
    <3> DEFINE size   == AccessSize(i.funct3)
               addr   == Address(f, i)
               index  == IF size = 4 THEN 0 ELSE addr % 4
               asked  == WordAsked(i, addr)
               old    == mem_read32(f.segments, aligned_addr(addr))
               data   == IF size = 4 THEN y ELSE PutLanes(old, index, size, y)
               written == mem_write32(f.segments, asked, data)
    <3>1. addr \in Word /\ aligned_addr(addr) \in Word
      BY <1>8, <1>11, WordType DEF Address, aligned_addr
    <3>2. size \in {1, 2, 4} /\ index \in 0 .. 3
      <4>1. size \in {1, 2, 4}
        BY DEF AccessSize
      <4> HIDE DEF size, addr
      <4> QED
        BY <3>1, <4>1 DEF Word
    <3>3. old \in Word
      BY <1>9, <1>10, <3>1, ReadType DEF TypedCpu, Word
    <3> HIDE DEF old, size, index
    <3>4. data \in Word
      BY <1>11, <3>2, <3>3, FieldsType
    <3> HIDE DEF data
    <3>5. TypedMemory(written) /\ SegmentShape(written)
      BY <1>10, <3>4, WriteType, RunKeeps DEF mem_write32, TypedCpu, CpuShape
    <3>6. AccessFaults(f.segments, asked) \in BOOLEAN
      BY DEF AccessFaults
    <3>7. OP_STORE(f, i).cpu = IF i.funct3 \notin StoreCodes THEN Halt(f)
            ELSE NextPc(HaltIf([f EXCEPT !.segments = written], AccessFaults(f.segments, asked)))
      BY DEF OP_STORE, old, size, index, data
    <3> HIDE DEF written, asked
    <3>8. Typed([f EXCEPT !.segments = written])
      BY <1>9, <3>5 DEF Typed, TypedCpu, CpuShape
    <3> QED
      BY <1>2, <1>3, <1>9, <3>6, <3>7, <3>8
  <2> QED
    BY <1>3, <1>9, <2>1, <2>2, <2>3, <2>4, <2>5, <2>6, <2>7 DEF Execute
<1>13. TypedCpu(process_instruction(c).cpu)
  BY <1>12 DEF process_instruction
<1> DEFINE p == process_instruction(c)
<1>14. DOMAIN p = {"cpu", "access"}
  BY DEF process_instruction, Execute, OP_LOAD, OP_STORE
<1>15. RunCycle(c).cpu = [p.cpu EXCEPT !.cycle = IF p.cpu.cycle < MaxCycle THEN p.cpu.cycle + 1 ELSE p.cpu.cycle]
  <2> HIDE DEF p
  <2>1. RunCycle(c) = [p EXCEPT !.cpu.cycle = IF @ < MaxCycle THEN @ + 1 ELSE @]
    BY DEF RunCycle, p
  <2> QED
    BY <1>14, <2>1
<1> HIDE DEF p
<1>16. (IF p.cpu.cycle < MaxCycle THEN p.cpu.cycle + 1 ELSE p.cpu.cycle) \in 0 .. MaxCycle
  BY <1>13, RegisterAssumption DEF TypedCpu, p
<1> QED
  BY <1>13, <1>15, <1>16 DEF TypedCpu, CpuShape, p

\* What the operating system's files hold: bytes, fewer than a word can count (the
\* size is kept in a uint32_t).
FilesHoldBytes ==
    \A path, extension : /\ DataFile(path, extension).bytes \in Seq(Byte)
                         /\ Len(DataFile(path, extension).bytes) < Modulus

\* Loading a program, successfully or not, leaves every field with its type.
LEMMA LoadType ==
    ASSUME FilesHoldBytes, NEW c, CpuShape(c), Freed(c.segments), TypedMemory(c.segments),
           NEW path, NEW stack \in StackContents
    PROVE  TypedCpu(init_cpu_state(c, path, stack))
<1> DEFINE file == StripExtension(path)
           Result(s) ==
              IF MEMORY_SEGMENTS[s].extension = NoExtension
              THEN [ok |-> TRUE,
                    segment |-> malloc_mem_segment(MEMORY_SEGMENTS[s].max_size, stack)]
              ELSE load_mem_segment(c.segments[s], MEMORY_SEGMENTS[s].max_size,
                                    DataFile(file, MEMORY_SEGMENTS[s].extension))
           Failed == {s \in SegmentIds : ~Result(s).ok}
           loaded == mem_load_program(c.segments, file, stack)
           Typed(segment) == TypedSegment(segment)
<1>1. NULL \in [1 .. 0 -> Byte]
  BY DEF NULL
<1>2. ASSUME NEW s \in SegmentIds PROVE Typed(Result(s).segment)
  <2> DEFINE max_size == MEMORY_SEGMENTS[s].max_size
  <2>1. CASE MEMORY_SEGMENTS[s].extension = NoExtension
    <3>1. max_size = STACK_END - STACK_START /\ max_size \in 0 .. Modulus - 1
      BY <2>1, SegmentAssumption, ModulusFact
         DEF MEMORY_SEGMENTS, Segment, SegmentIds, NoExtension, Word
    <3>2. stack \in [1 .. max_size -> Byte]
      BY <3>1, StackAssumption
    <3> HIDE DEF max_size
    <3>3. Result(s).segment = [size |-> max_size, mem |-> stack]
      BY <2>1 DEF malloc_mem_segment, max_size
    <3> DEFINE g == Result(s).segment
    <3>4. g = [size |-> max_size, mem |-> stack]
      BY <3>3
    <3> HIDE DEF g
    <3>5. g.size = max_size /\ g.mem = stack /\ g = [size |-> g.size, mem |-> g.mem]
      BY <3>4
    <3>6. TypedSegment(g)
      BY <3>1, <3>2, <3>5 DEF TypedSegment
    <3> QED
      BY <3>6 DEF g
  <2>2. CASE MEMORY_SEGMENTS[s].extension # NoExtension
    <3> DEFINE old  == c.segments[s]
               data == DataFile(file, MEMORY_SEGMENTS[s].extension)
               size == Len(data.bytes)
               r    == load_mem_segment(old, max_size, data)
    <3>1. data.bytes \in Seq(Byte) /\ size < Modulus
      BY DEF FilesHoldBytes
    <3>2. size \in 0 .. Modulus - 1 /\ data.bytes \in [1 .. size -> Byte]
      <4>1. size \in Nat /\ data.bytes \in [1 .. size -> Byte]
        BY <3>1, LenProperties
      <4> HIDE DEF size
      <4> QED
        BY <3>1, <4>1, ModulusFact
    <3>3. old.mem = NULL /\ DOMAIN old = {"size", "mem"} /\ Typed(old)
      BY DEF CpuShape, SegmentShape, Freed, TypedMemory
    <3>4. \/ r.segment = old
          \/ r.segment = [old EXCEPT !.size = 0]
          \/ r.segment = [old EXCEPT !.size = size]
          \/ r.segment = [size |-> 0, mem |-> NULL]
          \/ r.segment = [size |-> size, mem |-> [k \in 1 .. size |-> data.bytes[k]]]
      BY DEF load_mem_segment
    <3> HIDE DEF r, old, data, size
    <3>5. ASSUME NEW n \in 0 .. Modulus - 1 PROVE Typed([old EXCEPT !.size = n])
      <4>1. old = [size |-> old.size, mem |-> NULL]
        BY <3>3 DEF TypedSegment
      <4>2. [old EXCEPT !.size = n] = [size |-> n, mem |-> NULL]
        BY <4>1
      <4> QED
        BY <1>1, <4>2 DEF TypedSegment
    <3>6. Typed([size |-> 0, mem |-> NULL])
      BY <1>1, ModulusFact DEF TypedSegment
    <3>7. Typed([size |-> size, mem |-> [k \in 1 .. size |-> data.bytes[k]]])
      <4>1. [k \in 1 .. size |-> data.bytes[k]] \in [1 .. size -> Byte]
        BY <3>2
      <4> QED
        BY <3>2, <4>1 DEF TypedSegment
    <3>8. Typed(r.segment)
      <4>1. 0 \in 0 .. Modulus - 1
        BY ModulusFact
      <4> HIDE DEF Typed
      <4> QED
        BY <3>2, <3>3, <3>4, <3>5, <3>6, <3>7, <4>1
    <3> QED
      BY <2>2, <3>8 DEF r, old, data
  <2> QED
    BY <2>1, <2>2
<1>3. TypedMemory(loaded.segments)
  <2>1. loaded = IF Failed = {}
                 THEN [ok |-> TRUE, segments |-> [s \in SegmentIds |-> Result(s).segment]]
                 ELSE [ok |-> FALSE,
                       segments |-> mem_unload_program(
                         [s \in SegmentIds |-> IF s <= Min(Failed) THEN Result(s).segment
                                                                   ELSE c.segments[s]])]
    BY DEF mem_load_program
  <2> HIDE DEF Result
  <2>2. CASE Failed = {}
    BY <1>2, <2>1, <2>2 DEF TypedMemory
  <2>3. CASE Failed # {}
    <3> DEFINE partial == [s \in SegmentIds |-> IF s <= Min(Failed) THEN Result(s).segment
                                                                    ELSE c.segments[s]]
    <3>1. \A s \in SegmentIds : Typed(partial[s])
      BY <1>2 DEF TypedMemory
    <3> HIDE DEF partial
    <3>2. \A s \in SegmentIds : Typed(mem_unload_program(partial)[s])
      <4>1. Typed([size |-> 0, mem |-> NULL])
        BY <1>1, ModulusFact DEF TypedSegment
      <4> HIDE DEF Typed
      <4> QED
        BY <3>1, <4>1 DEF mem_unload_program
    <3>3. loaded.segments = mem_unload_program(partial)
      BY <2>1, <2>3 DEF partial
    <3> QED
      BY <3>2, <3>3 DEF TypedMemory
  <2> QED
    BY <2>2, <2>3
<1>4. StartRegisters \in [Registers -> Word] /\ StartRegisters[0] = 0
  BY RegisterAssumption, SegmentAssumption, ModulusFact DEF StartRegisters, Registers
<1>5. USER_TEXT_START \in Word /\ 0 \in 0 .. MaxCycle /\ loaded.ok \in BOOLEAN
  <2>1. loaded.ok \in BOOLEAN
    BY DEF mem_load_program
  <2> QED
    BY <2>1, SegmentAssumption, RegisterAssumption
<1>6. CpuShape(init_cpu_state(c, path, stack))
  BY LoadKeeps
<1> HIDE DEF loaded
<1>7. init_cpu_state(c, path, stack) =
        [c EXCEPT !.halted = ~loaded.ok, !.cycle = 0, !.pc = USER_TEXT_START,
                  !.registers = StartRegisters, !.segments = loaded.segments]
  BY DEF init_cpu_state, loaded
<1> QED
  BY <1>3, <1>4, <1>5, <1>6, <1>7 DEF TypedCpu, CpuShape

\* A program that loads is loaded the same, whatever was unloaded before it.
LEMMA LoadFresh ==
    ASSUME NEW c, CpuShape(c), Freed(c.segments), NEW d, CpuShape(d), Freed(d.segments),
           NEW path, NEW stack \in StackContents, ~init_cpu_state(c, path, stack).halted
    PROVE  init_cpu_state(c, path, stack) = init_cpu_state(d, path, stack)
<1> DEFINE file == StripExtension(path)
           Result(e, s) ==
              IF MEMORY_SEGMENTS[s].extension = NoExtension
              THEN [ok |-> TRUE,
                    segment |-> malloc_mem_segment(MEMORY_SEGMENTS[s].max_size, stack)]
              ELSE load_mem_segment(e.segments[s], MEMORY_SEGMENTS[s].max_size,
                                    DataFile(file, MEMORY_SEGMENTS[s].extension))
           Failed(e) == {s \in SegmentIds : ~Result(e, s).ok}
           loaded(e) == mem_load_program(e.segments, file, stack)
<1>1. ASSUME NEW s \in SegmentIds
      PROVE  /\ Result(c, s).ok = Result(d, s).ok
             /\ Result(c, s).ok => Result(c, s).segment = Result(d, s).segment
  <2>1. ASSUME NEW old, DOMAIN old = {"size", "mem"}, old.mem = NULL,
               NEW new, DOMAIN new = {"size", "mem"}, new.mem = NULL, NEW m, NEW data
        PROVE  LET r == load_mem_segment(old, m, data)
                   t == load_mem_segment(new, m, data)
               IN  r.ok = t.ok /\ (r.ok => r.segment = t.segment)
    <3>1. [old EXCEPT !.size = 0] = [new EXCEPT !.size = 0]
      BY <2>1
    <3> QED
      BY <3>1 DEF load_mem_segment
  <2>2. /\ DOMAIN c.segments[s] = {"size", "mem"} /\ c.segments[s].mem = NULL
        /\ DOMAIN d.segments[s] = {"size", "mem"} /\ d.segments[s].mem = NULL
    BY DEF CpuShape, SegmentShape, Freed
  <2>3. CASE MEMORY_SEGMENTS[s].extension = NoExtension
    BY <2>3
  <2>4. CASE MEMORY_SEGMENTS[s].extension # NoExtension
    <3> DEFINE m == MEMORY_SEGMENTS[s].max_size
               data == DataFile(file, MEMORY_SEGMENTS[s].extension)
               old == c.segments[s]
               new == d.segments[s]
    <3>1. Result(c, s) = load_mem_segment(old, m, data) /\ Result(d, s) = load_mem_segment(new, m, data)
      BY <2>4
    <3> HIDE DEF m, data, old, new, Result
    <3>2. /\ DOMAIN old = {"size", "mem"} /\ old.mem = NULL
          /\ DOMAIN new = {"size", "mem"} /\ new.mem = NULL
      BY <2>2 DEF old, new
    <3> QED
      BY <2>1, <3>1, <3>2
  <2> QED
    BY <2>3, <2>4
<1>2. ASSUME NEW e
      PROVE  loaded(e) = IF Failed(e) = {}
               THEN [ok |-> TRUE, segments |-> [s \in SegmentIds |-> Result(e, s).segment]]
               ELSE [ok |-> FALSE,
                     segments |-> mem_unload_program(
                       [s \in SegmentIds |-> IF s <= Min(Failed(e)) THEN Result(e, s).segment
                                                                    ELSE e.segments[s]])]
  BY DEF mem_load_program
<1>3. ASSUME NEW e
      PROVE  init_cpu_state(e, path, stack) =
               [e EXCEPT !.halted = ~loaded(e).ok, !.cycle = 0, !.pc = USER_TEXT_START,
                         !.registers = StartRegisters, !.segments = loaded(e).segments]
  BY DEF init_cpu_state
<1> HIDE DEF loaded, Result
<1>4. loaded(c).ok
  BY <1>3 DEF CpuShape
<1>5. Failed(c) = {} /\ Failed(d) = {}
  <2>1. Failed(c) = {}
    BY <1>2, <1>4
  <2> QED
    BY <1>1, <2>1
<1>6. loaded(c) = loaded(d)
  <2>1. [s \in SegmentIds |-> Result(c, s).segment] = [s \in SegmentIds |-> Result(d, s).segment]
    BY <1>1, <1>5
  <2> QED
    BY <1>2, <1>5, <2>1
<1>7. ASSUME NEW e, CpuShape(e)
      PROVE  init_cpu_state(e, path, stack) =
               [halted |-> ~loaded(e).ok, cycle |-> 0, pc |-> USER_TEXT_START,
                registers |-> StartRegisters, segments |-> loaded(e).segments]
  <2> DEFINE h == ~loaded(e).ok
             m == loaded(e).segments
             n == [e EXCEPT !.halted = h, !.cycle = 0, !.pc = USER_TEXT_START,
                            !.registers = StartRegisters, !.segments = m]
             o == [halted |-> h, cycle |-> 0, pc |-> USER_TEXT_START,
                   registers |-> StartRegisters, segments |-> m]
  <2>1. init_cpu_state(e, path, stack) = n
    BY <1>3
  <2> HIDE DEF h, m
  <2>2. DOMAIN n = DOMAIN o /\ \A k \in DOMAIN o : n[k] = o[k]
    <3>1. DOMAIN e = {"halted", "cycle", "pc", "registers", "segments"}
      BY <1>7 DEF CpuShape
    <3>2. DOMAIN n = DOMAIN e /\ DOMAIN o = {"halted", "cycle", "pc", "registers", "segments"}
      OBVIOUS
    <3>3. n.halted = o.halted /\ n.cycle = o.cycle /\ n.pc = o.pc
          /\ n.registers = o.registers /\ n.segments = o.segments
      BY <3>1
    <3> HIDE DEF n, o
    <3> QED
      BY <3>1, <3>2, <3>3
  <2>3. n = [k \in DOMAIN n |-> n[k]] /\ o = [k \in DOMAIN o |-> o[k]]
    OBVIOUS
  <2>4. n = o
    <3> HIDE DEF n, o
    <3> QED
      BY <2>2, <2>3
  <2> QED
    BY <2>1, <2>4 DEF h, m
<1> QED
  BY <1>6, <1>7

\* Unloading frees every buffer and keeps the memory's type.
LEMMA Unloaded ==
    ASSUME NEW c, TypedCpu(c)
    PROVE  LET e == [c EXCEPT !.segments = mem_unload_program(@)] IN
           CpuShape(e) /\ Freed(e.segments) /\ TypedMemory(e.segments)
<1> DEFINE m == mem_unload_program(c.segments)
<1>1. SegmentShape(m) /\ Freed(m)
  BY DEF TypedCpu, CpuShape, SegmentShape, mem_unload_program, Freed
<1>2. TypedMemory(m)
  <2>1. 0 \in 0 .. Modulus - 1 /\ NULL \in [1 .. 0 -> Byte]
    BY ModulusFact DEF NULL
  <2> QED
    BY <2>1 DEF TypedCpu, TypedMemory, TypedSegment, mem_unload_program
<1>3. [c EXCEPT !.segments = mem_unload_program(@)] = [c EXCEPT !.segments = m]
  OBVIOUS
<1> HIDE DEF m
<1> QED
  BY <1>1, <1>2, <1>3 DEF TypedCpu, CpuShape

\* The rest of the state.
ControlType ==
    /\ DOMAIN program = {"path", "allocated"}
    /\ program.allocated \in BOOLEAN
    /\ modes \subseteq Modes
    /\ ctl \in {"prompt", "command", "step", "go", "told", "exited"}
    /\ left \in Int
    /\ sigint \in BOOLEAN
    /\ dump \in {"none", "empty", "written"}
    /\ commands \in 0 .. MaxCommands
    /\ caught \in BOOLEAN

TypeInv == TypedCpu(cpu) /\ SegmentsBacked /\ ControlType

\* Whatever a step is, it leaves the processor with its type.
LEMMA CpuStep ==
    ASSUME FilesHoldBytes, TypedCpu(cpu), SegmentsBacked, [Next]_vars
    PROVE  TypedCpu(cpu')
<1>1. CASE UNCHANGED cpu
  BY <1>1
<1>2. ASSUME NEW path, NEW stack \in StackContents, cpu' = Reload(path, stack)
      PROVE  TypedCpu(cpu')
  BY <1>2, Unloaded, LoadType DEF Reload
<1>3. CASE run_simulator /\ ~cpu.halted
  BY <1>3, RunType DEF run_simulator, SegmentsBacked
<1>4. CASE command_reg
  <2>1. CASE UNCHANGED cpu
    BY <2>1
  <2>2. ASSUME NEW rd \in Registers, NEW v \in Word,
               cpu' = [cpu EXCEPT !.registers = register_write(@, rd, v)]
        PROVE  TypedCpu(cpu')
    <3> DEFINE r == register_write(cpu.registers, rd, v)
    <3>1. cpu' = [cpu EXCEPT !.registers = r]
      BY <2>2
    <3>2. r \in [Registers -> Word] /\ r[0] = 0
      BY <2>2 DEF register_write, TypedCpu
    <3> HIDE DEF r
    <3> QED
      BY <3>1, <3>2 DEF TypedCpu, CpuShape
  <2>3. ASSUME NEW token, parse_int32(token).ok PROVE parse_int32(token).val \in Word
    BY <2>3, ModulusFact DEF parse_int32, Word, UINT32_MAX
  <2> QED
    BY <1>4, <2>1, <2>2, <2>3 DEF command_reg, Unchanged
<1>5. CASE command_mem
  <2>1. ASSUME NEW t, NEW a, NEW v \in Word, cpu' = [cpu EXCEPT !.segments = mem_write_word(@, t, a, v)]
        PROVE  TypedCpu(cpu')
    <3> DEFINE w == mem_write_word(cpu.segments, t, a, v)
    <3>1. cpu' = [cpu EXCEPT !.segments = w]
      BY <2>1
    <3>2. SegmentShape(w) /\ TypedMemory(w)
      BY RunKeeps, WriteType DEF TypedCpu, CpuShape
    <3> HIDE DEF w
    <3> QED
      BY <3>1, <3>2 DEF TypedCpu, CpuShape
  <2>2. ASSUME NEW token, parse_int32(token).ok PROVE parse_int32(token).val \in Word
    BY <2>2, ModulusFact DEF parse_int32, Word, UINT32_MAX
  <2> QED
    BY <1>1, <1>5, <2>1, <2>2 DEF command_mem, Crash, Unchanged
<1>6. CASE command_restart
  BY <1>1, <1>2, <1>6 DEF command_restart, Unchanged
<1>7. CASE command_load
  BY <1>1, <1>2, <1>7 DEF command_load, Unchanged
<1>8. CASE command_quit
  BY <1>1, <1>8 DEF command_quit, Unchanged, Halt, TypedCpu, CpuShape
<1>9. CASE StepLoop \/ GoLoop
  BY <1>1, <1>3, <1>9 DEF StepLoop, GoLoop
<1>10. CASE command_step \/ command_go \/ OtherLine \/ GoReset
  BY <1>1, <1>10 DEF command_step, command_go, OtherLine, GoReset, Unchanged
<1>11. CASE command_rdump \/ command_mdump
  BY <1>1, <1>11 DEF command_rdump, command_mdump, Unchanged
<1>12. CASE command_verbose \/ command_trace \/ command_statetrace \/ command_memtrace
  BY <1>1, <1>12 DEF command_verbose, command_trace, command_statetrace, command_memtrace,
                     Toggle, Unchanged
<1>13. CASE ReadLine \/ EndOfFile \/ sigint_handler \/ UNCHANGED vars
  BY <1>1, <1>13 DEF ReadLine, EndOfFile, sigint_handler, vars
<1> QED
  BY <1>4, <1>5, <1>6, <1>7, <1>8, <1>9, <1>10, <1>11, <1>12, <1>13
     DEF Next, Simulate, process_command

\* Whatever a step is, it leaves the rest of the state with its type.
LEMMA ControlStep ==
    ASSUME ControlType, [Next]_vars
    PROVE  ControlType'
<1>0. MaxCommands \in Nat
  BY CommandAssumption
<1>1. CASE ReadLine
  <2>1. commands' \in 0 .. MaxCommands
    BY <1>0, <1>1 DEF ReadLine, ControlType
  <2> QED
    BY <1>1, <2>1 DEF ReadLine, ControlType
<1>2. CASE EndOfFile
  BY <1>2 DEF EndOfFile, ControlType
<1>3. CASE sigint_handler
  BY <1>3 DEF sigint_handler, ControlType
<1>4. CASE command_step
  <2>1. ASSUME NEW args, args # << >> => parse_int(args[1]).ok PROVE StepCycles(args) \in Int
    <3>1. ASSUME NEW token, parse_int(token).ok PROVE parse_int(token).val \in INT_MIN .. INT_MAX
      BY <3>1 DEF parse_int
    <3>2. \A n \in INT_MIN .. INT_MAX : n \in Int
      OBVIOUS
    <3> QED
      BY <2>1, <3>1, <3>2 DEF StepCycles
  <2> QED
    BY <1>4, <2>1 DEF command_step, Entered, Return, Unchanged, ControlType
<1>5. CASE command_go
  BY <1>5 DEF command_go, Return, Unchanged, ControlType
<1>6. CASE command_reg
  BY <1>6 DEF command_reg, Return, Unchanged, ControlType
<1>7. CASE command_mem
  BY <1>7 DEF command_mem, Return, Crash, Unchanged, ControlType
<1>8. CASE command_rdump
  BY <1>8 DEF command_rdump, Return, Unchanged, Dumped, ControlType
<1>9. CASE command_mdump
  BY <1>9 DEF command_mdump, Return, Unchanged, Dumped, ControlType
<1>10. CASE command_restart
  BY <1>10 DEF command_restart, Return, Unchanged, ControlType
<1>11. CASE command_load
  <2>1. DOMAIN program' = {"path", "allocated"} /\ program'.allocated \in BOOLEAN
    <3>1. CASE UNCHANGED program
      BY <3>1 DEF ControlType
    <3>2. ASSUME NEW path, program' = [path |-> path, allocated |-> FALSE]
          PROVE  DOMAIN program' = {"path", "allocated"} /\ program'.allocated \in BOOLEAN
      BY <3>2
    <3> QED
      BY <1>11, <3>1, <3>2 DEF command_load, Unchanged
  <2> QED
    BY <1>11, <2>1 DEF command_load, Return, Unchanged, ControlType
<1>12. CASE command_verbose \/ command_trace \/ command_statetrace \/ command_memtrace
  <2> SUFFICES ASSUME NEW mode \in Modes, NEW names, NEW most, Toggle(mode, names, most)
               PROVE  ControlType'
    BY <1>12 DEF command_verbose, command_trace, command_statetrace, command_memtrace, Modes
  <2> QED
    BY DEF Toggle, Return, Unchanged, ControlType
<1>13. CASE command_quit
  BY <1>13 DEF command_quit, Return, Unchanged, ControlType
<1>14. CASE OtherLine
  BY <1>14 DEF OtherLine, Return, Unchanged, ControlType
<1>15. CASE StepLoop
  BY <1>15 DEF StepLoop, run_simulator, Return, ControlType
<1>16. CASE GoLoop
  BY <1>16 DEF GoLoop, run_simulator, ControlType
<1>17. CASE GoReset
  BY <1>17 DEF GoReset, Return, Unchanged, ControlType
<1>18. CASE UNCHANGED vars
  BY <1>18 DEF vars, ControlType
<1> QED
  BY <1>1, <1>2, <1>3, <1>4, <1>5, <1>6, <1>7, <1>8, <1>9, <1>10, <1>11, <1>12, <1>13,
     <1>14, <1>15, <1>16, <1>17, <1>18 DEF Next, Simulate, process_command

\* Every field of the simulator keeps its type: no write of a program or of the user
\* leaves the buffer of its segment, whatever was loaded, refused or freed before.
THEOREM TypeInvariant == ASSUME FilesHoldBytes PROVE Spec => []TypeInv
<1> DEFINE Sound == TypedCpu(cpu) /\ ControlType
<1>1. Init => Sound
  <2> SUFFICES ASSUME Init PROVE Sound
    OBVIOUS
  <2>1. CpuShape(ZeroCpu) /\ Freed(ZeroCpu.segments)
    BY DEF CpuShape, SegmentShape, ZeroCpu, NothingLoaded, Freed
  <2>2. TypedMemory(ZeroCpu.segments)
    <3>1. 0 \in 0 .. Modulus - 1 /\ NULL \in [1 .. 0 -> Byte]
      BY ModulusFact DEF NULL
    <3> QED
      BY <3>1 DEF ZeroCpu, NothingLoaded, TypedMemory, TypedSegment
  <2>3. TypedCpu(cpu)
    BY <2>1, <2>2, LoadType DEF Init, FreshlyLoaded
  <2>4. ControlType
    <3>1. 0 \in 0 .. MaxCommands
      BY CommandAssumption
    <3>2. DOMAIN program = {"path", "allocated"} /\ program.allocated \in BOOLEAN
      BY DEF Init
    <3> QED
      <4>1. /\ modes = {} /\ ctl = "prompt" /\ left = 0 /\ sigint = FALSE
            /\ dump = "none" /\ commands = 0 /\ caught = FALSE
        BY DEF Init
      <4>2. commands \in 0 .. MaxCommands /\ left \in Int
        BY <3>1, <4>1
      <4>3. /\ modes \subseteq Modes /\ ctl \in {"prompt", "command", "step", "go", "told", "exited"}
            /\ dump \in {"none", "empty", "written"}
        BY <4>1
      <4> QED
        BY <3>2, <4>1, <4>2, <4>3 DEF ControlType
  <2> QED
    BY <2>3, <2>4
<1>2. Sound /\ SegmentsBacked /\ [Next]_vars => Sound'
  BY CpuStep, ControlStep
<1> QED
  BY <1>1, <1>2, Backing, PTL DEF Spec, TypeInv

\* What the runs check of the types is what TypeInv says.
THEOREM TypeCorrect == ASSUME FilesHoldBytes PROVE Spec => []TypeOK
<1>1. TypeInv => TypeOK
  <2> SUFFICES ASSUME TypeInv PROVE TypeOK
    OBVIOUS
  <2>1. ASSUME NEW s \in SegmentIds
        PROVE  /\ cpu.segments[s] \in SegmentType(s)
               /\ Len(cpu.segments[s].mem) \in {0, cpu.segments[s].size}
    <3> DEFINE g == cpu.segments[s]
    <3>1. /\ g = [size |-> g.size, mem |-> g.mem] /\ g.size \in 0 .. Modulus - 1
          /\ \E n \in {0, g.size} : g.mem \in [1 .. n -> Byte]
      BY DEF TypeInv, TypedCpu, TypedMemory, TypedSegment
    <3> HIDE DEF g
    <3>2. PICK n \in {0, g.size} : g.mem \in [1 .. n -> Byte]
      BY <3>1
    <3>3. n \in Nat
      BY <3>1
    <3>4. g.mem \in Seq(Byte)
      BY <3>2, <3>3, SeqDef
    <3>5. Len(g.mem) = n
      BY <3>2, <3>3, <3>4, LenProperties
    <3>6. g \in [size : 0 .. Modulus - 1, mem : Seq(Byte)]
      BY <3>1, <3>4
    <3> QED
      BY <3>2, <3>5, <3>6 DEF g, SegmentType
  <2> QED
    BY <2>1 DEF TypeOK, TypeInv, ControlType, TypedCpu, CpuShape, SegmentShape
<1> QED
  BY <1>1, TypeInvariant, PTL

\* Whatever an instruction does, its line of the memory trace, if it has one, does the
\* same to a copy of memory.
LEMMA RunReplays ==
    ASSUME NEW c, TypedCpu(c), Backed(c.segments)
    PROVE  ReplayAccess(c.segments, RunCycle(c).access) = RunCycle(c).cpu.segments
<1> DEFINE f == HaltIf(c, AccessFaults(c.segments, c.pc))
           w0 == mem_read32(c.segments, c.pc)
           i == Decode(w0)
           e == Execute(f, i)
           Same(d) == DOMAIN d = DOMAIN c /\ d.segments = c.segments
           Silent(g) == ~g.access.is_store /\ Same(g.cpu)
<1>1. DOMAIN c = {"halted", "cycle", "pc", "registers", "segments"}
  BY DEF TypedCpu, CpuShape
<1>2. Same(f) /\ f.registers = c.registers
  BY <1>1 DEF HaltIf
<1>3. ASSUME NEW g, Silent(g) PROVE ReplayAccess(c.segments, g.access) = g.cpu.segments
  BY <1>3 DEF ReplayAccess
<1>4. ASSUME i.opcode # "STORE" PROVE Silent(e)
  <2>1. Same(Halt(f))
    BY <1>1, <1>2 DEF Halt
  <2>2. Same(NextPc(f))
    BY <1>1, <1>2 DEF NextPc
  <2>3. ASSUME NEW rd, NEW v PROVE Same(WriteBack(f, rd, v))
    BY <1>1, <1>2 DEF WriteBack, NextPc
  <2>4. ASSUME NEW rd, NEW v, NEW b PROVE Same(HaltIf(WriteBack(f, rd, v), b))
    BY <1>1, <2>3 DEF HaltIf
  <2> HIDE DEF f, i
  <2>5. Same(OP_OP(f, i)) /\ Same(OP_IMM(f, i))
    BY <2>1, <2>3 DEF OP_OP, OP_IMM
  <2>6. Same(OP_LUI(f, i)) /\ Same(OP_AUIPC(f, i))
    BY <2>3 DEF OP_LUI, OP_AUIPC
  <2>7. Same(OP_JAL(f, i)) /\ Same(OP_JALR(f, i))
    BY <1>1, <1>2 DEF OP_JAL, OP_JALR
  <2>8. Same(OP_BRANCH(f, i)) /\ Same(OP_SYSTEM(f, i))
    <3>1. Same([f EXCEPT !.pc = Add(@, i.imm)])
      BY <1>1, <1>2
    <3> QED
      BY <2>1, <2>2, <3>1 DEF OP_BRANCH, OP_SYSTEM
  <2>9. Silent(OP_LOAD(f, i))
    BY <2>1, <2>4 DEF OP_LOAD, NoAccess, Access
  <2>10. ~NoAccess.is_store
    BY DEF NoAccess
  <2> HIDE DEF Same
  <2>11. CASE i.opcode = "LOAD"
    BY <2>9, <2>11 DEF Execute
  <2>12. CASE i.opcode # "LOAD"
    <3>1. e.access = NoAccess
      BY <1>4, <2>12 DEF Execute
    <3>2. Same(e.cpu)
      BY <1>4, <2>1, <2>5, <2>6, <2>7, <2>8, <2>12 DEF Execute
    <3> QED
      BY <2>10, <3>1, <3>2
  <2> QED
    BY <2>11, <2>12
<1>5. ASSUME i.opcode = "STORE", i.funct3 \notin StoreCodes PROVE Silent(e)
  BY <1>1, <1>2, <1>5 DEF Execute, OP_STORE, Halt, NoAccess
<1>6. ASSUME i.opcode = "STORE", i.funct3 \in StoreCodes
      PROVE  ReplayAccess(c.segments, e.access) = e.cpu.segments
  <2>1. w0 \in Word
    BY <1>6, ReadType DEF TypedCpu, Word
  <2>2. i.rs1 \in Registers /\ i.rs2 \in Registers /\ i.imm \in Word
    BY <2>1, DecodeAssumption DEF Instruction
  <2>3. c.registers[i.rs1] \in Word /\ c.registers[i.rs2] \in Word
    BY <2>2 DEF TypedCpu
  <2> HIDE DEF i, f
  <2>4. e = OP_STORE(f, i)
    BY <1>6 DEF Execute
  <2> QED
    BY <1>1, <1>2, <1>6, <2>2, <2>3, <2>4, StoreReplays
<1>7. ReplayAccess(c.segments, e.access) = e.cpu.segments
  BY <1>3, <1>4, <1>5, <1>6
<1>8. e = process_instruction(c)
  BY DEF process_instruction
<1>9. DOMAIN e = {"cpu", "access"}
  BY DEF Execute, OP_LOAD, OP_STORE
<1> HIDE DEF e
<1>10. RunCycle(c) = [e EXCEPT !.cpu.cycle = IF @ < MaxCycle THEN @ + 1 ELSE @]
  BY <1>8 DEF RunCycle
<1>11. DOMAIN RunCycle(c).cpu = {"halted", "cycle", "pc", "registers", "segments"}
  BY RunKeeps DEF TypedCpu, CpuShape
<1>12. RunCycle(c).access = e.access /\ RunCycle(c).cpu.segments = e.cpu.segments
  <2> DEFINE n == IF e.cpu.cycle < MaxCycle THEN e.cpu.cycle + 1 ELSE e.cpu.cycle
  <2>1. RunCycle(c) = [e EXCEPT !.cpu = [e.cpu EXCEPT !.cycle = n]]
    BY <1>9, <1>10
  <2> HIDE DEF n
  <2>2. RunCycle(c).access = e.access /\ RunCycle(c).cpu = [e.cpu EXCEPT !.cycle = n]
    BY <1>9, <2>1
  <2> QED
    BY <1>11, <2>2
<1> QED
  BY <1>7, <1>12

\* At every moment of every session, the stores of the memory trace applied to the
\* memory it started from give the memory of the processor: refused accesses,
\* halfwords across lanes, toggles of the mode and reloads included.
THEOREM TraceReplays == ASSUME FilesHoldBytes PROVE Spec => []MemtraceReplays
<1>1. Init => MemtraceReplays
  BY DEF Init, MemtraceReplays
<1>2. TypeInv /\ MemtraceReplays /\ [Next]_vars => MemtraceReplays'
  <2> SUFFICES ASSUME TypeInv, MemtraceReplays, [Next]_vars PROVE MemtraceReplays'
    OBVIOUS
  <2>1. ASSUME UNCHANGED <<modes, replayed>>, cpu'.segments = cpu.segments PROVE MemtraceReplays'
    BY <2>1 DEF MemtraceReplays
  <2>2. ASSUME UNCHANGED modes, Resync(modes, cpu'.segments) PROVE MemtraceReplays'
    BY <2>2 DEF Resync, MemtraceReplays
  <2>3. ASSUME UNCHANGED modes, run_simulator, ~cpu.halted PROVE MemtraceReplays'
    BY <2>3, RunReplays DEF run_simulator, MemtraceReplays, TypeInv, SegmentsBacked
  <2>4. CASE command_reg
    BY <2>1, <2>4 DEF command_reg, Unchanged, TypeInv, TypedCpu, CpuShape
  <2>5. CASE command_mem
    BY <2>1, <2>2, <2>5 DEF command_mem, Crash, Unchanged
  <2>6. CASE command_restart
    BY <2>1, <2>2, <2>6 DEF command_restart, Unchanged
  <2>7. CASE command_load
    BY <2>1, <2>2, <2>7 DEF command_load, Unchanged
  <2>8. CASE command_quit
    BY <2>1, <2>8 DEF command_quit, Unchanged, Halt, TypeInv, TypedCpu, CpuShape
  <2>9. CASE StepLoop \/ GoLoop
    BY <2>1, <2>3, <2>9 DEF StepLoop, GoLoop
  <2>10. CASE command_step \/ command_go \/ OtherLine \/ GoReset
    BY <2>1, <2>10 DEF command_step, command_go, OtherLine, GoReset, Unchanged
  <2>11. CASE command_rdump \/ command_mdump
    BY <2>1, <2>11 DEF command_rdump, command_mdump, Unchanged
  <2>12. CASE command_verbose \/ command_trace \/ command_statetrace \/ command_memtrace
    <3> SUFFICES ASSUME NEW mode, NEW names, NEW most, Toggle(mode, names, most)
                 PROVE  MemtraceReplays'
      BY <2>12 DEF command_verbose, command_trace, command_statetrace, command_memtrace
    <3>1. CASE Len(line.args) > most
      BY <2>1, <3>1 DEF Toggle, Unchanged
    <3>2. CASE ~(Len(line.args) > most)
      <4>1. UNCHANGED cpu /\ modes' = IF mode \in modes THEN modes \ {mode} ELSE modes \cup {mode}
        BY <3>2 DEF Toggle
      <4>2. CASE mode = "memtrace"
        BY <3>2, <4>1, <4>2 DEF Toggle, Resync, MemtraceReplays
      <4>3. CASE mode # "memtrace"
        BY <3>2, <4>1, <4>3 DEF Toggle, MemtraceReplays
      <4> QED
        BY <4>2, <4>3
    <3> QED
      BY <3>1, <3>2
  <2>13. CASE ReadLine \/ EndOfFile \/ sigint_handler \/ UNCHANGED vars
    BY <2>1, <2>13 DEF ReadLine, EndOfFile, sigint_handler, vars
  <2> QED
    BY <2>4, <2>5, <2>6, <2>7, <2>8, <2>9, <2>10, <2>11, <2>12, <2>13
       DEF Next, Simulate, process_command
<1> QED
  BY <1>1, <1>2, TypeInvariant, PTL DEF Spec

-----------------------------------------------------------------------------
(* Starting a program. *)

\* A path has at least one part, however many dots it has.
Paths(Parts) == Seq(Parts) \ {<< >>}

PathsHaveParts(Parts) ==
    /\ "S" \in Parts
    /\ FirstProgram \in Paths(Parts)
    /\ \A token : PathOf(token) \in Paths(Parts)
    /\ \A path : StalePaths(path) \subseteq Paths(Parts)

\* Cutting a path at its last dot leaves a path.
LEMMA StripType == ASSUME NEW Parts, NEW path \in Paths(Parts) PROVE StripExtension(path) \in Paths(Parts)
<1>1. CASE Len(path) > 1
  <2>1. Front(path) \in Seq(Parts) /\ Len(Front(path)) = Len(path) - 1
    BY <1>1, LenProperties DEF Front, Paths
  <2>2. Len(path) \in Nat
    BY LenProperties DEF Paths
  <2>3. Len(Front(path)) # 0
    BY <1>1, <2>1, <2>2
  <2> QED
    BY <1>1, <2>1, <2>3 DEF StripExtension, Paths
<1> QED
  BY <1>1 DEF StripExtension

\* A path with an extension is cut back to the path.
LEMMA StripSuffix ==
    ASSUME NEW Parts, "S" \in Parts, NEW path \in Paths(Parts)
    PROVE  StripExtension(path \o <<"S">>) = path
<1>1. path \in Seq(Parts) /\ Len(path) \in Nat /\ Len(path) # 0
  BY LenProperties, EmptySeq DEF Paths
<1> DEFINE long == path \o <<"S">>
<1>2. <<"S">> \in Seq(Parts) /\ Len(<<"S">>) = 1
  <2>1. ASSUME NEW t \in Parts PROVE <<t>> \in Seq(Parts) /\ Len(<<t>>) = 1
    OBVIOUS
  <2> QED
    BY <2>1
<1>3. Len(long) = Len(path) + 1
  BY <1>1, <1>2, ConcatProperties
<1>4. SubSeq(long, 1, Len(path)) = path
  BY <1>1, <1>2, SubSeqOfConcat1, SubSeqFull
<1> HIDE DEF long
<1>5. Front(long) = path
  BY <1>1, <1>3, <1>4 DEF Front
<1> QED
  BY <1>1, <1>3, <1>5 DEF StripExtension, long

\* The path of the program that runs is a path.
PathKept(Parts) == DOMAIN program = {"path", "allocated"} /\ program.path \in Paths(Parts)

\* Every command leaves the path of the program a path.
LEMMA PathStep ==
    ASSUME NEW Parts, PathsHaveParts(Parts), PathKept(Parts), [Next]_vars
    PROVE  PathKept(Parts)'
<1>1. CASE UNCHANGED program
  BY <1>1 DEF PathKept
<1>2. CASE command_restart
  <2>1. ASSUME NEW path \in Paths(Parts), program' = [program EXCEPT !.path = StripExtension(path)]
        PROVE  PathKept(Parts)'
    BY <2>1, StripType DEF PathKept
  <2>2. CASE line.args = << >>
    <3>1. PICK path \in IF program.allocated THEN {program.path} ELSE StalePaths(program.path) :
             program' = [program EXCEPT !.path = StripExtension(path)]
      BY <1>2, <2>2 DEF command_restart
    <3>2. path \in Paths(Parts)
      BY <3>1 DEF PathKept, PathsHaveParts
    <3> QED
      BY <2>1, <3>1, <3>2
  <2> QED
    BY <1>1, <1>2, <2>2 DEF command_restart, Unchanged
<1>3. CASE command_load
  <2>1. ASSUME NEW token, program' = [path |-> StripExtension(PathOf(token)), allocated |-> FALSE]
        PROVE  PathKept(Parts)'
    <3>1. StripExtension(PathOf(token)) \in Paths(Parts)
      BY StripType DEF PathsHaveParts
    <3> QED
      BY <2>1, <3>1 DEF PathKept
  <2> QED
    BY <1>1, <1>3, <2>1 DEF command_load, Unchanged
<1>4. CASE StepLoop \/ GoLoop
  BY <1>1, <1>4 DEF StepLoop, GoLoop
<1>5. CASE command_step \/ command_go \/ OtherLine \/ GoReset \/ command_reg \/ command_quit
  BY <1>1, <1>5 DEF command_step, command_go, OtherLine, GoReset, command_reg, command_quit, Unchanged
<1>6. CASE command_rdump \/ command_mdump \/ command_mem
  BY <1>1, <1>6 DEF command_rdump, command_mdump, command_mem, Crash, Unchanged
<1>7. CASE command_verbose \/ command_trace \/ command_statetrace \/ command_memtrace
  BY <1>1, <1>7 DEF command_verbose, command_trace, command_statetrace, command_memtrace,
                    Toggle, Unchanged
<1>8. CASE ReadLine \/ EndOfFile \/ sigint_handler \/ UNCHANGED vars
  BY <1>1, <1>8 DEF ReadLine, EndOfFile, sigint_handler, vars
<1> QED
  BY <1>2, <1>3, <1>4, <1>5, <1>6, <1>7, <1>8 DEF Next, Simulate, process_command

\* A processor a load or a restart started is the one a new simulator would have made
\* of the same program: nothing that ran, was typed or failed to load before shows.
THEOREM RestartIsFresh ==
    ASSUME NEW Parts, PathsHaveParts(Parts)
    PROVE  Spec => RestartFresh
<1> DEFINE Started == ctl = "command" /\ line.command \in {"load", "restart"} /\ cpu' # cpu /\ ~cpu'.halted
           Fresh == \E stack \in StackContents : cpu' = FreshlyLoaded(program'.path \o <<"S">>, stack)
           Sound == CpuShape(cpu) /\ PathKept(Parts)
<1>1. Init => PathKept(Parts)
  <2> SUFFICES ASSUME Init PROVE PathKept(Parts)
    OBVIOUS
  <2>1. StripExtension(FirstProgram) \in Paths(Parts)
    BY StripType DEF PathsHaveParts
  <2> QED
    BY <2>1 DEF Init, PathKept
<1>2. PathKept(Parts) /\ [Next]_vars => PathKept(Parts)'
  BY PathStep
<1>3. ASSUME Sound, NEW path \in Paths(Parts), NEW stack \in StackContents,
             cpu' = Reload(path, stack), ~cpu'.halted
      PROVE  cpu' = FreshlyLoaded(StripExtension(path) \o <<"S">>, stack)
  <2> DEFINE c == [cpu EXCEPT !.segments = mem_unload_program(@)]
             m == mem_unload_program(cpu.segments)
             again == StripExtension(path) \o <<"S">>
  <2>1. CpuShape(c) /\ Freed(c.segments)
    <3>1. c = [cpu EXCEPT !.segments = m]
      OBVIOUS
    <3>2. SegmentShape(m) /\ Freed(m)
      BY <1>3 DEF CpuShape, SegmentShape, mem_unload_program, Freed
    <3> HIDE DEF m, c
    <3> QED
      BY <1>3, <3>1, <3>2 DEF CpuShape
  <2>2. CpuShape(ZeroCpu) /\ Freed(ZeroCpu.segments)
    BY DEF CpuShape, SegmentShape, ZeroCpu, NothingLoaded, Freed
  <2>3. cpu' = init_cpu_state(c, path, stack)
    BY <1>3 DEF Reload
  <2>4. cpu' = init_cpu_state(ZeroCpu, path, stack)
    <3> HIDE DEF c
    <3>1. ~init_cpu_state(c, path, stack).halted
      BY <1>3, <2>3
    <3>2. init_cpu_state(c, path, stack) = init_cpu_state(ZeroCpu, path, stack)
      BY <2>1, <2>2, <3>1, LoadFresh
    <3> QED
      BY <2>3, <3>2
  <2>5. StripExtension(again) = StripExtension(path)
    BY StripType, StripSuffix DEF PathsHaveParts
  <2>6. init_cpu_state(ZeroCpu, path, stack) = init_cpu_state(ZeroCpu, again, stack)
    BY <2>5 DEF init_cpu_state
  <2> QED
    BY <2>4, <2>6 DEF FreshlyLoaded
<1>4. ASSUME Sound, [Next]_vars, Started PROVE Fresh
  <2>1. CASE command_restart
    <3>1. PICK path \in (IF program.allocated THEN {program.path} ELSE StalePaths(program.path)),
               stack \in StackContents :
             cpu' = Reload(path, stack) /\ program' = [program EXCEPT !.path = StripExtension(path)]
      BY <1>4, <2>1 DEF command_restart, Unchanged
    <3>2. path \in Paths(Parts)
      BY <1>4, <3>1 DEF PathKept, PathsHaveParts
    <3>3. program'.path = StripExtension(path)
      BY <1>4, <3>1 DEF PathKept
    <3> QED
      BY <1>3, <1>4, <3>1, <3>2, <3>3
  <2>2. CASE command_load
    <3>1. PICK stack \in StackContents :
             /\ cpu' = Reload(PathOf(line.args[1]), stack)
             /\ program' = [path |-> StripExtension(PathOf(line.args[1])), allocated |-> FALSE]
      BY <1>4, <2>2 DEF command_load, Unchanged
    <3>2. PathOf(line.args[1]) \in Paths(Parts)
      BY DEF PathsHaveParts
    <3> QED
      BY <1>3, <1>4, <3>1, <3>2
  <2>3. CASE StepLoop \/ GoLoop \/ GoReset
    BY <1>4, <2>3 DEF StepLoop, GoLoop, GoReset
  <2>4. CASE command_step \/ command_go \/ command_reg \/ command_quit
    BY <1>4, <2>4 DEF command_step, command_go, command_reg, command_quit, Entered
  <2>5. CASE command_rdump \/ command_mdump \/ command_mem
    BY <1>4, <2>5 DEF command_rdump, command_mdump, command_mem, Entered
  <2>6. CASE command_verbose \/ command_trace \/ command_statetrace \/ command_memtrace
    BY <1>4, <2>6 DEF command_verbose, command_trace, command_statetrace, command_memtrace,
                      Toggle, Entered
  <2>7. CASE ReadLine \/ EndOfFile \/ sigint_handler \/ OtherLine \/ UNCHANGED vars
    BY <1>4, <2>7 DEF ReadLine, EndOfFile, sigint_handler, OtherLine, Unchanged, vars
  <2> QED
    BY <1>4, <2>1, <2>2, <2>3, <2>4, <2>5, <2>6, <2>7 DEF Next, Simulate, process_command
<1>5. CpuShape(cpu) /\ PathKept(Parts) /\ [Next]_vars => [Started => Fresh]_vars
  BY <1>4
<1> QED
  BY <1>1, <1>2, <1>5, Backing, PTL DEF Spec, RestartFresh

-----------------------------------------------------------------------------
(* The simulator and the data path. *)

\* The control signals of an instruction the decoder knows.
LEMMA DecodedSignals ==
    ASSUME NEW i, ~riscv_decode(i).illegal_instr
    PROVE  LET d == riscv_decode(i) IN
           /\ i.opcode \in {"OP", "IMM", "LUI", "AUIPC", "JAL", "JALR", "BRANCH", "LOAD",
                            "STORE", "SYSTEM"}
           /\ i.opcode = "OP" =>
                 /\ ~d.useImm /\ ~d.usePC /\ d.rfWrite /\ ~d.memRead /\ ~d.memWrite /\ ~d.syscall
                 /\ d.alu_op = rtype_alu_op(i) /\ d.pc_source = "plus4" /\ rtype_alu_op(i) # "illegal"
           /\ i.opcode = "IMM" =>
                 /\ d.useImm /\ ~d.usePC /\ d.rfWrite /\ ~d.memRead /\ ~d.memWrite /\ ~d.syscall
                 /\ d.alu_op = itype_alu_op(i) /\ d.pc_source = "plus4" /\ itype_alu_op(i) # "illegal"
           /\ i.opcode = "LUI" =>
                 /\ d.useImm /\ ~d.usePC /\ d.rfWrite /\ ~d.memRead /\ ~d.memWrite /\ ~d.syscall
                 /\ d.alu_op = "PASS" /\ d.pc_source = "plus4"
           /\ i.opcode = "AUIPC" =>
                 /\ d.useImm /\ d.usePC /\ d.rfWrite /\ ~d.memRead /\ ~d.memWrite /\ ~d.syscall
                 /\ d.alu_op = "ADD" /\ d.pc_source = "plus4"
           /\ i.opcode = "JAL" =>
                 /\ d.useImm /\ d.usePC /\ d.rfWrite /\ ~d.memRead /\ ~d.memWrite /\ ~d.syscall
                 /\ d.alu_op = "ADD4" /\ d.pc_source = "uncond"
           /\ i.opcode = "JALR" =>
                 /\ d.useImm /\ d.usePC /\ d.rfWrite /\ ~d.memRead /\ ~d.memWrite /\ ~d.syscall
                 /\ d.alu_op = "ADD4" /\ d.pc_source = "indirect"
           /\ i.opcode = "BRANCH" =>
                 /\ ~d.useImm /\ ~d.usePC /\ ~d.rfWrite /\ ~d.memRead /\ ~d.memWrite /\ ~d.syscall
                 /\ d.alu_op = i.funct3 /\ d.pc_source = "cond" /\ i.funct3 \in BranchCodes
           /\ i.opcode = "LOAD" =>
                 /\ d.useImm /\ ~d.usePC /\ d.rfWrite /\ d.memRead /\ ~d.memWrite /\ ~d.syscall
                 /\ d.alu_op = "ADD" /\ d.pc_source = "plus4" /\ i.funct3 \in LoadCodes
           /\ i.opcode = "STORE" =>
                 /\ d.useImm /\ ~d.usePC /\ ~d.rfWrite /\ ~d.memRead /\ d.memWrite /\ ~d.syscall
                 /\ d.alu_op = "ADD" /\ d.pc_source = "plus4"
           /\ i.opcode = "SYSTEM" =>
                 /\ ~d.useImm /\ ~d.usePC /\ ~d.rfWrite /\ ~d.memRead /\ ~d.memWrite /\ d.syscall
                 /\ d.alu_op = "PASS" /\ d.pc_source = "plus4" /\ i.imm = 0
<1> DEFINE d == riscv_decode(i)
<1>1. ASSUME NEW s, NEW alu_op, ~WithAluOp(s, alu_op).illegal_instr, DOMAIN s = DOMAIN Signals
      PROVE  alu_op # "illegal" /\ WithAluOp(s, alu_op) = [s EXCEPT !.alu_op = alu_op]
  BY <1>1 DEF WithAluOp, Illegal, Signals
<1>2. CASE i.opcode = "OP"
  BY <1>2, <1>1 DEF riscv_decode, Signals, Illegal
<1>3. CASE i.opcode = "IMM"
  <2> DEFINE s == [Signals EXCEPT !.useImm = TRUE, !.rfWrite = TRUE]
             alu_op == itype_alu_op(i)
  <2>1. d = WithAluOp(s, alu_op)
    BY <1>3 DEF riscv_decode
  <2>2. DOMAIN s = DOMAIN Signals
    BY DEF Signals
  <2> HIDE DEF s, alu_op
  <2>3. alu_op # "illegal" /\ d = [s EXCEPT !.alu_op = alu_op]
    BY <1>1, <2>1, <2>2
  <2> QED
    BY <1>3, <2>3 DEF Signals, s, alu_op
<1>4. CASE i.opcode = "LUI"
  BY <1>4, <1>1 DEF riscv_decode, Signals, Illegal
<1>5. CASE i.opcode = "AUIPC"
  BY <1>5, <1>1 DEF riscv_decode, Signals, Illegal
<1>6. CASE i.opcode = "JAL"
  BY <1>6, <1>1 DEF riscv_decode, Signals, Illegal
<1>7. CASE i.opcode = "JALR"
  BY <1>7, <1>1 DEF riscv_decode, Signals, Illegal
<1>8. CASE i.opcode = "BRANCH"
  <2> DEFINE s == [Signals EXCEPT !.pc_source = "cond"]
             alu_op == (IF i.funct3 \in BranchCodes THEN i.funct3 ELSE "illegal")
  <2>1. d = WithAluOp(s, alu_op)
    BY <1>8 DEF riscv_decode
  <2>2. DOMAIN s = DOMAIN Signals
    BY DEF Signals
  <2> HIDE DEF s, alu_op
  <2>3. alu_op # "illegal" /\ d = [s EXCEPT !.alu_op = alu_op]
    BY <1>1, <2>1, <2>2
  <2> QED
    BY <1>8, <2>3 DEF Signals, s, alu_op
<1>9. CASE i.opcode = "LOAD"
  <2> DEFINE s == [Signals EXCEPT !.useImm = TRUE, !.rfWrite = TRUE, !.memRead = TRUE]
             alu_op == (IF i.funct3 \in LoadCodes THEN "ADD" ELSE "illegal")
  <2>1. d = WithAluOp(s, alu_op)
    BY <1>9 DEF riscv_decode
  <2>2. DOMAIN s = DOMAIN Signals
    BY DEF Signals
  <2> HIDE DEF s, alu_op
  <2>3. alu_op # "illegal" /\ d = [s EXCEPT !.alu_op = alu_op]
    BY <1>1, <2>1, <2>2
  <2> QED
    BY <1>9, <2>3 DEF Signals, s, alu_op
<1>10. CASE i.opcode = "STORE"
  BY <1>10, <1>1 DEF riscv_decode, Signals, Illegal
<1>11. CASE i.opcode = "SYSTEM"
  BY <1>11, <1>1 DEF riscv_decode, Signals, Illegal
<1>12. i.opcode \in {"OP", "IMM", "LUI", "AUIPC", "JAL", "JALR", "BRANCH", "LOAD", "STORE", "SYSTEM"}
  BY DEF riscv_decode, Signals, Illegal
<1> QED
  BY <1>2, <1>3, <1>4, <1>5, <1>6, <1>7, <1>8, <1>9, <1>10, <1>11, <1>12

\* x + ~y + 1 is x - y.
LEMMA SubAsAdd ==
    ASSUME NEW x \in Word, NEW y \in Word
    PROVE  Add(x, Add(Not(y), 1)) = Sub(x, y)
<1>1. ASSUME NEW m \in Nat \ {0}, NEW r \in 0 .. m - 1
      PROVE  r % m = r /\ (m + r) % m = r /\ (r - m) % m = r /\ m % m = 0
  BY <1>1
<1> DEFINE m == Modulus
<1>2. m \in Nat \ {0} /\ x \in 0 .. m - 1 /\ y \in 0 .. m - 1
  BY ModulusFact DEF Word
<1> HIDE DEF m
<1>3. CASE y = 0
  <2>1. (m - 1 - y + 1) % m = 0
    BY <1>1, <1>2, <1>3
  <2>2. (x + 0) % m = (x - y) % m
    BY <1>2, <1>3
  <2> QED
    BY <2>1, <2>2 DEF Add, Sub, Not, m
<1>4. CASE y # 0
  <2>1. (m - 1 - y + 1) % m = m - y
    <3>1. m - y \in 0 .. m - 1 /\ m - 1 - y + 1 = m - y
      BY <1>2, <1>4
    <3> QED
      BY <1>1, <1>2, <3>1
  <2>2. (x + (m - y)) % m = (x - y) % m
    <3>1. CASE x >= y
      <4> DEFINE z == x - y
      <4>1. z \in 0 .. m - 1 /\ x + (m - y) = m + z
        BY <1>2, <3>1
      <4> HIDE DEF z
      <4>2. (m + z) % m = z /\ z % m = z
        BY <1>1, <1>2, <4>1
      <4> QED
        BY <4>1, <4>2 DEF z
    <3>2. CASE ~(x >= y)
      <4> DEFINE z == x + (m - y)
      <4>1. z \in 0 .. m - 1 /\ x - y = z - m
        BY <1>2, <3>2
      <4> HIDE DEF z
      <4>2. (z - m) % m = z /\ z % m = z
        BY <1>1, <1>2, <4>1
      <4> QED
        BY <4>1, <4>2 DEF z
    <3> QED
      BY <3>1, <3>2
  <2> QED
    BY <2>1, <2>2 DEF Add, Sub, Not, m
<1> QED
  BY <1>3, <1>4

\* The instructions that touch no memory: what is left to compare.
LEMMA AgreesPlainly ==
    ASSUME NEW c, NEW i, ~c.halted, c.halted \in BOOLEAN, i.opcode # "STORE",
           LET d == riscv_decode(i) IN
             ~d.illegal_instr /\ ~d.memRead /\ ~d.memWrite /\ ~d.syscall,
           Execute(c, i).access = NoAccess,
           Execute(c, i).cpu.halted = c.halted,
           Execute(c, i).cpu.registers =
             register_write(c.registers, IF riscv_decode(i).rfWrite THEN i.rd ELSE 0,
                            alu_out(c.registers, c.pc, i)),
           Execute(c, i).cpu.pc = next_pc(c.registers, c.pc, i)
    PROVE  Agrees(c, i)
<1> DEFINE word == mem_read32(c.segments, aligned_addr(Address(c, i)))
<1>1. traps(c.registers, c.pc, i) = FALSE
  BY DEF traps
<1>2. Execute(c, i).cpu.halted = FALSE
  OBVIOUS
<1>3. commit_mem_seam(c.registers, c.pc, i, word) = NoAccess
  BY DEF commit_mem_seam
<1>4. RetiredValue(c.registers, c.pc, i, word) = alu_out(c.registers, c.pc, i)
  BY DEF RetiredValue
<1> QED
  BY <1>1, <1>2, <1>3, <1>4 DEF Agrees

\* rd := value, as the simulator does it.
LEMMA WriteBackFields ==
    ASSUME NEW c, CpuShape(c), NEW rd, NEW v
    PROVE  LET d == WriteBack(c, rd, v) IN
           /\ d.halted = c.halted /\ d.pc = Add(c.pc, 4) /\ d.segments = c.segments
           /\ d.registers = register_write(c.registers, rd, v)
           /\ DOMAIN d = DOMAIN c
  BY DEF WriteBack, NextPc, CpuShape

\* Register and immediate arithmetic.
LEMMA AgreesArithmetic ==
    ASSUME NEW c, TypedCpu(c), ~c.halted, NEW i \in Instruction, Comparable(c, i),
           i.opcode \in {"OP", "IMM", "LUI", "AUIPC"}
    PROVE  Agrees(c, i)
<1> DEFINE d == riscv_decode(i)
           x == c.registers[i.rs1]
           y == IF i.opcode = "OP" THEN c.registers[i.rs2] ELSE i.imm
<1>1. ~d.illegal_instr
  BY DEF Comparable
<1>2. /\ ~d.memRead /\ ~d.memWrite /\ ~d.syscall /\ d.rfWrite /\ d.pc_source = "plus4"
      /\ d.useImm <=> i.opcode # "OP"
      /\ d.usePC <=> i.opcode = "AUIPC"
  BY <1>1, DecodedSignals
<1>3. i.rs1 \in Registers /\ i.rs2 \in Registers /\ i.imm \in Word
  BY DEF Instruction
<1>4. x \in Word /\ y \in Word /\ CpuShape(c) /\ c.pc \in Word /\ c.halted \in BOOLEAN
  BY <1>3 DEF TypedCpu
<1>5. /\ operand_1(c.registers, c.pc, i) = IF i.opcode = "AUIPC" THEN c.pc ELSE x
      /\ operand_2(c.registers, i) = y
  BY <1>2 DEF operand_1, operand_2, source
<1>6. next_pc(c.registers, c.pc, i) = Add(c.pc, 4)
  BY <1>2 DEF next_pc
<1> DEFINE v == alu_out(c.registers, c.pc, i)
<1>7. Execute(c, i) = [access |-> NoAccess, cpu |-> WriteBack(c, i.rd, v)]
  <2> HIDE DEF x, y
  <2>1. Add(x, Add(Not(y), 1)) = Sub(x, y)
    BY <1>4, SubAsAdd
  <2>2. CASE i.opcode = "OP"
    <3>1. v = riscv_alu(rtype_alu_op(i), x, y) /\ rtype_alu_op(i) # "illegal"
      BY <1>1, <1>5, <2>2, DecodedSignals DEF alu_out
    <3>4. /\ i.funct3 \in ArithmeticCodes
          /\ \/ i.funct7 = "INT"
             \/ i.funct7 = "ALT_INT" /\ i.funct3 \in {"ADD_SUB", "SRL_SRA"}
      <4>1. rtype_alu_op(i) # "illegal"
        BY <3>1
      <4> QED
        BY <4>1 DEF rtype_alu_op, ArithmeticCodes
    <3>2. op_known(i)
      BY <3>4 DEF op_known
    <3> DEFINE alternate == i.funct7 = "ALT_INT" /\ i.funct3 \in {"ADD_SUB", "SRL_SRA"}
    <3>5. alternate \in BOOLEAN /\ (alternate <=> i.funct7 = "ALT_INT")
      BY <3>4
    <3> HIDE DEF alternate
    <3>3. riscv_alu(rtype_alu_op(i), x, y) = Arithmetic(i.funct3, alternate, x, y)
      <4>1. CASE i.funct7 = "ALT_INT"
        <5>1. CASE i.funct3 = "ADD_SUB"
          BY <2>1, <3>5, <4>1, <5>1 DEF rtype_alu_op, riscv_alu, Arithmetic
        <5>2. CASE i.funct3 = "SRL_SRA"
          BY <3>5, <4>1, <5>2 DEF rtype_alu_op, riscv_alu, Arithmetic
        <5> QED
          BY <3>4, <4>1, <5>1, <5>2
      <4>2. CASE i.funct7 = "INT"
        <5>1. CASE i.funct3 = "ADD_SUB"
          BY <3>5, <4>2, <5>1 DEF rtype_alu_op, riscv_alu, Arithmetic
        <5>2. CASE i.funct3 = "SRL_SRA"
          BY <3>5, <4>2, <5>2 DEF rtype_alu_op, riscv_alu, Arithmetic
        <5>3. CASE i.funct3 \in {"SLL", "XOR", "OR", "AND"}
          BY <3>5, <4>2, <5>3 DEF rtype_alu_op, riscv_alu, Arithmetic, ArithmeticCodes
        <5>4. CASE i.funct3 \in {"SLT", "SLTU"}
          BY <3>5, <4>2, <5>4 DEF rtype_alu_op, riscv_alu, Arithmetic, ArithmeticCodes, LessSigned
        <5> QED
          BY <3>4, <5>1, <5>2, <5>3, <5>4 DEF ArithmeticCodes
      <4> QED
        BY <3>4, <4>1, <4>2
    <3> QED
      BY <2>2, <3>1, <3>2, <3>3 DEF Execute, OP_OP, x, y, alternate
  <2>3. CASE i.opcode = "IMM"
    <3>1. v = riscv_alu(itype_alu_op(i), x, y) /\ itype_alu_op(i) # "illegal"
      BY <1>1, <1>5, <2>3, DecodedSignals DEF alu_out
    <3>4. i.funct3 = "SLL" => i.funct7 = "INT"
      BY <2>3 DEF Comparable
    <3>5. i.funct3 \in ArithmeticCodes /\ (i.funct3 = "SRL_SRA" => i.funct7 \in {"INT", "ALT_INT"})
      BY <3>1 DEF itype_alu_op, ArithmeticCodes
    <3>2. op_imm_known(i)
      BY <3>4, <3>5 DEF op_imm_known
    <3> DEFINE alternate == i.funct7 = "ALT_INT" /\ i.funct3 = "SRL_SRA"
    <3>6. alternate \in BOOLEAN /\ (alternate <=> i.funct7 = "ALT_INT" /\ i.funct3 = "SRL_SRA")
      OBVIOUS
    <3> HIDE DEF alternate
    <3>3. riscv_alu(itype_alu_op(i), x, y) = Arithmetic(i.funct3, alternate, x, y)
      <4>1. CASE i.funct3 = "ADD_SUB"
        BY <3>6, <4>1 DEF itype_alu_op, riscv_alu, Arithmetic
      <4>2. CASE i.funct3 = "SRL_SRA"
        BY <3>5, <3>6, <4>2 DEF itype_alu_op, riscv_alu, Arithmetic
      <4>3. CASE i.funct3 \in {"SLL", "XOR", "OR", "AND"}
        BY <4>3 DEF itype_alu_op, riscv_alu, Arithmetic, ArithmeticCodes
      <4>4. CASE i.funct3 \in {"SLT", "SLTU"}
        BY <4>4 DEF itype_alu_op, riscv_alu, Arithmetic, ArithmeticCodes, LessSigned
      <4> QED
        BY <3>5, <4>1, <4>2, <4>3, <4>4 DEF ArithmeticCodes
    <3> QED
      BY <2>3, <3>1, <3>2, <3>3 DEF Execute, OP_IMM, x, y, alternate
  <2>4. CASE i.opcode = "LUI"
    <3>1. v = i.imm
      BY <1>1, <1>5, <2>4, DecodedSignals DEF alu_out, riscv_alu, y
    <3> QED
      BY <2>4, <3>1 DEF Execute, OP_LUI
  <2>5. CASE i.opcode = "AUIPC"
    <3>1. v = Add(c.pc, i.imm)
      BY <1>1, <1>5, <2>5, DecodedSignals DEF alu_out, riscv_alu, y
    <3>2. Add(c.pc, i.imm) = Add(i.imm, c.pc)
      BY <1>3, <1>4, ModulusFact DEF Add, Word
    <3> QED
      BY <2>5, <3>1, <3>2 DEF Execute, OP_AUIPC
  <2> QED
    BY <2>2, <2>3, <2>4, <2>5
<1> HIDE DEF v, x, y
<1> QED
  BY <1>1, <1>2, <1>4, <1>6, <1>7, WriteBackFields, AgreesPlainly DEF v

\* Jumps and branches: same link, same target, taken together.
LEMMA AgreesJump ==
    ASSUME NEW c, TypedCpu(c), ~c.halted, NEW i \in Instruction, Comparable(c, i),
           i.opcode \in {"JAL", "JALR", "BRANCH"}
    PROVE  Agrees(c, i)
<1> DEFINE d == riscv_decode(i)
           x == c.registers[i.rs1]
           y == c.registers[i.rs2]
           v == alu_out(c.registers, c.pc, i)
           e == Execute(c, i)
<1>1. ~d.illegal_instr
  BY DEF Comparable
<1>2. ~d.memRead /\ ~d.memWrite /\ ~d.syscall
  BY <1>1, DecodedSignals
<1>3. CpuShape(c) /\ c.halted \in BOOLEAN
  BY DEF TypedCpu
<1>4. CASE i.opcode = "JAL"
  <2>1. d.usePC /\ d.rfWrite /\ d.alu_op = "ADD4" /\ d.pc_source = "uncond"
    BY <1>1, <1>4, DecodedSignals
  <2>2. v = Add(c.pc, 4) /\ next_pc(c.registers, c.pc, i) = Add(c.pc, i.imm)
    BY <2>1 DEF alu_out, operand_1, riscv_alu, next_pc
  <2>3. e = [access |-> NoAccess, cpu |-> OP_JAL(c, i)]
    BY <1>4 DEF Execute
  <2> HIDE DEF v, e
  <2>4. /\ e.access = NoAccess /\ e.cpu.halted = c.halted
        /\ e.cpu.registers = register_write(c.registers, i.rd, v)
        /\ e.cpu.pc = Add(c.pc, i.imm)
    BY <1>3, <2>2, <2>3 DEF OP_JAL, CpuShape
  <2> QED
    BY <1>1, <1>2, <1>3, <1>4, <2>1, <2>2, <2>4, AgreesPlainly DEF v, e
<1>5. CASE i.opcode = "JALR"
  <2>1. d.usePC /\ d.rfWrite /\ d.alu_op = "ADD4" /\ d.pc_source = "indirect"
    BY <1>1, <1>5, DecodedSignals
  <2> DEFINE target == Add(x, i.imm)
  <2>2. v = Add(c.pc, 4) /\ next_pc(c.registers, c.pc, i) = target - (target % 2)
    BY <2>1 DEF alu_out, operand_1, riscv_alu, next_pc
  <2>3. e = [access |-> NoAccess, cpu |-> OP_JALR(c, i)]
    BY <1>5 DEF Execute
  <2> HIDE DEF v, e
  <2>4. /\ e.access = NoAccess /\ e.cpu.halted = c.halted
        /\ e.cpu.registers = register_write(c.registers, i.rd, v)
        /\ e.cpu.pc = target - (target % 2)
    BY <1>3, <2>2, <2>3 DEF OP_JALR, CpuShape
  <2> QED
    BY <1>1, <1>2, <1>3, <1>5, <2>1, <2>2, <2>4, AgreesPlainly DEF v, e
<1>6. CASE i.opcode = "BRANCH"
  <2>1. /\ ~d.useImm /\ ~d.usePC /\ ~d.rfWrite /\ d.alu_op = i.funct3 /\ d.pc_source = "cond"
        /\ i.funct3 \in BranchCodes
    BY <1>1, <1>6, DecodedSignals
  <2>2. v = riscv_alu(i.funct3, x, y)
    BY <1>2, <2>1 DEF alu_out, operand_1, operand_2, source
  <2>3. v = 1 <=> BranchTaken(i.funct3, x, y)
    <3>1. Signed(x) \in Int /\ Signed(y) \in Int
      <4>1. x \in Word /\ y \in Word
        BY DEF TypedCpu, Instruction
      <4> QED
        BY <4>1, ModulusFact DEF Signed, Word
    <3> HIDE DEF v, x, y
    <3> QED
      BY <2>1, <2>2, <3>1 DEF riscv_alu, BranchTaken, BranchCodes, Truth, LessSigned
  <2>4. next_pc(c.registers, c.pc, i) = IF v = 1 THEN Add(c.pc, i.imm) ELSE Add(c.pc, 4)
    BY <2>1 DEF next_pc
  <2>5. e = [access |-> NoAccess, cpu |-> OP_BRANCH(c, i)]
    BY <1>6 DEF Execute
  <2>6. OP_BRANCH(c, i) = [c EXCEPT !.pc = next_pc(c.registers, c.pc, i)]
    BY <2>1, <2>3, <2>4 DEF OP_BRANCH, NextPc
  <2> HIDE DEF v, e
  <2>7. /\ e.access = NoAccess /\ e.cpu.halted = c.halted
        /\ e.cpu.registers = c.registers
        /\ e.cpu.pc = next_pc(c.registers, c.pc, i)
    BY <1>3, <2>5, <2>6 DEF CpuShape
  <2>8. c.registers = register_write(c.registers, 0, v)
    BY DEF register_write
  <2> QED
    BY <1>1, <1>2, <1>3, <1>6, <2>1, <2>7, <2>8, AgreesPlainly DEF v, e
<1> QED
  BY <1>4, <1>5, <1>6

\* An ECALL halts both sides for the same argument.
LEMMA AgreesSystem ==
    ASSUME NEW c, TypedCpu(c), ~c.halted, NEW i \in Instruction, Comparable(c, i),
           i.opcode = "SYSTEM"
    PROVE  Agrees(c, i)
<1> DEFINE d == riscv_decode(i)
           v == alu_out(c.registers, c.pc, i)
           e == Execute(c, i)
           word == mem_read32(c.segments, aligned_addr(Address(c, i)))
<1>1. ~d.illegal_instr
  BY DEF Comparable
<1>2. /\ ~d.useImm /\ ~d.rfWrite /\ ~d.memRead /\ ~d.memWrite /\ d.syscall
      /\ d.alu_op = "PASS" /\ d.pc_source = "plus4" /\ i.imm = 0
  BY <1>1, DecodedSignals
<1>3. v = c.registers[REG_A0]
  BY <1>2 DEF alu_out, operand_2, source, riscv_alu
<1>4. next_pc(c.registers, c.pc, i) = Add(c.pc, 4)
  BY <1>2 DEF next_pc
<1>5. e = [access |-> NoAccess, cpu |-> OP_SYSTEM(c, i)]
  BY DEF Execute
<1>6. CpuShape(c) /\ c.halted = FALSE
  BY DEF TypedCpu
<1>7. commit_mem_seam(c.registers, c.pc, i, word) = NoAccess
  BY <1>2 DEF commit_mem_seam
<1> HIDE DEF v, e, word
<1>8. /\ e.cpu.halted = (v = ECALL_ARG_HALT)
      /\ e.access = NoAccess
      /\ e.cpu.registers = c.registers
      /\ v # ECALL_ARG_HALT => e.cpu.pc = Add(c.pc, 4)
  BY <1>2, <1>3, <1>5, <1>6 DEF OP_SYSTEM, Halt, NextPc, CpuShape
<1>9. traps(c.registers, c.pc, i) = (v = ECALL_ARG_HALT)
  BY <1>1, <1>2 DEF traps, v
<1>10. register_write(c.registers, 0, RetiredValue(c.registers, c.pc, i, word)) = c.registers
  BY DEF register_write
<1> QED
  BY <1>2, <1>4, <1>7, <1>8, <1>9, <1>10 DEF Agrees, e, word

\* What both sides make of the address of a load or store they compare.
LEMMA SameAddress ==
    ASSUME NEW c, TypedCpu(c), NEW i \in Instruction, Comparable(c, i),
           i.opcode \in {"LOAD", "STORE"}
    PROVE  LET size  == AccessSize(i.funct3)
               addr  == Address(c, i)
               index == IF size = 4 THEN 0 ELSE addr % 4
           IN  /\ addr \in Word /\ size \in {1, 2, 4} /\ index \in 0 .. 3
               /\ alu_out(c.registers, c.pc, i) = addr
               /\ next_pc(c.registers, c.pc, i) = Add(c.pc, 4)
               /\ LaneOffset(i.funct3, addr) = index
               /\ WordAsked(i, addr) = aligned_addr(addr)
               /\ size = 4 => addr = aligned_addr(addr)
               /\ aligned_addr(addr) \in Nat
               /\ ~AccessFaults(c.segments, aligned_addr(addr))
               /\ ~traps(c.registers, c.pc, i)
<1> DEFINE d == riscv_decode(i)
           size  == AccessSize(i.funct3)
           addr  == Address(c, i)
           index == IF size = 4 THEN 0 ELSE addr % 4
<1>1. ~d.illegal_instr /\ ~AccessFaults(c.segments, aligned_addr(addr)) /\ addr % size = 0
  BY DEF Comparable
<1>2. d.useImm /\ ~d.usePC /\ ~d.syscall /\ d.alu_op = "ADD" /\ d.pc_source = "plus4"
  BY <1>1, DecodedSignals
<1>3. alu_out(c.registers, c.pc, i) = addr
  BY <1>2 DEF alu_out, operand_1, operand_2, source, riscv_alu, Address
<1>4. next_pc(c.registers, c.pc, i) = Add(c.pc, 4)
  BY <1>2 DEF next_pc
<1>5. addr \in Word
  BY WordType DEF Address, TypedCpu, Instruction
<1>6. size \in {1, 2, 4}
  BY DEF AccessSize
<1>7. ~traps(c.registers, c.pc, i)
  BY <1>1, <1>2 DEF traps
<1>8. LaneOffset(i.funct3, addr) = CASE size = 1 -> addr % 4
                                     [] size = 2 -> 2 * ((addr % 4) \div 2)
                                     [] OTHER -> 0
  BY DEF LaneOffset
<1>9. WordAsked(i, addr) = IF size = 4 THEN addr ELSE aligned_addr(addr)
  BY DEF WordAsked
<1> HIDE DEF d, size, addr
<1>10. addr \in Nat
  BY <1>5, ModulusFact DEF Word
<1>11. index \in 0 .. 3 /\ aligned_addr(addr) \in Nat
  BY <1>6, <1>10 DEF aligned_addr
<1>12. size = 2 => 2 * ((addr % 4) \div 2) = addr % 4
  BY <1>1, <1>10
<1>13. size = 4 => addr = aligned_addr(addr)
  BY <1>1, <1>10 DEF aligned_addr
<1>14. LaneOffset(i.funct3, addr) = index
  BY <1>6, <1>8, <1>12
<1> QED
  BY <1>1, <1>3, <1>4, <1>5, <1>6, <1>7, <1>9, <1>11, <1>13, <1>14 DEF size, addr

\* The lowest lanes of a word whose sign was extended are its own.
LEMMA SignKeepsLanes ==
    ASSUME NEW v \in Word, NEW size \in {1, 2, 4}, NEW k \in 0 .. size - 1
    PROVE  get_byte(SignExtend(v, size), k) = get_byte(v, k)
<1> DEFINE b == [l \in Lanes |->
                   IF l < size THEN get_byte(v, l)
                   ELSE IF get_byte(v, size - 1) < Lane \div 2 THEN 0 ELSE Lane - 1]
<1>1. v \in Int /\ 0 \in Byte /\ Lane - 1 \in Byte
  BY ModulusFact DEF Word, Byte
<1>2. b \in [Lanes -> Byte]
  BY <1>1, ByteType
<1>3. SignExtend(v, size) = FromLanes(b)
  BY DEF SignExtend
<1>4. k \in Lanes /\ b[k] = get_byte(v, k)
  BY DEF Lanes
<1> HIDE DEF b
<1> QED
  BY <1>2, <1>3, <1>4, LaneRoundTrip

\* A load takes the same lanes of the same word, extends them alike, and leaves the
\* same line in the memory trace.
LEMMA AgreesLoad ==
    ASSUME NEW c, TypedCpu(c), Backed(c.segments), ~c.halted,
           NEW i \in Instruction, Comparable(c, i), i.opcode = "LOAD"
    PROVE  Agrees(c, i)
<1> DEFINE d == riscv_decode(i)
           size  == AccessSize(i.funct3)
           addr  == Address(c, i)
           index == IF size = 4 THEN 0 ELSE addr % 4
           word  == mem_read32(c.segments, aligned_addr(addr))
           result == TakeLanes(word, index, size)
           value == IF i.funct3 \in {"LB", "LH"} THEN SignExtend(result, size) ELSE result
           mask  == LaneMask(index, size)
           data  == PutLanes(0, index, size, result)
           e     == Execute(c, i)
<1>1. d.rfWrite /\ d.memRead /\ ~d.memWrite /\ i.funct3 \in LoadCodes
  BY DecodedSignals DEF Comparable
<1>2. /\ addr \in Word /\ size \in {1, 2, 4} /\ index \in 0 .. 3
      /\ alu_out(c.registers, c.pc, i) = addr
      /\ next_pc(c.registers, c.pc, i) = Add(c.pc, 4)
      /\ LaneOffset(i.funct3, addr) = index
      /\ WordAsked(i, addr) = aligned_addr(addr)
      /\ aligned_addr(addr) \in Nat
      /\ ~AccessFaults(c.segments, aligned_addr(addr))
      /\ ~traps(c.registers, c.pc, i)
  BY SameAddress
<1>3. word \in Word
  BY <1>2, ReadType DEF TypedCpu
<1>4. get_load_data(i.funct3, addr, word) = value
  BY <1>2 DEF get_load_data
<1>5. RetiredValue(c.registers, c.pc, i, word) = value
  BY <1>1, <1>2, <1>4 DEF RetiredValue
<1>6. PutLanes(0, index, size, value) = data
  <2>1. result \in Word
    BY <1>2, <1>3, FieldsType
  <2> HIDE DEF result, index, size
  <2>2. \A k \in 0 .. size - 1 : get_byte(value, k) = get_byte(result, k)
    BY <1>2, <2>1, SignKeepsLanes
  <2>3. \A l \in Lanes : l \in index .. index + size - 1 =>
          get_byte(value, l - index) = get_byte(result, l - index)
    BY <1>2, <2>2 DEF Lanes
  <2> HIDE DEF value
  <2> QED
    BY <2>3 DEF PutLanes
<1>7. commit_mem_seam(c.registers, c.pc, i, word) = Access(FALSE, addr, mask, data)
  BY <1>1, <1>2, <1>4, <1>6 DEF commit_mem_seam, get_byte_mask
<1>8. e = [cpu |-> HaltIf(WriteBack(c, i.rd, value), AccessFaults(c.segments, aligned_addr(addr))),
           access |-> Access(FALSE, addr, mask, data)]
  <2>1. e = OP_LOAD(c, i)
    BY DEF Execute
  <2> HIDE DEF e
  <2> QED
    BY <1>1, <1>2, <2>1 DEF OP_LOAD
<1>9. CpuShape(c) /\ c.halted = FALSE
  BY DEF TypedCpu
<1> HIDE DEF e, value, word, mask, data, addr
<1> DEFINE w == WriteBack(c, i.rd, value)
<1>10. /\ DOMAIN w = DOMAIN c /\ w.halted = FALSE /\ w.pc = Add(c.pc, 4)
       /\ w.registers = register_write(c.registers, i.rd, value)
  BY <1>9, WriteBackFields
<1> HIDE DEF w
<1>11. /\ e.access = Access(FALSE, addr, mask, data)
       /\ e.cpu = [w EXCEPT !.halted = @ \/ FALSE]
  BY <1>2, <1>8 DEF HaltIf, w
<1>12. e.cpu.halted = FALSE /\ e.cpu.pc = w.pc /\ e.cpu.registers = w.registers
  BY <1>9, <1>10, <1>11 DEF CpuShape
<1>13. traps(c.registers, c.pc, i) = FALSE
  BY <1>2 DEF traps
<1> QED
  BY <1>1, <1>2, <1>5, <1>7, <1>10, <1>11, <1>12, <1>13 DEF Agrees, e, word, addr

\* A word written where it may be is the word read back there.
LEMMA ReadAfterWrite ==
    ASSUME NEW segments, SegmentShape(segments), TypedMemory(segments), Backed(segments),
           NEW addr \in Nat, ~AccessFaults(segments, addr),
           NEW b \in [Lanes -> Byte]
    PROVE  mem_read32(mem_write32(segments, addr, FromLanes(b)), addr) = FromLanes(b)
<1> DEFINE s == mem_find_segment(segments, addr)
           offset == addr - MEMORY_SEGMENTS[s].base_addr
           v == FromLanes(b)
           w == mem_write32(segments, addr, v)
           old == segments[s].mem
           new == [k \in DOMAIN old |->
                     IF k - offset \in 1 .. 4 THEN get_byte(v, k - offset - 1) ELSE old[k]]
<1>1. ASSUME NEW t \in SegmentIds PROVE segments[t].size \in Nat
  <2>1. segments[t].size \in 0 .. Modulus - 1
    BY DEF TypedMemory, TypedSegment
  <2> QED
    BY <2>1
<1>2. s \in SegmentIds /\ offset \in Nat /\ offset + 4 <= segments[s].size
  BY <1>1, InsideBuffer
<1>3. DOMAIN old = 1 .. segments[s].size
  BY <1>2 DEF Backed
<1>4. w = [segments EXCEPT ![s].mem = new]
  BY DEF mem_write32, mem_write_word
<1>5. w[s].mem = new /\ \A t \in SegmentIds : w[t].size = segments[t].size
  <2> HIDE DEF w, new, s
  <2> QED
    BY <1>2, <1>4 DEF SegmentShape
<1>6. SegmentsAround(w, addr) = SegmentsAround(segments, addr)
  <2> HIDE DEF w
  <2> QED
    BY <1>5 DEF SegmentsAround, segment_end_addr
<1>7. mem_find_segment(w, addr) = s /\ ~AccessFaults(w, addr)
  <2> HIDE DEF w
  <2> QED
    BY <1>6 DEF mem_find_segment, AccessFaults
<1>8. mem_read32(w, addr) = FromLanes([l \in Lanes |-> w[s].mem[offset + l + 1]])
  <2> HIDE DEF w
  <2> QED
    BY <1>7 DEF mem_read32, mem_read_word
<1>9. ASSUME NEW l \in Lanes PROVE new[offset + l + 1] = b[l]
  <2>1. get_byte(v, l) = b[l]
    BY LaneRoundTrip
  <2> DEFINE k == offset + l + 1
  <2>2. k \in 1 .. segments[s].size /\ k - offset \in 1 .. 4 /\ k - offset - 1 = l
    <3>1. segments[s].size \in Nat
      BY <1>1, <1>2
    <3> HIDE DEF s, offset
    <3> QED
      BY <1>2, <3>1 DEF Lanes
  <2> HIDE DEF k, offset, v, s, old
  <2>3. new[k] = get_byte(v, k - offset - 1)
    BY <1>3, <2>2
  <2> QED
    BY <2>1, <2>2, <2>3 DEF k
<1>10. [l \in Lanes |-> w[s].mem[offset + l + 1]] = b
  <2> HIDE DEF w, new, s, offset
  <2> QED
    BY <1>5, <1>9
<1> QED
  BY <1>8, <1>10

\* A store puts the same bytes in the same lanes, leaves the same line in the memory
\* trace, and leaves the other lanes of the word alone, as the byte mask does.
LEMMA AgreesStore ==
    ASSUME NEW c, TypedCpu(c), Backed(c.segments), ~c.halted,
           NEW i \in Instruction, Comparable(c, i), i.opcode = "STORE"
    PROVE  Agrees(c, i)
<1> DEFINE d == riscv_decode(i)
           size  == AccessSize(i.funct3)
           addr  == Address(c, i)
           at    == aligned_addr(addr)
           index == IF size = 4 THEN 0 ELSE addr % 4
           word  == mem_read32(c.segments, at)
           rs2   == c.registers[i.rs2]
           mask  == LaneMask(index, size)
           data  == PutLanes(0, index, size, rs2)
           merged == MergeLanes(word, mask, data)
           e     == Execute(c, i)
<1>1. ~d.rfWrite /\ ~d.memRead /\ d.memWrite /\ i.funct3 \in StoreCodes
  BY DecodedSignals DEF Comparable
<1>2. /\ addr \in Word /\ size \in {1, 2, 4} /\ index \in 0 .. 3
      /\ alu_out(c.registers, c.pc, i) = addr
      /\ next_pc(c.registers, c.pc, i) = Add(c.pc, 4)
      /\ LaneOffset(i.funct3, addr) = index
      /\ WordAsked(i, addr) = at
      /\ size = 4 => addr = at
      /\ at \in Nat
      /\ ~AccessFaults(c.segments, at)
      /\ ~traps(c.registers, c.pc, i)
  BY SameAddress
<1>3. word \in Word /\ rs2 \in Word /\ 0 \in Word
  BY <1>2, ReadType, ModulusFact DEF TypedCpu, Instruction
<1>4. data \in Word
  BY <1>2, <1>3, FieldsType
<1>5. commit_mem_seam(c.registers, c.pc, i, word) = Access(TRUE, addr, mask, data)
  BY <1>1, <1>2 DEF commit_mem_seam, get_byte_mask, get_store_data
<1>6. e = OP_STORE(c, i)
  BY DEF Execute
<1>7. DOMAIN c = {"halted", "cycle", "pc", "registers", "segments"} /\ c.halted = FALSE
      /\ SegmentShape(c.segments) /\ TypedMemory(c.segments)
  BY DEF TypedCpu, CpuShape
<1>8. ReplayAccess(c.segments, e.access) = e.cpu.segments
  <2>1. c.registers[i.rs1] \in Word /\ i.imm \in Word
    BY DEF TypedCpu, Instruction
  <2> HIDE DEF e
  <2> QED
    BY <1>1, <1>3, <1>6, <1>7, <2>1, StoreReplays
<1>9. /\ e.access = Access(TRUE, addr, mask, data)
      /\ e.cpu.halted = FALSE
      /\ e.cpu.pc = Add(c.pc, 4)
      /\ e.cpu.registers = c.registers
  <2> DEFINE store == IF size = 4 THEN rs2 ELSE PutLanes(word, index, size, rs2)
             m == [c EXCEPT !.segments = mem_write32(c.segments, at, store)]
             n == [m EXCEPT !.halted = m.halted \/ FALSE]
  <2>1. e = [cpu |-> NextPc(n), access |-> Access(TRUE, addr, mask, data)]
    <3>1. e = [cpu |-> NextPc(HaltIf(m, AccessFaults(c.segments, at))),
               access |-> Access(TRUE, addr, mask, data)]
      <4> HIDE DEF e
      <4> QED
        BY <1>1, <1>2, <1>6 DEF OP_STORE
    <3> HIDE DEF m, e
    <3> QED
      BY <1>2, <3>1 DEF HaltIf
  <2>2. DOMAIN m = DOMAIN c /\ m.halted = FALSE /\ m.pc = c.pc /\ m.registers = c.registers
    BY <1>7
  <2> HIDE DEF m
  <2>3. DOMAIN n = DOMAIN c /\ n.halted = FALSE /\ n.pc = c.pc /\ n.registers = c.registers
    BY <1>7, <2>2
  <2> HIDE DEF n, e, mask, data, addr
  <2>4. e.cpu = [n EXCEPT !.pc = Add(n.pc, 4)] /\ e.access = Access(TRUE, addr, mask, data)
    BY <2>1 DEF NextPc
  <2> QED
    BY <1>7, <2>3, <2>4
<1>10. mask = Lanes => addr = at
  <2>1. CASE size # 4
    <3> HIDE DEF index, size
    <3>1. 0 \notin index .. index + size - 1 \/ 3 \notin index .. index + size - 1
      BY <1>2, <2>1
    <3> QED
      BY <3>1 DEF LaneMask, Lanes
  <2> QED
    BY <1>2, <2>1
<1>11. e.cpu.segments = mem_write32(c.segments, at, merged)
  <2> HIDE DEF e, mask, data, addr
  <2> QED
    BY <1>2, <1>8, <1>9, <1>10 DEF ReplayAccess, Access, at, word
<1>12. mem_read32(e.cpu.segments, at) = merged
  <2> DEFINE b == [l \in Lanes |-> IF l \in mask THEN get_byte(data, l) ELSE get_byte(word, l)]
  <2>1. word \in Int /\ data \in Int
    BY <1>3, <1>4, ModulusFact DEF Word
  <2>2. b \in [Lanes -> Byte]
    <3> HIDE DEF word, data, mask
    <3> QED
      BY <2>1, ByteType
  <2>3. merged = FromLanes(b)
    BY DEF MergeLanes
  <2> HIDE DEF b, merged, at, e
  <2> QED
    BY <1>2, <1>7, <1>11, <2>2, <2>3, ReadAfterWrite
<1>13. traps(c.registers, c.pc, i) = FALSE
  BY <1>2 DEF traps
<1>14. register_write(c.registers, 0, RetiredValue(c.registers, c.pc, i, word)) = c.registers
  BY DEF register_write
<1> DEFINE seam == commit_mem_seam(c.registers, c.pc, i, word)
<1>15. seam.mask = mask /\ seam.data = data
  <2> HIDE DEF mask, data
  <2> QED
    BY <1>5 DEF Access
<1> HIDE DEF e, word, mask, data, at, seam
<1> QED
  BY <1>1, <1>2, <1>5, <1>9, <1>12, <1>13, <1>14, <1>15 DEF Agrees, e, word, at, addr, seam

\* Any instruction both sides define, executed on any processor that runs with any
\* contents of registers and memory, does in the simulator what it does in the core's
\* data path.
THEOREM DatapathAgrees ==
    ASSUME NEW c, TypedCpu(c), Backed(c.segments), ~c.halted,
           NEW i \in Instruction, Comparable(c, i)
    PROVE  Agrees(c, i)
<1>1. i.opcode \in {"OP", "IMM", "LUI", "AUIPC", "JAL", "JALR", "BRANCH", "LOAD", "STORE",
                    "SYSTEM"}
  BY DecodedSignals DEF Comparable
<1> QED
  BY <1>1, AgreesArithmetic, AgreesJump, AgreesSystem, AgreesLoad, AgreesStore

-----------------------------------------------------------------------------
(* The immediates. *)

\* What one bit of a word holds: the instruction bits or-ed into it.
Sources == SUBSET WordBits

\* Bit b of a word that is a field of the instruction, moved to where an immediate has it.
FieldBit(b, from, width, to) ==
    IF b \in to .. to + width - 1 THEN instr[b - to + from] ELSE Zero

\* Such a field is what the shifts and the mask of sim.c make of the instruction.
LEMMA FieldMoved ==
    ASSUME NEW from \in 0 .. 31, NEW width \in 1 .. 32, NEW to \in 0 .. 31,
           from + width <= 32, to + width <= 32, NEW b \in WordBits
    PROVE  Left(Mask(RightLogical(instr, from), Low(width)), to)[b] = FieldBit(b, from, width, to)
<1> DEFINE x == RightLogical(instr, from)
           y == Mask(x, Low(width))
<1>1. \A k \in WordBits : x[k] = IF k + from <= 31 THEN instr[k + from] ELSE Zero
  BY DEF RightLogical
<1> HIDE DEF x
<1>2. ASSUME NEW k \in WordBits
      PROVE  y[k] = IF k \in 0 .. width - 1 THEN instr[k + from] ELSE Zero
  <2>1. y[k] = IF k \in Low(width) THEN x[k] ELSE Zero
    BY DEF Mask
  <2>2. k \in 0 .. width - 1 => k + from <= 31
    OBVIOUS
  <2> QED
    BY <1>1, <2>1, <2>2 DEF Low
<1> HIDE DEF y
<1>3. Left(y, to)[b] = IF b >= to THEN y[b - to] ELSE Zero
  BY DEF Left
<1> DEFINE z == Left(y, to)[b]
<1>4. ASSUME b >= to PROVE z = FieldBit(b, from, width, to)
  <2> DEFINE k == b - to
  <2>1. k \in WordBits /\ (k \in 0 .. width - 1 <=> b \in to .. to + width - 1)
    BY <1>4 DEF WordBits
  <2> HIDE DEF k
  <2>2. y[k] = IF b \in to .. to + width - 1 THEN instr[k + from] ELSE Zero
    BY <1>2, <2>1
  <2> QED
    BY <1>3, <1>4, <2>2 DEF k, FieldBit
<1>5. ASSUME ~(b >= to) PROVE z = FieldBit(b, from, width, to)
  <2>1. b \notin to .. to + width - 1
    BY <1>5 DEF WordBits
  <2> QED
    BY <1>3, <1>5, <2>1 DEF FieldBit
<1> QED
  BY <1>4, <1>5 DEF x, y, z

\* The piece of a concatenation that has bits hi to lo of a word, the highest first.
HasBits(piece, x, hi, lo) ==
    /\ piece \in Seq(Sources)
    /\ Len(piece) = hi - lo + 1
    /\ \A k \in 1 .. hi - lo + 1 : piece[k] = x[hi - k + 1]

\* Bits hi to lo of a word are those of the instruction from bit from on, or all v.
TakenFrom(x, hi, lo, from) == \A b \in lo .. hi : x[b] = instr[b - lo + from]

AllBits(x, hi, lo, v) == \A b \in lo .. hi : x[b] = v

\* A slice of the instruction, placed where the word has these instruction bits.
LEMMA SliceHas ==
    ASSUME NEW x, NEW hi \in 0 .. 31, NEW lo \in 0 .. hi, NEW from \in 0 .. 31, NEW top \in 0 .. 31,
           top - from = hi - lo, TakenFrom(x, hi, lo, from)
    PROVE  HasBits(Slice(top, from), x, hi, lo)
<1> DEFINE n == top - from + 1
           s == Slice(top, from)
<1>1. n \in Nat /\ n = hi - lo + 1
  OBVIOUS
<1>2. s = [k \in 1 .. n |-> instr[top - k + 1]]
  BY DEF Slice
<1>3. ASSUME NEW k \in 1 .. n
      PROVE  /\ instr[top - k + 1] \in Sources
             /\ instr[top - k + 1] = x[hi - k + 1]
  <2>1. top - k + 1 \in WordBits
    BY DEF WordBits
  <2>2. instr[top - k + 1] \in Sources
    BY <2>1 DEF instr, Sources
  <2> DEFINE b == hi - k + 1
  <2>3. b \in lo .. hi /\ b - lo + from = top - k + 1
    OBVIOUS
  <2> HIDE DEF b
  <2>4. x[b] = instr[b - lo + from]
    BY <2>3 DEF TakenFrom
  <2> QED
    BY <2>2, <2>3, <2>4 DEF b
<1> HIDE DEF n, s
<1>4. s \in [1 .. n -> Sources]
  BY <1>2, <1>3
<1>5. s \in Seq(Sources) /\ Len(s) = n
  BY <1>1, <1>4, SeqDef, LenProperties
<1>6. \A k \in 1 .. n : s[k] = x[hi - k + 1]
  BY <1>2, <1>3
<1> QED
  BY <1>1, <1>5, <1>6 DEF HasBits, s

\* The same value in every bit: copies of the sign, or zeros.
LEMMA ConstantHas ==
    ASSUME NEW x, NEW hi \in 0 .. 32, NEW lo \in 0 .. hi, NEW n \in Nat, n = hi - lo + 1,
           NEW v \in Sources, AllBits(x, hi, lo, v), NEW s, s = [k \in 1 .. n |-> v]
    PROVE  HasBits(s, x, hi, lo)
<1>1. \A k \in 1 .. n : hi - k + 1 \in lo .. hi
  OBVIOUS
<1>2. \A k \in 1 .. n : s[k] = x[hi - k + 1]
  BY <1>1 DEF AllBits
<1>3. s \in [1 .. n -> Sources]
  OBVIOUS
<1>4. s \in Seq(Sources) /\ Len(s) = n
  BY <1>3, SeqDef, LenProperties
<1> QED
  BY <1>2, <1>4 DEF HasBits

\* Two pieces put together.
LEMMA Joined ==
    ASSUME NEW x, NEW hi \in 0 .. 32, NEW mid \in 0 .. 31, NEW lo \in 0 .. 31,
           lo <= mid, mid < hi, NEW next, next = mid + 1,
           NEW s, HasBits(s, x, hi, next), NEW t, HasBits(t, x, mid, lo)
    PROVE  HasBits(s \o t, x, hi, lo)
<1> DEFINE m == hi - mid
           n == mid - lo + 1
<1>1. m \in Nat /\ n \in Nat /\ hi - (mid + 1) + 1 = m /\ m + n = hi - lo + 1
      /\ n = mid - lo + 1 /\ m = hi - mid
  OBVIOUS
<1> HIDE DEF m, n
<1>2. s \in Seq(Sources) /\ Len(s) = m /\ t \in Seq(Sources) /\ Len(t) = n
  BY <1>1 DEF HasBits
<1>3. \A k \in 1 .. m : s[k] = x[hi - k + 1]
  BY <1>1 DEF HasBits
<1>4. \A k \in 1 .. n : t[k] = x[mid - k + 1]
  BY <1>1 DEF HasBits
<1> DEFINE q == s \o t
<1>5. /\ q \in Seq(Sources) /\ Len(q) = m + n
      /\ \A k \in 1 .. m + n : q[k] = IF k <= m THEN s[k] ELSE t[k - m]
  BY <1>1, <1>2, ConcatProperties
<1> HIDE DEF q
<1>6. \A k \in 1 .. m + n : q[k] = IF k <= m THEN s[k] ELSE t[k - m]
  BY <1>5
<1>7. ASSUME NEW k \in 1 .. m + n PROVE q[k] = x[hi - k + 1]
  <2>1. CASE k <= m
    BY <1>1, <1>3, <1>6, <2>1
  <2>2. CASE ~(k <= m)
    <3> DEFINE j == k - m
    <3>1. j \in 1 .. n /\ mid - j + 1 = hi - k + 1
      BY <1>1, <2>2
    <3>3. q[k] = t[j]
      BY <1>6, <2>2
    <3> HIDE DEF j
    <3>2. t[j] = x[hi - k + 1]
      BY <1>4, <3>1
    <3> QED
      BY <3>2, <3>3
  <2> QED
    BY <2>1, <2>2
<1>8. q \in Seq(Sources) /\ Len(q) = hi - lo + 1
  BY <1>1, <1>5
<1>9. \A k \in 1 .. hi - lo + 1 : q[k] = x[hi - k + 1]
  BY <1>1, <1>7
<1> QED
  BY <1>8, <1>9 DEF HasBits, q

\* A slice put after what is there already.
LEMMA SliceNext ==
    ASSUME NEW x, NEW top \in 0 .. 32, NEW hi \in 0 .. 31, NEW lo \in 0 .. 31, NEW next, next = hi + 1,
           lo <= hi, hi < top, NEW from \in 0 .. 31, NEW last \in 0 .. 31, last - from = hi - lo,
           NEW s, HasBits(s, x, top, next), TakenFrom(x, hi, lo, from)
    PROVE  HasBits(s \o Slice(last, from), x, top, lo)
<1>1. lo \in 0 .. hi /\ lo <= hi /\ hi \in 0 .. 31
  OBVIOUS
<1>2. HasBits(Slice(last, from), x, hi, lo)
  BY <1>1, SliceHas
<1> QED
  BY <1>1, <1>2, Joined

\* A concatenation of 32 bits is the word whose bits it has; one more is lost.
LEMMA AssignedWord ==
    ASSUME NEW x, x = [b \in WordBits |-> x[b]], NEW y, \A b \in WordBits : y[b] = x[b],
           NEW top \in {31, 32}, NEW s, HasBits(s, y, top, 0)
    PROVE  x = Assigned(s)
<1> DEFINE n == top + 1
<1>1. n \in Nat /\ n >= 32 /\ top - 0 + 1 = n /\ top = n - 1
  OBVIOUS
<1> HIDE DEF n
<1>2. Len(s) = n
  BY <1>1 DEF HasBits
<1>3. ASSUME NEW b \in WordBits PROVE s[n - b] = x[b]
  <2>1. n - b \in 1 .. top - 0 + 1 /\ top - (n - b) + 1 = b
    BY <1>1 DEF WordBits
  <2>2. s[n - b] = y[b]
    BY <2>1 DEF HasBits
  <2> QED
    BY <2>2
<1>4. Assigned(s) = [b \in WordBits |-> s[n - b]]
  BY <1>2 DEF Assigned
<1> QED
  BY <1>3, <1>4

\* Every immediate is the same bits on both sides.
LEMMA SameImmediates == ImmediatesAgree
<1>1. instr[31] \in Sources /\ Zero \in Sources
  BY DEF instr, Sources, WordBits, Zero
<1>2. \A S : S \cup Zero = S /\ Zero \cup S = S
  BY DEF Zero
<1>3. itype_imm = ImmediateGenerator.IMM_I
  <2>1. \A b \in WordBits : itype_imm[b] =
               IF b <= 11 THEN instr[b + 20] ELSE instr[31]
    BY DEF itype_imm, RightArith, Mask, WordBits
  <2>2. itype_imm = [b \in WordBits |-> itype_imm[b]]
    BY DEF itype_imm, RightArith
  <2> DEFINE x == itype_imm
             s == Copies(21, 31)
             t1 == s \o Slice(30, 20)
  <2>3. HasBits(s, x, 31, 11)
    <3>1. AllBits(x, 31, 11, instr[31])
      BY <2>1 DEF x, WordBits, AllBits
    <3>2. 31 \in 0 .. 32 /\ 11 \in 0 .. 31 /\ 21 \in Nat /\ 21 = 31 - 11 + 1
      OBVIOUS
    <3>3. s = [k \in 1 .. 21 |-> instr[31]]
      BY DEF Copies
    <3> HIDE DEF x, s
    <3> QED
      BY <1>1, <3>1, <3>2, <3>3, ConstantHas
  <2>4. HasBits(t1, x, 31, 0)
    <3>1. TakenFrom(x, 10, 0, 20)
      BY <2>1 DEF x, WordBits, TakenFrom
    <3>2. /\ 31 \in 0 .. 32 /\ 10 \in 0 .. 31 /\ 0 \in 0 .. 31 /\ 11 = 10 + 1 /\ 0 <= 10 /\ 10 < 31
          /\ 20 \in 0 .. 31 /\ 30 \in 0 .. 31 /\ 30 - 20 = 10 - 0
      OBVIOUS
    <3> HIDE DEF x, s
    <3> QED
      BY <2>3, <3>1, <3>2, SliceNext
  <2>5. \A b \in WordBits : x[b] = itype_imm[b]
    BY DEF x, WordBits
  <2> DEFINE all == t1
  <2>6. 31 \in {31, 32} /\ HasBits(all, x, 31, 0)
    BY <2>4
  <2>7. Assigned(all) = ImmediateGenerator.IMM_I
    BY DEF ImmediateGenerator
  <2> HIDE DEF x, all
  <2> QED
    BY <2>2, <2>5, <2>6, <2>7, AssignedWord
<1>4. stype_offset = ImmediateGenerator.IMM_S
  <2>1. ASSUME NEW b \in WordBits
        PROVE  stype_offset[b] =
               IF b <= 4 THEN instr[b + 7] ELSE IF b <= 11 THEN instr[b + 20] ELSE instr[31]
    <3>1. Left(RightArith(instr, 25), 5)[b] =
             IF b >= 5 THEN (IF b <= 11 THEN instr[b + 20] ELSE instr[31]) ELSE Zero
      BY DEF Left, RightArith, WordBits
    <3>2. Mask(RightLogical(instr, 7), Low(5))[b] = IF b <= 4 THEN instr[b + 7] ELSE Zero
      BY DEF Mask, RightLogical, Low, WordBits
    <3>3. stype_offset[b] = Left(RightArith(instr, 25), 5)[b] \cup Mask(RightLogical(instr, 7), Low(5))[b]
      BY DEF stype_offset, Or
    <3> QED
      BY <1>2, <3>1, <3>2, <3>3 DEF WordBits
  <2>2. stype_offset = [b \in WordBits |-> stype_offset[b]]
    BY DEF stype_offset, Or
  <2> DEFINE x == stype_offset
             s == Copies(21, 31)
             t1 == s \o Slice(30, 25)
             t2 == t1 \o Slice(11, 8)
             t3 == t2 \o Slice(7, 7)
  <2>3. HasBits(s, x, 31, 11)
    <3>1. AllBits(x, 31, 11, instr[31])
      BY <2>1 DEF x, WordBits, AllBits
    <3>2. 31 \in 0 .. 32 /\ 11 \in 0 .. 31 /\ 21 \in Nat /\ 21 = 31 - 11 + 1
      OBVIOUS
    <3>3. s = [k \in 1 .. 21 |-> instr[31]]
      BY DEF Copies
    <3> HIDE DEF x, s
    <3> QED
      BY <1>1, <3>1, <3>2, <3>3, ConstantHas
  <2>4. HasBits(t1, x, 31, 5)
    <3>1. TakenFrom(x, 10, 5, 25)
      BY <2>1 DEF x, WordBits, TakenFrom
    <3>2. /\ 31 \in 0 .. 32 /\ 10 \in 0 .. 31 /\ 5 \in 0 .. 31 /\ 11 = 10 + 1 /\ 5 <= 10 /\ 10 < 31
          /\ 25 \in 0 .. 31 /\ 30 \in 0 .. 31 /\ 30 - 25 = 10 - 5
      OBVIOUS
    <3> HIDE DEF x, s
    <3> QED
      BY <2>3, <3>1, <3>2, SliceNext
  <2>5. HasBits(t2, x, 31, 1)
    <3>1. TakenFrom(x, 4, 1, 8)
      BY <2>1 DEF x, WordBits, TakenFrom
    <3>2. /\ 31 \in 0 .. 32 /\ 4 \in 0 .. 31 /\ 1 \in 0 .. 31 /\ 5 = 4 + 1 /\ 1 <= 4 /\ 4 < 31
          /\ 8 \in 0 .. 31 /\ 11 \in 0 .. 31 /\ 11 - 8 = 4 - 1
      OBVIOUS
    <3> HIDE DEF x, t1
    <3> QED
      BY <2>4, <3>1, <3>2, SliceNext
  <2>6. HasBits(t3, x, 31, 0)
    <3>1. TakenFrom(x, 0, 0, 7)
      BY <2>1 DEF x, WordBits, TakenFrom
    <3>2. /\ 31 \in 0 .. 32 /\ 0 \in 0 .. 31 /\ 0 \in 0 .. 31 /\ 1 = 0 + 1 /\ 0 <= 0 /\ 0 < 31
          /\ 7 \in 0 .. 31 /\ 7 \in 0 .. 31 /\ 7 - 7 = 0 - 0
      OBVIOUS
    <3> HIDE DEF x, t2
    <3> QED
      BY <2>5, <3>1, <3>2, SliceNext
  <2>7. \A b \in WordBits : x[b] = stype_offset[b]
    BY DEF x, WordBits
  <2> DEFINE all == t3
  <2>8. 31 \in {31, 32} /\ HasBits(all, x, 31, 0)
    BY <2>6
  <2>9. Assigned(all) = ImmediateGenerator.IMM_S
    BY DEF ImmediateGenerator
  <2> HIDE DEF x, all
  <2> QED
    BY <2>2, <2>7, <2>8, <2>9, AssignedWord
<1>5. utype_immed = ImmediateGenerator.IMM_U
  <2>1. \A b \in WordBits : utype_immed[b] =
               IF b >= 12 THEN instr[b] ELSE Zero
    BY DEF utype_immed, RightArith, Mask, WordBits
  <2>2. utype_immed = [b \in WordBits |-> utype_immed[b]]
    BY DEF utype_immed, Mask
  <2> DEFINE x == [b \in 0 .. 32 |-> IF b = 32 THEN instr[31] ELSE utype_immed[b]]
             s == Copies(2, 31)
             t1 == s \o Slice(30, 20)
             t2 == t1 \o Slice(19, 12)
  <2>3. HasBits(s, x, 32, 31)
    <3>1. AllBits(x, 32, 31, instr[31])
      BY <2>1 DEF x, WordBits, AllBits
    <3>2. 32 \in 0 .. 32 /\ 31 \in 0 .. 32 /\ 2 \in Nat /\ 2 = 32 - 31 + 1
      OBVIOUS
    <3>3. s = [k \in 1 .. 2 |-> instr[31]]
      BY DEF Copies
    <3> HIDE DEF x, s
    <3> QED
      BY <1>1, <3>1, <3>2, <3>3, ConstantHas
  <2>4. HasBits(t1, x, 32, 20)
    <3>1. TakenFrom(x, 30, 20, 20)
      BY <2>1 DEF x, WordBits, TakenFrom
    <3>2. /\ 32 \in 0 .. 32 /\ 30 \in 0 .. 31 /\ 20 \in 0 .. 31 /\ 31 = 30 + 1 /\ 20 <= 30 /\ 30 < 32
          /\ 20 \in 0 .. 31 /\ 30 \in 0 .. 31 /\ 30 - 20 = 30 - 20
      OBVIOUS
    <3> HIDE DEF x, s
    <3> QED
      BY <2>3, <3>1, <3>2, SliceNext
  <2>5. HasBits(t2, x, 32, 12)
    <3>1. TakenFrom(x, 19, 12, 12)
      BY <2>1 DEF x, WordBits, TakenFrom
    <3>2. /\ 32 \in 0 .. 32 /\ 19 \in 0 .. 31 /\ 12 \in 0 .. 31 /\ 20 = 19 + 1 /\ 12 <= 19 /\ 19 < 32
          /\ 12 \in 0 .. 31 /\ 19 \in 0 .. 31 /\ 19 - 12 = 19 - 12
      OBVIOUS
    <3> HIDE DEF x, t1
    <3> QED
      BY <2>4, <3>1, <3>2, SliceNext
  <2>6. HasBits(t2 \o Zeroes(12), x, 32, 0)
    <3> DEFINE z == Zeroes(12)
    <3>1. AllBits(x, 11, 0, Zero)
      BY <2>1 DEF x, WordBits, AllBits
    <3>2. /\ 11 \in 0 .. 32 /\ 0 \in 0 .. 11 /\ 12 \in Nat /\ 12 = 11 - 0 + 1
          /\ 32 \in 0 .. 32 /\ 11 \in 0 .. 31 /\ 0 \in 0 .. 31 /\ 0 <= 11 /\ 11 < 32 /\ 12 = 11 + 1
      OBVIOUS
    <3>3. z = [k \in 1 .. 12 |-> Zero]
      BY DEF Zeroes
    <3> HIDE DEF x, z, t2
    <3>4. HasBits(z, x, 11, 0)
      BY <1>1, <3>1, <3>2, <3>3, ConstantHas
    <3> QED
      BY <2>5, <3>2, <3>4, Joined DEF z
  <2>7. \A b \in WordBits : x[b] = utype_immed[b]
    BY DEF x, WordBits
  <2> DEFINE all == t2 \o Zeroes(12)
  <2>8. 32 \in {31, 32} /\ HasBits(all, x, 32, 0)
    BY <2>6
  <2>9. Assigned(all) = ImmediateGenerator.IMM_U
    BY DEF ImmediateGenerator
  <2> HIDE DEF x, all
  <2> QED
    BY <2>2, <2>7, <2>8, <2>9, AssignedWord
<1>6. ujtype_immed = ImmediateGenerator.IMM_UJ
  <2>0. ASSUME NEW b \in WordBits
        PROVE  ujtype_bits[b] =
               IF b > 20 THEN Zero ELSE IF b = 20 THEN instr[31] ELSE IF b >= 12 THEN instr[b]
               ELSE IF b = 11 THEN instr[20] ELSE IF b >= 1 THEN instr[b + 20] ELSE Zero
    <3> DEFINE A == Left(Mask(RightLogical(instr, 31), Low(1)), 20)
               B == Left(Mask(RightLogical(instr, 12), Low(8)), 12)
               C == Left(Mask(RightLogical(instr, 20), Low(1)), 11)
               D == Left(Mask(RightLogical(instr, 21), Low(10)), 1)
    <3>1. Left(Mask(RightLogical(instr, 31), Low(1)), 20)[b] = FieldBit(b, 31, 1, 20)
      <4>1. 31 \in 0 .. 31 /\ 1 \in 1 .. 32 /\ 20 \in 0 .. 31 /\ 31 + 1 <= 32 /\ 20 + 1 <= 32
        OBVIOUS
      <4> QED
        BY <4>1, FieldMoved, ZenonT(60)
    <3>2. Left(Mask(RightLogical(instr, 12), Low(8)), 12)[b] = FieldBit(b, 12, 8, 12)
      <4>1. 12 \in 0 .. 31 /\ 8 \in 1 .. 32 /\ 12 \in 0 .. 31 /\ 12 + 8 <= 32 /\ 12 + 8 <= 32
        OBVIOUS
      <4> QED
        BY <4>1, FieldMoved, ZenonT(60)
    <3>3. Left(Mask(RightLogical(instr, 20), Low(1)), 11)[b] = FieldBit(b, 20, 1, 11)
      <4>1. 20 \in 0 .. 31 /\ 1 \in 1 .. 32 /\ 11 \in 0 .. 31 /\ 20 + 1 <= 32 /\ 11 + 1 <= 32
        OBVIOUS
      <4> QED
        BY <4>1, FieldMoved, ZenonT(60)
    <3>4. Left(Mask(RightLogical(instr, 21), Low(10)), 1)[b] = FieldBit(b, 21, 10, 1)
      <4>1. 21 \in 0 .. 31 /\ 10 \in 1 .. 32 /\ 1 \in 0 .. 31 /\ 21 + 10 <= 32 /\ 1 + 10 <= 32
        OBVIOUS
      <4> QED
        BY <4>1, FieldMoved, ZenonT(60)
    <3>5. ujtype_bits[b] = (A[b] \cup B[b]) \cup (C[b] \cup D[b])
      BY DEF ujtype_bits, Or
    <3> HIDE DEF A, B, C, D
    <3> QED
      BY <1>2, <3>1, <3>2, <3>3, <3>4, <3>5 DEF WordBits, FieldBit, A, B, C, D
  <2>1. ASSUME NEW b \in WordBits
        PROVE  ujtype_immed[b] =
               IF b >= 20 THEN instr[31] ELSE IF b >= 12 THEN instr[b]
               ELSE IF b = 11 THEN instr[20] ELSE IF b >= 1 THEN instr[b + 20] ELSE Zero
    <3>1. ujtype_immed[b] = ujtype_bits[IF b <= 20 THEN b ELSE 20]
      BY DEF ujtype_immed, RightArith, Left, WordBits
    <3> QED
      BY <2>0, <3>1 DEF WordBits
  <2>2. ujtype_immed = [b \in WordBits |-> ujtype_immed[b]]
    BY DEF ujtype_immed, RightArith
  <2> DEFINE x == ujtype_immed
             s == Copies(12, 31)
             t1 == s \o Slice(19, 12)
             t2 == t1 \o Slice(20, 20)
             t3 == t2 \o Slice(30, 25)
             t4 == t3 \o Slice(24, 21)
  <2>3. HasBits(s, x, 31, 20)
    <3>1. AllBits(x, 31, 20, instr[31])
      BY <2>1 DEF x, WordBits, AllBits
    <3>2. 31 \in 0 .. 32 /\ 20 \in 0 .. 31 /\ 12 \in Nat /\ 12 = 31 - 20 + 1
      OBVIOUS
    <3>3. s = [k \in 1 .. 12 |-> instr[31]]
      BY DEF Copies
    <3> HIDE DEF x, s
    <3> QED
      BY <1>1, <3>1, <3>2, <3>3, ConstantHas
  <2>4. HasBits(t1, x, 31, 12)
    <3>1. TakenFrom(x, 19, 12, 12)
      BY <2>1 DEF x, WordBits, TakenFrom
    <3>2. /\ 31 \in 0 .. 32 /\ 19 \in 0 .. 31 /\ 12 \in 0 .. 31 /\ 20 = 19 + 1 /\ 12 <= 19 /\ 19 < 31
          /\ 12 \in 0 .. 31 /\ 19 \in 0 .. 31 /\ 19 - 12 = 19 - 12
      OBVIOUS
    <3> HIDE DEF x, s
    <3> QED
      BY <2>3, <3>1, <3>2, SliceNext
  <2>5. HasBits(t2, x, 31, 11)
    <3>1. TakenFrom(x, 11, 11, 20)
      BY <2>1 DEF x, WordBits, TakenFrom
    <3>2. /\ 31 \in 0 .. 32 /\ 11 \in 0 .. 31 /\ 11 \in 0 .. 31 /\ 12 = 11 + 1 /\ 11 <= 11 /\ 11 < 31
          /\ 20 \in 0 .. 31 /\ 20 \in 0 .. 31 /\ 20 - 20 = 11 - 11
      OBVIOUS
    <3> HIDE DEF x, t1
    <3> QED
      BY <2>4, <3>1, <3>2, SliceNext
  <2>6. HasBits(t3, x, 31, 5)
    <3>1. TakenFrom(x, 10, 5, 25)
      BY <2>1 DEF x, WordBits, TakenFrom
    <3>2. /\ 31 \in 0 .. 32 /\ 10 \in 0 .. 31 /\ 5 \in 0 .. 31 /\ 11 = 10 + 1 /\ 5 <= 10 /\ 10 < 31
          /\ 25 \in 0 .. 31 /\ 30 \in 0 .. 31 /\ 30 - 25 = 10 - 5
      OBVIOUS
    <3> HIDE DEF x, t2
    <3> QED
      BY <2>5, <3>1, <3>2, SliceNext
  <2>7. HasBits(t4, x, 31, 1)
    <3>1. TakenFrom(x, 4, 1, 21)
      BY <2>1 DEF x, WordBits, TakenFrom
    <3>2. /\ 31 \in 0 .. 32 /\ 4 \in 0 .. 31 /\ 1 \in 0 .. 31 /\ 5 = 4 + 1 /\ 1 <= 4 /\ 4 < 31
          /\ 21 \in 0 .. 31 /\ 24 \in 0 .. 31 /\ 24 - 21 = 4 - 1
      OBVIOUS
    <3> HIDE DEF x, t3
    <3> QED
      BY <2>6, <3>1, <3>2, SliceNext
  <2>8. HasBits(t4 \o Zeroes(1), x, 31, 0)
    <3> DEFINE z == Zeroes(1)
    <3>1. AllBits(x, 0, 0, Zero)
      BY <2>1 DEF x, WordBits, AllBits
    <3>2. /\ 0 \in 0 .. 32 /\ 0 \in 0 .. 0 /\ 1 \in Nat /\ 1 = 0 - 0 + 1
          /\ 31 \in 0 .. 32 /\ 0 \in 0 .. 31 /\ 0 \in 0 .. 31 /\ 0 <= 0 /\ 0 < 31 /\ 1 = 0 + 1
      OBVIOUS
    <3>3. z = [k \in 1 .. 1 |-> Zero]
      BY DEF Zeroes
    <3> HIDE DEF x, z, t4
    <3>4. HasBits(z, x, 0, 0)
      BY <1>1, <3>1, <3>2, <3>3, ConstantHas
    <3> QED
      BY <2>7, <3>2, <3>4, Joined DEF z
  <2>9. \A b \in WordBits : x[b] = ujtype_immed[b]
    BY DEF x, WordBits
  <2> DEFINE all == t4 \o Zeroes(1)
  <2>10. 31 \in {31, 32} /\ HasBits(all, x, 31, 0)
    BY <2>8
  <2>11. Assigned(all) = ImmediateGenerator.IMM_UJ
    BY DEF ImmediateGenerator
  <2> HIDE DEF x, all
  <2> QED
    BY <2>2, <2>9, <2>10, <2>11, AssignedWord
<1>7. sbtype_offset = ImmediateGenerator.IMM_SB
  <2>1. ASSUME NEW b \in WordBits
        PROVE  sbtype_offset[b] =
               IF b >= 12 THEN instr[31] ELSE IF b = 11 THEN instr[7]
               ELSE IF b >= 5 THEN instr[b + 20] ELSE IF b >= 1 THEN instr[b + 7] ELSE Zero
    <3> DEFINE A == Left(RightArith(instr, 31), 12)
               B == Left(Mask(RightLogical(instr, 7), Low(1)), 11)
               C == Left(Mask(RightLogical(instr, 25), Low(6)), 5)
               D == Left(Mask(RightLogical(instr, 8), Low(4)), 1)
    <3>1. A[b] = IF b >= 12 THEN instr[31] ELSE Zero
      BY DEF Left, RightArith, WordBits
    <3>2. Left(Mask(RightLogical(instr, 7), Low(1)), 11)[b] = FieldBit(b, 7, 1, 11)
      <4>1. 7 \in 0 .. 31 /\ 1 \in 1 .. 32 /\ 11 \in 0 .. 31 /\ 7 + 1 <= 32 /\ 11 + 1 <= 32
        OBVIOUS
      <4> QED
        BY <4>1, FieldMoved, ZenonT(60)
    <3>3. Left(Mask(RightLogical(instr, 25), Low(6)), 5)[b] = FieldBit(b, 25, 6, 5)
      <4>1. 25 \in 0 .. 31 /\ 6 \in 1 .. 32 /\ 5 \in 0 .. 31 /\ 25 + 6 <= 32 /\ 5 + 6 <= 32
        OBVIOUS
      <4> QED
        BY <4>1, FieldMoved, ZenonT(60)
    <3>4. Left(Mask(RightLogical(instr, 8), Low(4)), 1)[b] = FieldBit(b, 8, 4, 1)
      <4>1. 8 \in 0 .. 31 /\ 4 \in 1 .. 32 /\ 1 \in 0 .. 31 /\ 8 + 4 <= 32 /\ 1 + 4 <= 32
        OBVIOUS
      <4> QED
        BY <4>1, FieldMoved, ZenonT(60)
    <3>5. sbtype_offset[b] = (A[b] \cup B[b]) \cup (C[b] \cup D[b])
      BY DEF sbtype_offset, Or
    <3> HIDE DEF A, B, C, D
    <3> QED
      BY <1>2, <3>1, <3>2, <3>3, <3>4, <3>5 DEF WordBits, FieldBit, B, C, D
  <2>2. sbtype_offset = [b \in WordBits |-> sbtype_offset[b]]
    BY DEF sbtype_offset, Or
  <2> DEFINE x == sbtype_offset
             s == Copies(20, 31)
             t1 == s \o Slice(7, 7)
             t2 == t1 \o Slice(30, 25)
             t3 == t2 \o Slice(11, 8)
  <2>3. HasBits(s, x, 31, 12)
    <3>1. AllBits(x, 31, 12, instr[31])
      BY <2>1 DEF x, WordBits, AllBits
    <3>2. 31 \in 0 .. 32 /\ 12 \in 0 .. 31 /\ 20 \in Nat /\ 20 = 31 - 12 + 1
      OBVIOUS
    <3>3. s = [k \in 1 .. 20 |-> instr[31]]
      BY DEF Copies
    <3> HIDE DEF x, s
    <3> QED
      BY <1>1, <3>1, <3>2, <3>3, ConstantHas
  <2>4. HasBits(t1, x, 31, 11)
    <3>1. TakenFrom(x, 11, 11, 7)
      BY <2>1 DEF x, WordBits, TakenFrom
    <3>2. /\ 31 \in 0 .. 32 /\ 11 \in 0 .. 31 /\ 11 \in 0 .. 31 /\ 12 = 11 + 1 /\ 11 <= 11 /\ 11 < 31
          /\ 7 \in 0 .. 31 /\ 7 \in 0 .. 31 /\ 7 - 7 = 11 - 11
      OBVIOUS
    <3> HIDE DEF x, s
    <3> QED
      BY <2>3, <3>1, <3>2, SliceNext
  <2>5. HasBits(t2, x, 31, 5)
    <3>1. TakenFrom(x, 10, 5, 25)
      BY <2>1 DEF x, WordBits, TakenFrom
    <3>2. /\ 31 \in 0 .. 32 /\ 10 \in 0 .. 31 /\ 5 \in 0 .. 31 /\ 11 = 10 + 1 /\ 5 <= 10 /\ 10 < 31
          /\ 25 \in 0 .. 31 /\ 30 \in 0 .. 31 /\ 30 - 25 = 10 - 5
      OBVIOUS
    <3> HIDE DEF x, t1
    <3> QED
      BY <2>4, <3>1, <3>2, SliceNext
  <2>6. HasBits(t3, x, 31, 1)
    <3>1. TakenFrom(x, 4, 1, 8)
      BY <2>1 DEF x, WordBits, TakenFrom
    <3>2. /\ 31 \in 0 .. 32 /\ 4 \in 0 .. 31 /\ 1 \in 0 .. 31 /\ 5 = 4 + 1 /\ 1 <= 4 /\ 4 < 31
          /\ 8 \in 0 .. 31 /\ 11 \in 0 .. 31 /\ 11 - 8 = 4 - 1
      OBVIOUS
    <3> HIDE DEF x, t2
    <3> QED
      BY <2>5, <3>1, <3>2, SliceNext
  <2>7. HasBits(t3 \o Zeroes(1), x, 31, 0)
    <3> DEFINE z == Zeroes(1)
    <3>1. AllBits(x, 0, 0, Zero)
      BY <2>1 DEF x, WordBits, AllBits
    <3>2. /\ 0 \in 0 .. 32 /\ 0 \in 0 .. 0 /\ 1 \in Nat /\ 1 = 0 - 0 + 1
          /\ 31 \in 0 .. 32 /\ 0 \in 0 .. 31 /\ 0 \in 0 .. 31 /\ 0 <= 0 /\ 0 < 31 /\ 1 = 0 + 1
      OBVIOUS
    <3>3. z = [k \in 1 .. 1 |-> Zero]
      BY DEF Zeroes
    <3> HIDE DEF x, z, t3
    <3>4. HasBits(z, x, 0, 0)
      BY <1>1, <3>1, <3>2, <3>3, ConstantHas
    <3> QED
      BY <2>6, <3>2, <3>4, Joined DEF z
  <2>8. \A b \in WordBits : x[b] = sbtype_offset[b]
    BY DEF x, WordBits
  <2> DEFINE all == t3 \o Zeroes(1)
  <2>9. 31 \in {31, 32} /\ HasBits(all, x, 31, 0)
    BY <2>7
  <2>10. Assigned(all) = ImmediateGenerator.IMM_SB
    BY DEF ImmediateGenerator
  <2> HIDE DEF x, all
  <2> QED
    BY <2>2, <2>8, <2>9, <2>10, AssignedWord
<1> QED
  BY <1>3, <1>4, <1>5, <1>6, <1>7 DEF ImmediatesAgree, imm_mode, sim_immediate

\* Wherever a session can get to, the simulator and the data path agree on every
\* instruction both define.
THEOREM SimulatorIsDatapath ==
    ASSUME FilesHoldBytes, Encodings \subseteq Instruction
    PROVE  Spec => []RtlAgrees
<1>1. TypeInv => RtlAgrees
  BY DatapathAgrees, SameImmediates DEF TypeInv, SegmentsBacked, RtlAgrees
<1> QED
  BY <1>1, TypeInvariant, PTL

=============================================================================
