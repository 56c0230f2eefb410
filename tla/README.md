# Verification of the riscv-metaflow-lightning core and its reference simulator

This directory is the formal companion of two programs. `src/rtl` is the out-of-order RISC-V
core: modelled are the parts whose correctness depends on what happens *in the same cycle* or
*in which order*. `src/tools/refsim` is the C simulator every trace of the core is compared
with: modelled are its processor, its memory and its command shell, and the values the core's
data path computes are compared with its own. TLC configurations check the models on small
instances, and TLAPS proves the results that matter for every size.

## 1. The system

The program is a RV32 core in SystemVerilog ("Metaflow" style): instructions are fetched
four at a time, renamed and parked in one circular buffer, the DRIS, issued out of order
from it, executed speculatively past unresolved branches, and retired in order.

| Part | Source (`src/rtl/...`) | State | Operations, and who it talks to |
|---|---|---|---|
| DRIS | `ooo/1DRIS_defs.sv`, `ooo/DRIS.sv` | one entry per instruction in flight: id, state bits, two lockers (operand tags), result | intake of a fetch group (renaming), writeback (two passes for memory instructions), dispatch, clear; every other unit reads it, four write it at the same edge |
| Branch shelf | `ooo/BranchShelf.sv` | one slot per control transfer in flight: status, id, predicted and correct pc | snoops writebacks, resolves the oldest known branch per cycle, reports the branch fence and the mispredict, computes the flush mask |
| State sequence controller | `ooo/SaneStateController.sv` | retire pointer | in-order scan from the head, register commits, release of the head store, traps |
| Integer scheduler | `ooo/Scheduler.sv` | none | picks the oldest ready entries, reads operands |
| Memory scheduler | `ooo/MemoryScheduler.sv` | none | picks the oldest admissible load, or the store the SSC retires, for the one D-cache port |
| Core wiring, execute ways | `ooo/LightningCore.sv`, `ooo/IntExecutionUnit.sv` | issue register | one register stage between issue and execute, load-data return |
| Instruction issue unit | `ooo/InstructionIssueUnit.sv` | fetch pointer, pc, F1/F2/D stages | predicts, probes the I-cache, forms groups, allocates, recovers from mispredicts and traps |
| Predictor | `ooo/BTBPredictor4.sv` | BTB ways | next pc; trained by resolved branches |
| Cache controller, array | `mem/cache_controller2.sv`, `mem/cache3.sv` | probe stage FSM, write-back and forward registers; lines, LRU | blocking one-request controller, with fills, forwards, evictions and cancels |
| Response FIFO | `mem/fifo.sv` | two entries | holds I-cache responses for D, flushed on a cancel |
| Memory interface | `mem/riscv_core_interface.sv` | none | fixed-priority arbiter of the two caches; responses matched by address |
| Memory, register file, harness | `tb/*.sv` | arrays | synchronous storage; passive checkers |
| In-order core | `core/riscv_core.sv`, `mem/riscv_core_interface_inorder.sv` | pipeline registers | the earlier core, still buildable |
| Reference processor | `tools/refsim/sim.c`, `shell/register_file.c` | pc, registers, halted, cycle | one instruction per call; records loads and stores in the memory trace |
| Reference memory | `tools/refsim/shell/memory.c` | five segments with their buffers | load, unload, word access, fault |
| Reference shell | `tools/refsim/shell/shell.c`, `commands.c` | modes, program path, SIGINT flag | reads lines, steps, runs, changes and dumps state, restarts and loads programs; Ctrl-C arrives at any time |

What is hard: nothing here is asynchronous, but at each clock edge intake, up to
`EXEC_UNITS + 1` writebacks, dispatch from two schedulers, retirement and a flush all
change the DRIS at once, each computed from the values registered *before* the edge. The
bugs the team recorded (`docs/memorable-bugs.md`) are all of that kind: an unlock lost
because the consumer was born in the cycle its producer completed, a load response landing
on a recycled slot, a retirement on the cycle a branch turned out wrong. What makes each
part correct:

* DRIS: each locker names the producer program order says, and is locked exactly until
  that producer has a result; results are written only by the instruction that owns the entry;
* shelf: it holds a slot for every branch without a verdict, and none for a branch that is gone;
* SSC: in order, behind the fence, never across a trap; a store leaves exactly once;
* schedulers: loads respect older stores; the store grant agrees with retirement;
* allocation and recovery: valid entries are exactly the window between the two pointers;
* fetch: each group is delivered once, in predicted order, and nothing of a cancelled path;
* caches: a read returns the last write, whatever is being filled, forwarded or evicted;
* simulator: it computes what the data path computes, its memory trace is what happened to its
  memory, a halted processor stays halted, a started program sees nothing of the one before,
  and an interrupt stops the run it was typed in and no other.

The simulator is sequential, so its hazards are long sequences of legal commands: a load that
fails half-way and then a restart, a step across a halt, a path that is cut again, an interrupt
between two statements of `go`.

## 2. Modules

```
DrisDefs ── Dris ── BranchShelf ── SaneStateController ── Schedulers ── LightningCore ── MCLightningCore
   └── DrisDefsProofs ────────────────────────────── LightningCoreProofs ──┘
                                                       └── LightningDataflowProofs ─┬─ LightningRenamingProofs
                                                                                    └─ LightningShelfProofs
CacheController ─┬─ FetchPipe (with Fifo)         implements FetchStream ── FetchPipeProofs
                 └─ DataCache (with Cache3, Fifo) implements DataPort ─┬─ MCDataCache
                                                                       └─ DataCacheProofs
RiscvWord ── RefMemory ── RefSim ─┬─ Datapath ── RefShell ─┬─ MCRefShell
             RefImmediates ───────┘                        └─ RefShellProofs
```

One step of every state machine is one clock edge: each module gives, for its registers,
the value after the edge as a function of the registered values and of the signals of the
cycle, and the composing module conjoins them. That is what the RTL does, and it is where
its hazards are, so nothing is split into smaller steps. In the simulator one step is one
command handler, or one turn of the loop of `step` or `go`: between two of them a signal may
arrive, and nowhere else does one matter.

| Module | Models | State and actions |
|---|---|---|
| `DrisDefs` | ids (index and lap colour), `is_older`, `slot_id`, operation classes | none: operators |
| `Dris` | `DRIS.sv`, `dependency_in_dris` | `dris`; `DrisNext` is `DRIS_ff`: intake, address pass, completion, trap, dispatch, unlock broadcast, clear, in its order of assignment |
| `BranchShelf` | `BranchShelf.sv` | `shelf`; `ShelfNext`: snoop, resolve, transfer, flush, retirement of OK slots, wipe; the fence and the mispredict report are operators |
| `SaneStateController` | `SaneStateController.sv` | `retire_ptr`; `retire_ready`, `retire_vector`, `trap_valid` |
| `Schedulers` | `Scheduler.sv`, `MemoryScheduler.sv` | none: what is selected, dispatched and issued |
| `LightningCore` | `LightningCore.sv`, `IntExecutionUnit.sv`, the allocation pointer of `InstructionIssueUnit.sv` | `fetch_ptr`, `issue_reg`, `probe`, `rsp`; `Advance` (no redirect), `Repair` (mispredict), `Trap`, each with or without the D-cache finishing |
| `FetchStream` | what fetch promises | the next pc of the stream, what is issued, and the pc a redirect names; `Deliver`, `Idle`, `Redirect` |
| `FetchPipe` | pc, F1, F2, D, stall table, validity chain; read port of `BTBPredictor4.sv`; instruction side of the interface | `Advance`, `Repair`, `Trap` |
| `Fifo`, `CacheController` | `fifo.sv`, `cache_controller2.sv` | operators over registers their users declare |
| `Cache3` | `cache3.sv` | the array, the request in flight, replacement: operators |
| `DataPort` | what the data side promises the core | `Accept`, `Answer`, `Finish`, `Wait` |
| `DataCache` | data side of `riscv_core_interface.sv`, main memory, the delay line | `Idle`, `Load`, `Store` |
| `RiscvWord` | 32-bit arithmetic of both programs, bytes as lanes of a word | none: operators |
| `RefMemory` | `shell/memory.c`, `memory_segments.h` | none: what loading, unloading, reading and writing do to the segments |
| `RefSim` | `sim.c`, `register_file.c` | none: `process_instruction` from a processor to a processor and a line of the memory trace |
| `RefImmediates` | the immediates of `sim.c` and of `ImmediateGenerator` (`core/lib.sv`) | none: each bit of a word is the set of instruction bits it is taken from |
| `Datapath` | `riscv_decode.sv`, `riscv_alu`, operand multiplexers, next pc, load and store lanes, the commit seam | none: what one instruction computes, and `Agrees`, the comparison with `RefSim` |
| `RefShell` | `shell.c`, `commands.c`, number parsing of `libc_extensions.c` | `cpu`, `program`, `modes`, `ctl`, `line`, `left`, `sigint`, `dump`; one action per command, `StepLoop`, `GoLoop`, `GoReset`, `sigint_handler`, `ReadLine`, `EndOfFile` |
| `DrisDefsProofs`, `LightningCoreProofs`, `LightningDataflowProofs`, `LightningRenamingProofs`, `LightningShelfProofs` | | theorems about the core: ids; window, retirement, traps; results, loads; lockers; the shelf |
| `FetchPipeProofs`, `DataCacheProofs`, `RefShellProofs` | | theorems about fetch, the data side, the simulator |
| `MCLightningCore`, `MCDataCache`, `MCRefShell` | | constants of the instances |

What is abstracted:

* An instruction is its operation class, destination and two sources. Its result is the bit
  `own`: did the instruction that occupies the entry produce it? `live` on a packet in flight
  says whether its instruction is still there. Both are history: no guard reads them.
* An effective address is a member of `Accesses`, chosen when the address pass writes back; a
  branch's verdict is chosen when it writes back.
* A word in the data cache is the bit *is this copy what the program last stored here?*
* In the simulator a word is a number below `Lane^4` and an instruction a record of its fields:
  `Decode` gives the fields of a word, so a program can be changed as data and then run. Bit
  operators, `strtol`, the files and the names of registers are constants of `RefShell`. A path is the
  sequence of its parts between dots. What `malloc` leaves in the stack is any of `StackContents`;
  what a freed path reads as is any of `StalePaths`. Using a null pointer ends the simulator.
* `caught` (an interrupt was typed in the loop of this `go`) and `replayed` (memory as a reader of
  the memory trace rebuilds it, told of changes typed at the prompt) are history. So is `redirected` in
  `FetchPipe`, the pc a flush of the last cycle asked for: it lets the refinement say where the stream
  must go on, and nothing else reads it.
* Targets, predictions and hits are choices of the environment: every prediction table and
  every cache content is covered. A fetched instruction is its address.

`probe` and `rsp` of `LightningCore` are `DataPort` seen from the core: one request, any
number of cycles, one answer, in the cycle after. `DataCache` is proved to keep that promise.

Assumptions between the models, and what discharges them:

| A model assumes | Where | Discharged by |
|---|---|---|
| Room in the DRIS and on the shelf is only lost to an intake | `FetchPipe!RoomIsKept` | `RoomLostByIntake`, run CoreDataflow, theorem `RoomKept` |
| The bus comes free again and again | `FetchPipe!Fairness` | `LeavesBus`, run DataCachePort |
| One request at a time, answered once, the cycle after | `LightningCore!Clock` | `ActsAsPort`, `Answers`, run DataCachePort; `ActsAsPort` is theorem `PortRefined` |
| A trap, once raised, stays | `FetchPipe!Signals` | `TrapIsFinal`, theorem `TrapFinal` |
| Fetch hands over nothing while stalled or flushing | `LightningCore!FetchGroups` | `issue_fire` of `FetchPipe` is gated by the same signals |

## 3. What the runs check

| Run | Instance | Question |
|---|---|---|
| CoreDataflow | 4 entries, 2 wide, 3 shelf slots; producers, a dependent one, a branch that waits and one that does not, a system call | Renaming, wakeup, recovery, what a flush may not lose, traps that may be on a wrong path, the inductive invariant of the proofs |
| CoreMemory | 4 entries, 2 wide; load, store behind a load, early store, system call | Load/store order, the store grant, that a trap stops stores |
| CoreLiveness | 2 entries, 1 wide; load, store, branch that wait for each other | The head always retires; late returns only ever hit loads |
| FetchStreamOrder | 4 words, blocks and groups of 2, 2 targets | The stream is unbroken, and only a flush moves it, to the pc it asks for; positions and responses stay together; the FIFO never overflows; no group is lost |
| DataCacheMemory | 1 set, 2 ways, 3 blocks of 2 words, LRU | No store lost, every load current |
| DataCachePort | 1 set, 1 way, 2 blocks of 2 words, delay 4, one block also fetched | The port's promise, liveness of the port and of the bus |
| RefShell | 8-bit words of four 2-bit lanes, 5 registers, 3 lines of any command, 8 programs or broken ones | Simulator and data path agree; its trace, its halt, its interrupts and its restarts are right |
| StaleLoad, WordAddress, HalfBlockFetch, StaleFill, RestartSame | smallest that show it | disagreements of the code with its documents, below |

Why the bounds are enough to be interesting. Four entries with two fetched, issued and
retired per cycle let the window wrap in index and in colour, put producer and consumer in
one group, in one cycle, and across a retirement, and let two branches be unresolved with
instructions between and behind them. The branch of CoreDataflow that waits for nothing resolves ahead of
a chain of two producers, so that its flush finds an older instruction entering the issue register;
CoreLiveness, with two entries and one issued per cycle, cannot hold one there, which is why the packet
lost in a flush is `Underway`'s to catch and not `Retires`'. CoreMemory has no branch: a trap on a wrong
path is `TrapIsFinal`'s in CoreDataflow, a trap with stores behind it the same property's in CoreMemory.
Two entries are the least that recycle a slot while the cache holds its old request. Four words with blocks of two have aligned and unaligned
groups, a wrap of the address space, and targets that equal the next pc. Three blocks in a
two-way set make both ways dirty and evict either; two-word blocks make the write-back and
the merge of partial lines visible; a delay of four is the longest for which a response
cannot outlive a write-back (`BLOCK_SIZE + 2`). No counter of the core had to be capped: ids
and addresses wrap in the code, the instances stop nowhere, and deadlock is checked.

`RefShell` has two bounds: `MaxCommands`, three lines (a failed load, a command on what it left,
and another load; or a mode, a run and a look), with any number of interrupts; and `MaxCycle`, where
the cycle counter stays (it is printed and reset, never tested). Four lanes of two bits keep every
alignment, both signs, every lane of a mask and the wrap of an address; five registers are zero,
`ra`, `sp`, `gp` and `a0`. The programs loop over a store and a load that straddle lanes, halt by
`ecall`, and store past a word and then where they may not; three others have a data file that is
too large, a text that is not whole words, and a file that cannot be read. `RtlAgrees` is evaluated
in each state of a run for 148 instructions, every one of RV32I but FENCE and EBREAK, with
every alignment. Deadlock is not checked in RefShell and RestartSame: the simulator exits.

The properties, by the question a reviewer would ask:

* *Can an unlock be lost or come early?* `LockersExact` compares each locker with the producer
  program order gives, in every reachable state.
* *Whose result is this?* `OwnResults`, `OwnExecResults`. The first fails once loads are
  flushed (StaleLoad); the second holds for every entry that is not a load.
* *Is anything lost on its way?* `Underway`: the issue register is not cleared on a flush
  (`LightningCore.sv:22-24`), because an older instruction may be in it.
* *Is the window right after a flush?* `ValidWindow`, `InFlight`, `ShelfMatchesDris`.
* *Is anything of a wrong path committed?* `RetireRightPathOnly`, `StoreAtRetire`, `TrapIsFinal`.
* *Do loads see older stores?* `LoadAfterStore` for accesses of one size; `SameWordWaits` is the
  same about words, and fails for mixed sizes (WordAddress).
* *Does fetch repeat, skip or mislabel a group, or go on at the wrong pc?* `FollowsStream` (refinement of
  `FetchStream`): a cycle hands over what comes next, or nothing and the stream stays, or it is a flush
  and the stream goes to the trap's pc, or else the branch's, stalled or not. `FetchPosition`,
  `NoOverflow`, `Delivers`.
* *Does the cache lose a store?* `NeverLost`, `CleanMatches`, `LoadsCurrent`. `SnapshotFresh`,
  `InStep` and `OneVictim` say why not: the copied set is never old, the two FSMs never
  drift apart, and a full LRU set has exactly one victim.
* *Is the reference right?* `RtlAgrees`: in any state a program reaches, any instruction both
  define writes the same register, goes to the same pc, leaves the same word in memory, and
  reports the same trace line; `ImmediatesAgree` in it compares the immediates bit by bit.
  Encodings outside RV32I, on which the two differ (the simulator ignores `funct7` of some
  operations, the decoder that of SLLI and of stores), and unaligned accesses, which one halts
  on and the other does not see, are excluded in `Comparable`.
* *Can the memory trace be trusted?* `MemtraceReplays`: a reader who applies its stores has the
  memory of the simulator, refused accesses and odd halfwords included.
* *What survives a load?* `RestartFresh` (nothing), `SegmentsBacked` (no size without a buffer),
  and `TypeOK` (no write leaves its segment). `restart` after `load` reads a path in freed memory
  (`commands.c:690`): the model reads any of `StalePaths` there, and `RestartFresh` says the program is
  that of the path that was read. Which program the user gets is then anyone's guess, so no property says.
* *Who stops a run?* `HaltIsFinal`, `GoStopsForReason`, `CommandReturns`.

Every property is backed by a mutant in `PROJECT.json`: an operator, commented *Fault:*, that
stands for a plausible bug in the definition it replaces, and that breaks the property.

### Fairness

* `LightningCore!Fairness`: the clock ticks (`WF(Next)`), and a request the D-cache holds is
  finished in the end (`WF(Tick(TRUE))`): the memory's delay is a constant and `Answers` shows
  that the cache does not hang.
* `FetchPipe!Fairness`: a cycle with room, with a grant, with an answer comes again if it stays
  possible. Room returns because the head retires (`Retires`), grants because of
  `LeavesBus`, answers because the delay line is a shift register. A trap stops
  fetching for good, and the fairness does not speak about it.
  The three conditions are weak fairness with ENABLED written out: a cycle with room can
  always be taken, and a grant or an answer as long as the controller waits for one.
* `DataCache!FairSpec`: the clock ticks, nothing more; the core may stay idle for ever.
* `RefShell!FairSpec`: the simulator's thread goes on unless it waits for the user or has exited
  (the operating system schedules it). The user need type nothing, and may press Ctrl-C for ever.

### Disagreements found

* **StaleLoad** (`DRIS.sv:290`). `wb_accepted` takes a load return for any dispatched load in
  the slot. A load is flushed while the cache holds it, the slot goes to another load under
  the same colour, that one is sent too, and it is given the first one's data. The comment at
  `LightningCore.sv:24-26` rules this out; the one at `DRIS.sv:273-279` concedes it.
* **WordAddress** (`MemoryScheduler.sv:192`). Older stores are compared by full byte address, so a
  byte load inside a word that is still to be stored is sent ahead of the store.
  `docs/todo.md:15-16` calls the comparison one of words.
* **HalfBlockFetch** (`BTBPredictor4.sv:228`). With a fetch group smaller than a cache block, which the
  sweep script builds, an unaligned group hands over slots beyond its row and the next group
  issues them again. The default build is not affected.
* **StaleFill** (`cache_controller2.sv:174`). Answers of memory are matched by address. If the
  instruction side asks for a block (a wrong-path jump into data) and the data side then
  writes its dirty copy back and misses on it again, the older answer is taken and the
  stored words are lost. It takes a delay of at least `BLOCK_SIZE + 3`; the default is 8 with
  blocks of 4. One clock less and the run passes (DataCachePort).
* **RestartSame** (`commands.c:676`). The path of the program is cut at its last dot in place each time it
  is started, so `a.b.S` is loaded as `a.b`, and `restart` looks for `a` and exits. `commands.c:696` promises
  the program that is loaded.

One more has no run, being about one string: the comment at `libc_extensions.c:115-116` has `parse_int32`
read decimal or hexadecimal numbers, but base 0 comes last, so `010` is read in octal, as 8. The model
reads it as the code does.

## 4. What is proved

Every safety invariant and every action property of the runs, and both refinements, are theorems
about every value of the constants; liveness is not. The core is proved for every number of
entries, shelf slots, ways, units and registers and every instruction mix; fetch for every block
size, address space and predictor; the data side for every number of sets, ways and words, each
replacement policy and delay; the simulator for every byte width, memory layout, file system,
program, instruction decoding and sequence of lines and interrupts.

| Theorem | States | Needs, besides the assumptions of the modules |
|---|---|---|
| `DrisDefsProofs`: `OlderInWindow`, `SlotIdAdd` | ids within a window are ordered as positions; counting ids is additive | |
| `LightningCoreProofs`: `TypeCorrect`, `InFlightInvariant`, `WindowCorrect` | `[]TypeOK`, `[]InFlight`, `[]ValidWindow` | |
| `RightPath`, `TrapFinal`, `StoreCorrect` | `RetireRightPathOnly`, `TrapIsFinal`, `[]StoreAtRetire` | |
| `LightningDataflowProofs`: `IssuedInvariant`, `OwnExecCorrect` | `[]IssuedMatch`, `[]OwnExecResults` | |
| `HeldInvariant`, `UnderwayCorrect` | `[]LoadsHeld`, `[]Underway` | |
| `AddressInvariant`, `LoadsChecked` | `[]AddressesKnown`, `[](ShelfWiped \/ LoadChecked)` | |
| `LoadsOrdered` | `[]LoadAfterStore` | accesses that overlap have one address |
| `LightningRenamingProofs`: `FetchedInvariant`, `RenamingInvariant`, `LockersCorrect` | `[]EntriesFetched`, `[](ShelfWiped \/ LockersRight)`, `[]LockersExact` | |
| `OwnCorrect` | `[]OwnResults` | no loads |
| `LightningShelfProofs`: `BranchesShelved`, `ShelfCorrect`, `RoomKept` | `[](ShelfWiped \/ Unresolved)`, `[]ShelfMatchesDris`, `RoomLostByIntake` | |
| `FetchPipeProofs`: `TypeCorrect`, `PositionInvariant`, `PositionCorrect`, `ResponsesFit`, `PathInvariant` | `[]TypeOK`, `[]InPosition`, `[]FetchPosition`, `[]NoOverflow`, `[]OnPath` | |
| `StreamFollowed` | `FollowsStream`: `FetchPipe` implements `FetchStream` | `FETCH_WORDS = BLOCK_SIZE` |
| `DataCacheProofs`: `StructureInvariant`, `TypeCorrect`, `SnapshotCorrect`, `InStepAlways`, `VictimAlways` | `[]Structure`, `[]TypeOK`, `[]SnapshotFresh`, `[]InStep`, `[]OneVictim` | |
| `ContentsInvariant`, `NothingLost`, `CleanDroppable`, `LoadsCorrect`, `FillAnswers` | `[]Contents`, `[]NeverLost`, `[]CleanMatches`, `[]LoadsCurrent`, `[]FillIsAnswer` | `Sheltered` |
| `PortRefined` | `ActsAsPort`: `DataCache` implements `DataPort` | |
| `RefShellProofs`: `InterruptIsFresh`, `Backing`, `HaltedStays` | `[]GoStopsForReason`, `[]SegmentsBacked` (with the shape), `HaltIsFinal` | |
| `TypeInvariant`, `TypeCorrect`, `TraceReplays` | `[]TypeInv`, `[]TypeOK`, `[]MemtraceReplays` | `FilesHoldBytes` |
| `RestartIsFresh` | `RestartFresh` | `PathsHaveParts` |
| `StoreReplays`, `DatapathAgrees` | one store and its trace line; one instruction in the simulator and in the data path | |
| `SimulatorIsDatapath` | `[]RtlAgrees` | `FilesHoldBytes`, `Encodings \subseteq Instruction` |

### The hypotheses

Three mark where the code stops being right, and a run shows each of them needed:

* `LoadsOrdered`: two accesses that share a byte have one address, as aligned words do. Run WordAddress
  has a byte and its word.
* `StreamFollowed`: a fetch group is a cache block, the default build. Run HalfBlockFetch has half of one.
* `Sheltered`: no code is fetched on the bus, or `DELAY <= BLOCK_SIZE + 2`. The default build, with a
  delay of 8 and blocks of 4, is outside it as soon as code and data share a block; run StaleFill
  is the first delay that is. For the default build the theorems say that the data side alone,
  with the instruction side elsewhere, loses nothing.

`OwnCorrect` is of the same kind (StaleLoad shows a load with the data of another). The others type
the environment: files hold bytes and are shorter than a word can count (their size is kept in a
`uint32_t`), a path has a part, the instructions compared are instructions.

Some assumptions of the modules exist because of a proof, and each is the code's: a store has `X0` as its
destination (decode masks `rd` with `rfWrite`, `InstructionIssueUnit.sv:469`), without which a store
could be a producer that never unlocks; the bases of the segments are multiples of four
(`memory_segments.h:38-48`), without which a word would straddle two; `sp` and `gp` are different
registers. Bit operators keep words within words (`BitwiseAssumption`, `ShifterAssumption`).

### The core

`ValidWindow` alone is not inductive: a mispredict repairs the pointer to the slot behind a *shelf*
entry, so the window survives only if that entry stands for a branch inside the window. `InFlight`
adds that (`ShelfInWindow`), and what makes it inductive: entries sit where their ids say and only
system calls trap (`TrapsMatch`), and a trap, which wipes the shelf under live entries, is the only
way out of the window invariant (`ShelfWiped`). `Clock` is common to the three actions. `CoreEdge`
says what an edge that is not a trap does to window and shelf: `n` entries retire, a suffix is
flushed, a group is taken in. `AdvanceEdge` and `RepairEdge` show that both actions are such edges;
`EdgeWindow`, `ShelfShift`, `BranchStays` and `CoreEdgeKeeps` are about the edge alone, and so are the later
modules. `RightPath` is the scan: an eligible entry is not behind the fence, and the fence is
the oldest unresolved or wrong branch. `TrapFinal` needs that the trapping head is not flushed in
the same cycle, and does not retire. The arithmetic of ids modulo two laps stays in `DrisDefsProofs`.

* *Results.* `IssuedMatch`: what an execute way holds is the doing of the instruction that still waits in
  its entry. It is inductive because a flush clears the packet with the entry; D-cache packets escape
  that, so loads are left out of `OwnExecResults`.
* *On the way.* `Underway` follows each instruction that was sent from the issue register to the D-cache and
  back. `LoadsHeld` is needed at the D-cache: what comes back live is a load whose entry still has its address and
  waits, so it is accepted and the entry has its result; a store leaves its entry as it goes out.
* *Loads.* A load is compared when it is sent, but `LoadAfterStore` is about all that time after. `LoadChecked`
  bridges it: no store that is older can appear later (what is born is younger, `NewbornYounger`),
  none changes its address, and those that had none held the load back.
* *Renaming.* `LockersRight` states the locker of each operand in positions of the window instead of ids:
  the last older writer, locked or not by its result, free if none is left. One edge keeps it for
  entries that stay (`KeptOperand`: unlock broadcasts against completion, cleanup against
  retirement), establishes it for those taken in (`BornOperand`: producers in the DRIS, in the
  same group, and completing in that very clock), and then everything moves down by `n`
  (`ShiftLockers`). `LockersExact` follows by the definition of the last writer.
* *Shelf.* `Unresolved`: a branch without a verdict has a slot still waiting for its target. A transfer hands
  each new branch a slot of its own (`TransferCount`, `TakesSlot`: as many free slots as branches, taken in
  order, by counting). `RoomKept` is a count as well: without an intake a cycle only frees slots and
  entries (`FreeKept`).

### Fetch

`InPosition` determines, from the groups that F1, F2 and D hold, what the controller waits for
(`Awaited`), whether a request can be outstanding with none of them (`Drained`), where a response sits in the FIFO
(`Arrived`, `Headed`), and that a trap leaves F1 empty. The property checked, `FetchPosition`, speaks only
of the head; without the others a stall that ends as an answer comes would break it. Its proof
splits an edge in flush, held and moving. `NoOverflow` follows: a response can come only while the controller waits, and
then at most one is stored. `OnPath` says each stage starts where the one in front
is predicted to go on, so that in the refinement `StreamPc` (where the group next to be handed over starts) moves
by the prediction of the group handed over (`HandOver`) and stays when none is. A flush empties the three
stages and loads the pc even when fetch is stalled, so `StreamPc` is then the pc recorded in `redirected`.

### The data side

`Structure` ties the two machines: controller state to request in flight, the copied set to the
array, a fill to a block that is nowhere and a store to one that is there, ages that are a
permutation in a full LRU set (hence `OneVictim`). `Contents` says where the current copy of a word is: in the way
that has the block, in the victim on its way out (then no way has the block, `VictimGone`), or in
memory; what a store in flight and a load still owed carry is current (`WordsHeld`). The hard part
is the bus. Answers are matched by address, so an older answer for the same block could end a wait. `Aged`
measures how far such an outdated answer must have come: it left memory before the write-back of
its block was over, so it is at least `Bound` stages along the delay line. A wait begins at
`BLOCK_SIZE + 3`, past the end of a line of at most `BLOCK_SIZE + 2`; with one stage more it is not,
which is the counterexample of run StaleFill. Without an instruction side `Alone` says that the
only answer on the line is the one waited for, whatever the delay.

`PortRefined` maps the port to `Pending`, `Probing` and the response FIFO, and needs only `Structure`.

### The simulator

`InterruptIsFresh` needs that in the loop, and after it, a raised flag is a caught one
(`Interrupted`): `go` resets the flag as it enters. `Backing` splits on who changes the memory: a word
write keeps every length (`RunKeeps`), and a load leaves the processor halted or each segment built
by one of the three successful ends of `load_mem_segment` (`LoadKeeps`); it starts from segments that were
unloaded, which is why both commands unload first. `TypeInv` puts types on that shape, so that
no write of any opcode or command leaves its segment. `TraceReplays` is `StoreReplays` at each
instruction (which rests on `LaneRoundTrip`, a word put together from four lanes has these lanes,
nonlinear in the width of a byte) and a fresh copy wherever the trace is not told.
`RestartIsFresh` shows that the loader reads none of the old fields (`LoadFresh`).

`DatapathAgrees` splits on the opcode. For each the signals of the decoder are worked out once
(`DecodedSignals`); arithmetic is compared operator by operator, signed comparisons and the
arithmetic shift included; loads and stores compare the lane arithmetic of the simulator, shifts and
masks of a word, with the byte enables of the core, for each size and offset. The immediates are
cut into runs of bits (`HasBits`), each either a field of the instruction, the sign, or zeros, and both
sides are shown to be put together from the same runs. In `Comparable` are the exclusions of section 3.

### What is only model-checked

Liveness (`Retires`, `Delivers`, `Answers`, `LeavesBus`, `CommandReturns`), which needs fairness and ENABLED,
beyond the prover. `OwnResults` with loads is false (StaleLoad); what remains true of it is proved.
Nothing recursive is proved about: the models in these modules are written with sets and functions, and where
a proof needs the first or the last of something, `WFMin` on the naturals gives it (`GreatestPosition`,
`LeastNatural`).

## 5. Not modelled

Listed with reasons in `PROJECT.json`: predictor training (predictions are arbitrary, which covers
it for safety), the register file of the core, cache set flush (tied to zero), memory exceptions,
performance counters and passive checkers, the in-order core, the superseded units, scripts and
tests. The two caches are not composed: each sees the other as an arbitrary user of the bus.
A trap that is not a system call leaves the core hanging, as its comments say; no property is about it.

Of the simulator: what is printed and how (dumps, help, messages, columns), the readline history,
the lines of the register and state traces (the memory trace is modelled), `malloc` running out,
the overflow of the `int` cycle counter, the directory part of a path, and the extraction of
opcode and register fields from an instruction. The dump commands are modelled as far as
which file is left empty or written and whether they use a null buffer.

## 6. Plan

What is left, by weight:

1. An abstract specification of the whole core, the program retired in order along the path that
   the branches turn out to take, and `LightningCore` shown to implement it. `RetireRightPathOnly`,
   `ValidWindow` and `FollowsStream` are the parts it would be put together from.
2. Composition of both caches on one bus with the real arbiter, in place of the arbitrary user.
3. Predictor training (`BTBPredictor4.sv` write port), with the shelf as its writer.
4. The extraction of opcode, function code and register fields, bit by bit, as the immediates have it.
