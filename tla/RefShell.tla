------------------------------ MODULE RefShell ------------------------------
(***************************************************************************)
(* shell/shell.c and shell/commands.c: the command loop of the reference   *)
(* simulator around the processor of RefSim.  The user types lines and     *)
(* Ctrl-C; the simulator runs one handler at a time, and the loops of step *)
(* and go one instruction at a time.                                       *)
(***************************************************************************)
EXTENDS Datapath, SequencesExt

CONSTANTS
    Lines,              \* what the user may type: [command, args]
    FirstProgram,       \* the path given on the command line
    StalePaths(_),      \* what a freed path may read as
    Strtol(_, _),       \* strtol of a token in a base: [ok, val]
    PathOf(_),          \* a token as a path
    NamedRegister(_),   \* RISCV_REGISTER_NAMES: the registers a token names
    Encodings,          \* the instructions RtlAgrees is about
    MaxCommands         \* bound: how many lines the user types

ASSUME CommandAssumption == MaxCommands \in Nat

VARIABLES
    cpu,        \* cpu_state: halted, cycle, pc, registers, segments
    program,    \* cpu_state->program: its text, and whether it is still allocated
    modes,      \* verbose mode and the trace modes that are on
    ctl,        \* where the simulator thread is
    line,       \* the line being processed
    left,       \* cycles the step command has left
    sigint,     \* SIGINT_RECEIVED
    dump,       \* the file the last dump command named: "none", "empty", "written"
    commands,   \* how many lines were typed
    caught,     \* history: Ctrl-C was typed while the loop of this go ran
    replayed    \* history: memory as a reader of the memory trace rebuilds it

vars == <<cpu, program, modes, ctl, line, left, sigint, dump, commands, caught, replayed>>

NoLine == [command |-> "", args |-> << >>]

Modes == {"verbose", "trace", "statetrace", "memtrace"}

COMMAND_MAX_ARGS == 4

NotTraced == << >>

-----------------------------------------------------------------------------
(* libc_extensions.c: reading numbers. *)

INT_MIN == -(Modulus \div 2)

INT_MAX == Modulus \div 2 - 1

UINT32_MAX == Modulus - 1

parse_int(token) ==
    LET parsed == Strtol(token, 10) IN
    [ok |-> parsed.ok /\ parsed.val \in INT_MIN .. INT_MAX, val |-> parsed.val]

parse_uint32_hex(token) ==
    LET parsed == Strtol(token, 16) IN
    [ok |-> parsed.ok /\ parsed.val \in Word, val |-> parsed.val]

\* A token that reads as a decimal number is read again in base 0 all the same.
parse_int32(token) ==
    LET decimal == Strtol(token, 10)
        any     == Strtol(token, 0)
    IN  [ok  |-> /\ decimal.ok => decimal.val \in INT_MIN .. INT_MAX
                 /\ any.ok
                 /\ any.val \in -UINT32_MAX .. UINT32_MAX,
         val |-> any.val % Modulus]

-----------------------------------------------------------------------------
(* Loading programs.  A path is the sequence of its parts between dots. *)

\* Cut at the last dot of the path, in place.
StripExtension(path) == IF Len(path) > 1 THEN Front(path) ELSE path

StartRegisters ==
    [r \in Registers |-> CASE r = REG_SP -> STACK_END [] r = REG_GP -> USER_DATA_START [] OTHER -> 0]

\* Fault: the registers are not cleared.
InitKeepsRegisters(state, path, stack) ==
    LET loaded == mem_load_program(state.segments, StripExtension(path), stack) IN
    [state EXCEPT !.halted = ~loaded.ok, !.cycle = 0, !.pc = USER_TEXT_START,
                  !.registers[REG_SP] = STACK_END, !.registers[REG_GP] = USER_DATA_START,
                  !.segments = loaded.segments]

\* The processor is halted exactly when the program could not be loaded.
init_cpu_state(state, path, stack) ==
    LET loaded == mem_load_program(state.segments, StripExtension(path), stack) IN
    [state EXCEPT !.halted = ~loaded.ok, !.cycle = 0, !.pc = USER_TEXT_START,
                  !.registers = StartRegisters, !.segments = loaded.segments]

\* cpu_state as main zeroes it.
ZeroCpu == [halted |-> FALSE, cycle |-> 0, pc |-> 0,
            registers |-> [r \in Registers |-> 0], segments |-> NothingLoaded]

\* A program started in a fresh simulator.
FreshlyLoaded(path, stack) == init_cpu_state(ZeroCpu, path, stack)

-----------------------------------------------------------------------------

\* The simulator is up: the first program has loaded.
Init ==
    /\ \E stack \in StackContents : cpu = FreshlyLoaded(FirstProgram, stack)
    /\ ~cpu.halted
    /\ program = [path |-> StripExtension(FirstProgram), allocated |-> TRUE]
    /\ modes = {}
    /\ ctl = "prompt"
    /\ line = NoLine
    /\ left = 0
    /\ sigint = FALSE
    /\ dump = "none"
    /\ commands = 0
    /\ caught = FALSE
    /\ replayed = NotTraced

\* The reader of the memory trace is told of what the trace does not show: the
\* memory when the file was opened, and when the user changed or reloaded it.
Resync(new_modes, segments) ==
    replayed' = IF "memtrace" \in new_modes THEN segments ELSE NotTraced

\* A handler that only prints, or complains.
Unchanged == UNCHANGED <<cpu, program, modes, left, dump, replayed>>

\* Back to the prompt; free(line) leaves a program named in the line dangling.
Return == ctl' = "prompt" /\ line' = NoLine

\* A null pointer is used: the simulator is gone.
Crash == ctl' = "exited" /\ UNCHANGED line /\ Unchanged

Entered(names) == ctl = "command" /\ line.command \in names

\* split_command: words beyond the fourth argument are dropped.
split_command(words) ==
    [words EXCEPT !.args = SubSeq(@, 1, IF Len(@) < COMMAND_MAX_ARGS THEN Len(@) ELSE COMMAND_MAX_ARGS)]

\* readline returns a line.
ReadLine ==
    /\ ctl = "prompt"
    /\ commands < MaxCommands
    /\ \E words \in Lines : line' = split_command(words)
    /\ ctl' = "command"
    /\ commands' = commands + 1
    /\ caught' = FALSE
    /\ UNCHANGED <<cpu, program, modes, left, sigint, dump, replayed>>

\* End of file at the prompt.
EndOfFile ==
    /\ ctl = "prompt"
    /\ ctl' = "exited"
    /\ UNCHANGED <<cpu, program, modes, line, left, sigint, dump, commands, caught, replayed>>

\* sigint_handler, at any time while the simulator runs.
sigint_handler ==
    /\ ctl # "exited"
    /\ sigint' = TRUE
    /\ caught' = (caught \/ ctl = "go")
    /\ UNCHANGED <<cpu, program, modes, ctl, line, left, dump, commands, replayed>>

StepCycles(args) == IF args = << >> THEN 1 ELSE parse_int(args[1]).val

command_step ==
    /\ Entered({"step", "s"})
    /\ IF /\ Len(line.args) <= 1
          /\ line.args # << >> => parse_int(line.args[1]).ok
          /\ ~cpu.halted
       THEN /\ left' = StepCycles(line.args)
            /\ ctl' = "step"
            /\ UNCHANGED <<cpu, program, modes, line, dump, replayed>>
       ELSE Unchanged /\ Return
    /\ UNCHANGED <<sigint, commands, caught>>

\* A reader applies a line of the memory trace to the word it names; lines of
\* accesses that were refused name no word.
ReplayAccess(segments, access) ==
    LET word == aligned_addr(access.addr) IN
    IF \/ ~access.is_store
       \/ AccessFaults(segments, word)
       \/ access.mask = Lanes /\ access.addr # word
    THEN segments
    ELSE mem_write32(segments, word,
                     MergeLanes(mem_read32(segments, word), access.mask, access.data))

\* One instruction, and its line of the memory trace.
run_simulator ==
    LET done == RunCycle(cpu) IN
    /\ cpu' = done.cpu
    /\ replayed' = IF "memtrace" \in modes THEN ReplayAccess(replayed, done.access) ELSE replayed
    /\ UNCHANGED ctl

\* Fault: the loop of step does not look at halted.
StepThroughHalt ==
    /\ ctl = "step"
    /\ IF left > 0
       THEN /\ run_simulator
            /\ left' = left - 1
            /\ UNCHANGED line
       ELSE /\ Return
            /\ left' = 0
            /\ UNCHANGED <<cpu, replayed>>
    /\ UNCHANGED <<program, modes, sigint, dump, commands, caught>>

\* The loop of command_step, which Ctrl-C does not stop.
StepLoop ==
    /\ ctl = "step"
    /\ IF left > 0 /\ ~cpu.halted
       THEN /\ run_simulator
            /\ left' = left - 1
            /\ UNCHANGED line
       ELSE /\ Return
            /\ left' = 0
            /\ UNCHANGED <<cpu, replayed>>
    /\ UNCHANGED <<program, modes, sigint, dump, commands, caught>>

\* Fault: SIGINT_RECEIVED is not reset before the loop.
GoKeepsInterrupt ==
    /\ Entered({"go", "g"})
    /\ IF line.args = << >> /\ ~cpu.halted
       THEN ctl' = "go" /\ UNCHANGED <<line, sigint>>
       ELSE Return /\ UNCHANGED sigint
    /\ Unchanged
    /\ UNCHANGED <<commands, caught>>

\* command_go up to its loop: an interrupt typed before is forgotten.
command_go ==
    /\ Entered({"go", "g"})
    /\ IF line.args = << >> /\ ~cpu.halted
       THEN ctl' = "go" /\ sigint' = FALSE /\ UNCHANGED line
       ELSE Return /\ UNCHANGED sigint
    /\ Unchanged
    /\ UNCHANGED <<commands, caught>>

\* Fault: the loop of go does not look at the interrupt.
GoUninterrupted ==
    /\ ctl = "go"
    /\ IF ~cpu.halted
       THEN run_simulator
       ELSE ctl' = "told" /\ UNCHANGED <<cpu, replayed>>
    /\ UNCHANGED <<program, modes, line, left, sigint, dump, commands, caught>>

GoLoop ==
    /\ ctl = "go"
    /\ IF ~cpu.halted /\ ~sigint
       THEN run_simulator
       ELSE ctl' = "told" /\ UNCHANGED <<cpu, replayed>>
    /\ UNCHANGED <<program, modes, line, left, sigint, dump, commands, caught>>

\* The message is printed, then the flag is reset; an interrupt in between is lost.
GoReset ==
    /\ ctl = "told"
    /\ sigint' = FALSE
    /\ Return
    /\ Unchanged
    /\ UNCHANGED <<commands, caught>>

-----------------------------------------------------------------------------
(* The commands that look at the processor or change it from the prompt. *)

find_register(token) ==
    IF NamedRegister(token) = {} THEN -1 ELSE Min(NamedRegister(token))

RegisterNumber(token) ==
    IF parse_int(token).ok THEN parse_int(token).val ELSE find_register(token)

command_reg ==
    /\ Entered({"reg", "r"})
    /\ IF /\ Len(line.args) = 2
          /\ RegisterNumber(line.args[1]) \in Registers
          /\ parse_int32(line.args[2]).ok
       THEN /\ cpu' = [cpu EXCEPT !.registers = register_write(
                    @, RegisterNumber(line.args[1]), parse_int32(line.args[2]).val)]
            /\ UNCHANGED <<program, modes, left, dump, replayed>>
       ELSE Unchanged
    /\ Return
    /\ UNCHANGED <<sigint, commands, caught>>

\* A segment that failed to load may have kept its size: its buffer is NULL, and
\* reading or writing it ends the simulator.
Dangles(segment) == cpu.segments[segment].mem = NULL

command_mem ==
    /\ Entered({"mem", "m"})
    /\ LET count   == Len(line.args)
           addr    == parse_int32(line.args[1])
           segment == mem_find_segment(cpu.segments, addr.val)
           value   == parse_int32(line.args[2])
       IN  IF count \notin {1, 2} \/ ~addr.ok \/ segment = NoSegment \/ (count = 2 /\ ~value.ok)
           THEN Unchanged /\ Return
           ELSE IF Dangles(segment)
           THEN Crash
           ELSE IF count = 1
           THEN Unchanged /\ Return
           ELSE /\ cpu' = [cpu EXCEPT !.segments = mem_write_word(@, segment, addr.val, value.val)]
                /\ Resync(modes, cpu'.segments)
                /\ UNCHANGED <<program, modes, left, dump>>
                /\ Return
    /\ UNCHANGED <<sigint, commands, caught>>

\* fopen of the dump file, if there is one, may fail.
open_dump_file(count, arg_num) == IF arg_num < count THEN {"opened", "failed"} ELSE {"stdout"}

Dumped(file, content) == dump' = IF file = "opened" THEN content ELSE dump

command_rdump ==
    /\ Entered({"rdump"})
    /\ IF Len(line.args) > 1
       THEN Unchanged
       ELSE \E file \in open_dump_file(Len(line.args), 0) :
                /\ Dumped(file, "written")
                /\ UNCHANGED <<cpu, program, modes, left, replayed>>
    /\ Return
    /\ UNCHANGED <<sigint, commands, caught>>

\* Too many arguments are reported and then ignored; the dump file is emptied
\* before the range is looked at, and stays so if the range is refused.
command_mdump ==
    /\ Entered({"mdump"})
    /\ IF Len(line.args) < 2 \/ ~parse_uint32_hex(line.args[1]).ok \/ ~parse_uint32_hex(line.args[2]).ok
       THEN Unchanged /\ Return
       ELSE LET start_addr == parse_uint32_hex(line.args[1]).val
                end_addr   == parse_uint32_hex(line.args[2]).val
            IN  \E file \in open_dump_file(Len(line.args), 2) :
                    /\ IF file = "failed"
                       THEN dump' = dump /\ Return
                       ELSE IF ~(start_addr < end_addr) \/ ~mem_range_valid(cpu.segments, start_addr, end_addr)
                       THEN Dumped(file, "empty") /\ Return
                       ELSE IF Dangles(mem_find_segment(cpu.segments, start_addr))
                       THEN Dumped(file, "empty") /\ ctl' = "exited" /\ UNCHANGED line
                       ELSE Dumped(file, "written") /\ Return
                    /\ UNCHANGED <<cpu, program, modes, left, replayed>>
    /\ UNCHANGED <<sigint, commands, caught>>

-----------------------------------------------------------------------------
(* The commands that start a program. *)

\* The processor with the program at path loaded in place of the one it has.
Reload(path, stack) ==
    init_cpu_state([cpu EXCEPT !.segments = mem_unload_program(@)], path, stack)

\* The path is cut again each time; a path that was freed may read as another.
command_restart ==
    /\ Entered({"restart"})
    /\ IF line.args # << >>
       THEN Unchanged /\ Return
       ELSE \E path \in IF program.allocated THEN {program.path} ELSE StalePaths(program.path),
               stack \in StackContents :
                /\ cpu' = Reload(path, stack)
                /\ program' = [program EXCEPT !.path = StripExtension(path)]
                /\ Resync(modes, cpu'.segments)
                /\ IF cpu'.halted THEN ctl' = "exited" /\ UNCHANGED line ELSE Return
                /\ UNCHANGED <<modes, left, dump>>
    /\ UNCHANGED <<sigint, commands, caught>>

\* The path saved is a piece of the line, which is freed when the command returns.
command_load ==
    /\ Entered({"load"})
    /\ IF Len(line.args) # 1
       THEN Unchanged /\ Return
       ELSE \E stack \in StackContents :
                /\ cpu' = Reload(PathOf(line.args[1]), stack)
                /\ program' = IF cpu'.halted THEN program
                              ELSE [path |-> StripExtension(PathOf(line.args[1])), allocated |-> FALSE]
                /\ Resync(modes, cpu'.segments)
                /\ UNCHANGED <<modes, left, dump>>
                /\ Return
    /\ UNCHANGED <<sigint, commands, caught>>

-----------------------------------------------------------------------------
(* Modes, quitting and the rest. *)

\* What the four mode commands do: switch a mode on or off, and open or
\* close its file; the simulator ends if the file cannot be opened.
Toggle(mode, names, most_args) ==
    /\ Entered(names)
    /\ IF Len(line.args) > most_args
       THEN Unchanged /\ Return
       ELSE /\ modes' = IF mode \in modes THEN modes \ {mode} ELSE modes \cup {mode}
            /\ \/ Return
               \/ mode # "verbose" /\ mode \notin modes /\ ctl' = "exited" /\ UNCHANGED line
            /\ IF mode = "memtrace" THEN Resync(modes', cpu.segments) ELSE UNCHANGED replayed
            /\ UNCHANGED <<cpu, program, left, dump>>
    /\ UNCHANGED <<sigint, commands, caught>>

command_verbose == Toggle("verbose", {"verbose", "v"}, 0)

command_trace == Toggle("trace", {"trace", "t"}, 0)

command_statetrace == Toggle("statetrace", {"statetrace"}, 1)

command_memtrace == Toggle("memtrace", {"memtrace"}, 1)

command_quit ==
    /\ Entered({"quit", "q"})
    /\ IF line.args = << >>
       THEN /\ cpu' = Halt(cpu)
            /\ ctl' = "exited"
            /\ UNCHANGED <<line, program, modes, left, dump, replayed>>
       ELSE Unchanged /\ Return
    /\ UNCHANGED <<sigint, commands, caught>>

CommandNames ==
    {"step", "s", "go", "g", "reg", "r", "mem", "m", "rdump", "mdump", "restart", "load",
     "verbose", "v", "trace", "t", "statetrace", "memtrace", "quit", "q"}

\* help, an empty line, or no command at all: nothing but output.
OtherLine ==
    /\ ctl = "command" /\ line.command \notin CommandNames
    /\ Unchanged
    /\ Return
    /\ UNCHANGED <<sigint, commands, caught>>

process_command ==
    \/ command_step \/ command_go
    \/ command_reg \/ command_mem \/ command_rdump \/ command_mdump
    \/ command_restart \/ command_load
    \/ command_verbose \/ command_trace \/ command_statetrace \/ command_memtrace
    \/ command_quit \/ OtherLine

\* The simulator's own thread, between two lines.
Simulate == process_command \/ StepLoop \/ GoLoop \/ GoReset

Next == ReadLine \/ EndOfFile \/ sigint_handler \/ Simulate

Spec == Init /\ [][Next]_vars

\* The operating system runs the simulator; the user need not do anything.  This is
\* weak fairness of Simulate, which is enabled unless the simulator waits for the
\* user or has exited; ENABLED is written out because evaluating it over whole
\* instructions is slow.
FairSpec == Spec /\ ([]<>(ctl \in {"prompt", "exited"}) \/ []<><<Simulate>>_vars)

-----------------------------------------------------------------------------
(* Properties. *)

SegmentType(s) == [size : 0 .. Modulus - 1, mem : Seq(Byte)]

\* No write of the program or of the user leaves the buffer of its segment, and
\* everything else has its type.
TypeOK ==
    /\ cpu.halted \in BOOLEAN
    /\ cpu.cycle \in 0 .. MaxCycle
    /\ cpu.pc \in Word
    /\ cpu.registers \in [Registers -> Word]
    /\ cpu.registers[0] = 0
    /\ DOMAIN cpu.segments = SegmentIds
    /\ \A s \in SegmentIds : /\ cpu.segments[s] \in SegmentType(s)
                             /\ Len(cpu.segments[s].mem) \in {0, cpu.segments[s].size}
    /\ program.allocated \in BOOLEAN
    /\ modes \subseteq Modes
    /\ ctl \in {"prompt", "command", "step", "go", "told", "exited"}
    /\ left \in Int
    /\ sigint \in BOOLEAN
    /\ dump \in {"none", "empty", "written"}
    /\ commands \in 0 .. MaxCommands
    /\ caught \in BOOLEAN

\* While the processor can run, every segment has the buffer its size promises, a
\* whole number of words inside its bounds, whatever failed to load before.
Backed(segments) ==
    \A s \in SegmentIds :
        /\ DOMAIN segments[s].mem = 1 .. segments[s].size
        /\ segments[s].size % 4 = 0
        /\ segments[s].size <= MEMORY_SEGMENTS[s].max_size

SegmentsBacked == ~cpu.halted => Backed(cpu.segments)

\* A reader of the memory trace who applies its stores to the memory the trace
\* started from has the memory of the processor, lane for lane, in any mix of
\* sizes, refused accesses and toggles.
MemtraceReplays ==
    "memtrace" \in modes => replayed = cpu.segments

\* Wherever a run of the processor can get to, any instruction both sides define
\* takes its immediate from the same bits of its word and does the same in the
\* simulator as in the core's data path.
RtlAgrees ==
    ctl \in {"step", "go"} /\ ~cpu.halted =>
        /\ ImmediatesAgree
        /\ \A i \in Encodings : Comparable(cpu, i) => Agrees(cpu, i)

\* A halted processor executes nothing until a program is loaded or restarted.
HaltIsFinal ==
    [][cpu.halted => \/ line.command \in {"load", "restart"}
                     \/ cpu'.halted /\ cpu'.pc = cpu.pc /\ cpu'.cycle = cpu.cycle]_vars

\* go gives up before the program halts only for a Ctrl-C typed while it ran: one
\* typed at the prompt, during step or after the last go is never carried over.
GoStopsForReason ==
    ctl = "told" /\ ~cpu.halted => caught

\* After a load or a restart that succeeds, the processor is what a new simulator
\* would have made of the same program: nothing that ran, failed to load or was
\* typed before shows.
RestartFresh ==
    [][ctl = "command" /\ line.command \in {"load", "restart"} /\ cpu' # cpu /\ ~cpu'.halted
         => \E stack \in StackContents : cpu' = FreshlyLoaded(program'.path \o <<"S">>, stack)]_vars

\* commands.h and commands.c of restart: it restarts the program that is loaded.
RestartSame ==
    [][ctl = "command" /\ line.command = "restart" /\ cpu' # cpu
         => ~cpu'.halted /\ program'.path = program.path]_vars

\* A step command ends by itself, and a go whose program halts or that the user
\* interrupts comes back to the prompt.
CommandReturns ==
    /\ ctl = "step" ~> ctl \in {"prompt", "exited"}
    /\ (ctl = "go" /\ (caught \/ cpu.halted)) ~> ctl \in {"prompt", "exited"}

=============================================================================
