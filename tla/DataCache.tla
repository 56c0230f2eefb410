------------------------------ MODULE DataCache ------------------------------
(***************************************************************************)
(* The data side of rtl/mem/riscv_core_interface.sv: cache_controller2 and *)
(* cache3 between the core's one request port and the main memory, whose   *)
(* answers come back through the testbench's delay line.                   *)
(*                                                                         *)
(* A word is reduced to one bit: is this copy what the program last stored *)
(* there?  A store that reaches the array makes its own word so and every  *)
(* other copy of the address out of date; copying and merging carry the    *)
(* bit along.                                                              *)
(*                                                                         *)
(* Answers of memory are matched by address alone, and the instruction     *)
(* side shares the bus: it may ask for any of CodeBlocks in any cycle the  *)
(* data side leaves it.  They may be data: a wrong path fetches anything.  *)
(***************************************************************************)
EXTENDS Integers, Sequences, FiniteSets

CONSTANTS
    WAYS, POLICY, Tags, Indexes,
    BLOCK_SIZE,     \* words of a block
    DELAY,          \* clocks between a memory request and its answer
    CodeBlocks      \* the blocks the instruction side may ask for

VARIABLES
    state, latched, wb_pending, wb_beat, fwd_pending,   \* the controller
    sets,           \* cache_money: the array
    inflight,       \* curr_inflight: the cache's request in flight
    full,           \* the latched store writes the whole word
    old_word,       \* old_word_latched
    evicted,        \* evicted_addr_latched and evicted_line_latched
    memory,         \* main memory
    delay,          \* the answers on their way, youngest first
    rsp_fifo        \* the responses at the core's side

vars == <<state, latched, wb_pending, wb_beat, fwd_pending, sets, inflight, full,
          old_word, evicted, memory, delay, rsp_fifo>>

Offsets == 0 .. BLOCK_SIZE - 1

INSTANCE CacheController

Cache == INSTANCE Cache3 WITH Words <- BOOLEAN

Fifo == INSTANCE Fifo

RSP_FIFO_ELEMENTS == 2

ASSUME DataCacheAssumption ==
    /\ WAYS \in Nat \ {0}
    /\ POLICY \in {"DIRECT", "LRU", "MRU"}
    /\ (POLICY = "DIRECT") <=> (WAYS = 1)
    /\ 0 \in Tags /\ 0 \in Indexes
    /\ BLOCK_SIZE \in Nat \ {0}
    /\ DELAY \in Nat \ {0}
    /\ CodeBlocks \subseteq Cache!Block

\* What the memory port puts on the delay line.
Answer == [valid : BOOLEAN, addr : Cache!Block, line : Cache!Line]

zero_block == [tag |-> 0, index |-> 0]

zero_address == [tag |-> 0, index |-> 0, offset |-> 0]

NoAnswer == [valid |-> FALSE, addr |-> zero_block, line |-> [o \in Offsets |-> FALSE]]

Init ==
    /\ ControllerInit(zero_address)
    /\ sets = [i \in Indexes |-> Cache!EmptySet(FALSE)]
    /\ inflight = Cache!NoRequest(FALSE)
    /\ full = FALSE
    /\ old_word = FALSE
    /\ evicted = [addr |-> zero_block, line |-> [o \in Offsets |-> FALSE]]
    /\ memory = [b \in Cache!Block |-> [o \in Offsets |-> TRUE]]
    /\ delay = [i \in 1 .. DELAY |-> NoAnswer]
    /\ rsp_fifo = <<>>
-----------------------------------------------------------------------------
mem_rsp == delay[DELAY]

mem_rsp_good == mem_rsp.valid /\ mem_rsp.addr = Cache!block(latched)

hit == Cache!read_hit(inflight)

\* The signals of a cycle in which the core asks for `re` or `we` of an address.
\* mem_rsp_ready is choose_d_cache: the data side never waits for the bus.
Seam(re, we, addr) ==
    [re |-> re, we |-> we, addr |-> addr, cancel |-> FALSE,
     hit |-> hit, mem_ready |-> TRUE, good |-> mem_rsp_good,
     evicted_dirty |-> Cache!evicted_dirty(inflight, TRUE)]

ud_en(in) == do_fill(in)

\* choose_d_cache.
choose_d_cache(in) == mem_bus_request(in) \/ do_evict_writeback

\* The block a store reaches in this cycle, if one does, and the word of it.
Storing == inflight.type = "STORE"

\* A line of block b, seen from after this cycle's store.
Outdated(line, b) ==
    IF Storing /\ b = Cache!block(inflight.addr)
    THEN [line EXCEPT ![inflight.addr.offset] = FALSE]
    ELSE line

OutdatedSet(set, index) ==
    [set EXCEPT !.blocks =
        [w \in Cache!Ways |->
            [set.blocks[w] EXCEPT !.line = Outdated(@, [tag |-> set.blocks[w].tag, index |-> index])]]]

\* The fill word, and the word a store is merged into or a late forward delivers.
fill_word == mem_rsp.line[latched.offset]

old_word_next(in) ==
    IF state = "WRITE_CACHE_RSP" /\ hit THEN Cache!read_data(inflight)
    ELSE IF do_fill(in) /\ (state = "WRITE_WAIT_MEM_RSP" \/ in.evicted_dirty) THEN fill_word
    ELSE old_word

rsp_word ==
    CASE state = "READ_CACHE_RSP"     -> Cache!read_data(inflight)
      [] state = "READ_WAIT_MEM_RSP"  -> fill_word
      [] OTHER                        -> old_word

\* Fault: the store goes to the address on the port.
cache_address_live(in) == in.addr

\* Probes use the live address, the store its own.
cache_address(in) == IF cache_store THEN latched ELSE in.addr

\* Fault: a new request starts from the array although its set is being written.
set_from_array(index, in) == OutdatedSet(sets[index], index)

set_for(index, in) ==
    IF index = inflight.addr.index /\ inflight.type # "IDLE"
    THEN Cache!next_set_data(inflight, ud_en(in), mem_rsp.line)
    ELSE OutdatedSet(sets[index], index)

\* curr_inflight after the edge.
next_inflight(in) ==
    LET addr == cache_address(in) IN
    IF (Accepts(in) \/ cache_store) /\ Cache!can_accept_new(inflight, ud_en(in))
    THEN [type |-> IF cache_store THEN "STORE" ELSE "LOAD",
          set  |-> set_for(addr.index, in),
          addr |-> addr,
          data |-> cache_store /\ (full \/ old_word)]
    ELSE IF Cache!read_miss(inflight)
    THEN [inflight EXCEPT !.type = "MISS_UPDATE"]
    ELSE IF inflight.type = "MISS_UPDATE" /\ ~ud_en(in)
    THEN inflight
    ELSE Cache!NoRequest(FALSE)

\* The array takes back the set that was worked on; no other holds the block.
next_sets(in) ==
    IF Cache!cache_we(inflight, ud_en(in), cache_stall(in))
    THEN [sets EXCEPT ![inflight.addr.index] =
             Cache!next_set_data(inflight, ud_en(in), mem_rsp.line)]
    ELSE sets

next_evicted(in) ==
    IF do_fill(in) /\ in.evicted_dirty
    THEN [addr |-> Cache!evicted_addr(inflight, TRUE),
          line |-> Cache!evicted_line(inflight, TRUE)]
    ELSE [evicted EXCEPT !.line = Outdated(@, evicted.addr)]

\* Main memory writes one word a clock.
next_memory ==
    [b \in Cache!Block |->
        IF do_evict_writeback /\ b = evicted.addr
        THEN [Outdated(memory[b], b) EXCEPT ![wb_beat] = evicted.line[wb_beat]]
        ELSE Outdated(memory[b], b)]

Read(b) == [valid |-> TRUE, addr |-> b, line |-> Outdated(memory[b], b)]

\* What goes out on the bus: the data side's request, or the instruction side's.
next_delay(in, code) ==
    [i \in 1 .. DELAY |->
        IF i > 1 THEN [delay[i - 1] EXCEPT !.line = Outdated(@, delay[i - 1].addr)]
        ELSE IF mem_bus_request(in) THEN Read(Cache!block(latched))
        ELSE IF choose_d_cache(in) \/ code = {} THEN NoAnswer
        ELSE Read(CHOOSE b \in code : TRUE)]

\* One clock; `code` is the block the instruction side asks for, if any.
Clock(in, writes_all, code) ==
    /\ ControllerNext(in)
    /\ sets' = next_sets(in)
    /\ inflight' = next_inflight(in)
    /\ full' = IF Accepts(in) THEN writes_all ELSE full
    /\ old_word' = old_word_next(in)
    /\ evicted' = next_evicted(in)
    /\ memory' = next_memory
    /\ delay' = next_delay(in, code)
    /\ rsp_fifo' = Fifo!FifoNext(rsp_fifo, IF fifo_enable(in) THEN <<rsp_word>> ELSE <<>>,
                                 RSP_FIFO_ELEMENTS, FALSE, FALSE)

\* The instruction side asks for one block, or for none.
CodeRequests == {{}} \cup {{b} : b \in CodeBlocks}

\* No request of the core: its address lines are zero.
Idle == \E code \in CodeRequests : Clock(Seam(FALSE, FALSE, zero_address), FALSE, code)

\* The core presents a load.
Load ==
    \E addr \in Cache!Address : \E code \in CodeRequests :
        LET in == Seam(TRUE, FALSE, addr) IN
        core_rsp_ready(in) /\ Clock(in, FALSE, code)

\* The core presents a store, of the whole word or of part of it.
Store ==
    \E addr \in Cache!Address : \E writes_all \in BOOLEAN : \E code \in CodeRequests :
        LET in == Seam(FALSE, TRUE, addr) IN
        core_rsp_ready(in) /\ Clock(in, writes_all, code)

Next == Idle \/ Load \/ Store

Spec == Init /\ [][Next]_vars

\* The clock never stops.
FairSpec == Spec /\ WF_vars(Next)
-----------------------------------------------------------------------------
(***************************************************************************)
(* Properties.                                                             *)
(***************************************************************************)

\* Types of every register.
TypeOK ==
    /\ state \in States
    /\ latched \in Cache!Address
    /\ wb_pending \in BOOLEAN /\ fwd_pending \in BOOLEAN
    /\ wb_beat \in Offsets
    /\ sets \in [Indexes -> Cache!CacheSet]
    /\ inflight \in Cache!Inflight
    /\ full \in BOOLEAN /\ old_word \in BOOLEAN
    /\ evicted \in [addr : Cache!Block, line : Cache!Line]
    /\ memory \in [Cache!Block -> Cache!Line]
    /\ delay \in [1 .. DELAY -> Answer]
    /\ rsp_fifo \in Seq(BOOLEAN)

\* Every response carries what the program last stored at its address.
LoadsCurrent == \A n \in DOMAIN rsp_fifo : rsp_fifo[n]

\* The matching response is the answer to the fill in flight: it carries the
\* block as memory has it now.
FillIsAnswer ==
    state \in {"READ_WAIT_MEM_RSP", "WRITE_WAIT_MEM_RSP"} /\ mem_rsp_good
        => mem_rsp.line = memory[Cache!block(latched)]

\* The ways of the array that hold a block.
WaysOf(b) ==
    {w \in Cache!Ways :
        LET e == sets[b.index].blocks[w] IN e.valid # {} /\ e.tag = b.tag}

\* The last value stored to every word is where the next miss or hit looks for
\* it: in the one way that holds the block, else in the victim still being
\* written back, else in memory.
NeverLost ==
    \A b \in Cache!Block : \A o \in Offsets :
        /\ \A w, v \in WaysOf(b) : w = v
        /\ IF WaysOf(b) # {}
           THEN \A w \in WaysOf(b) : sets[b.index].blocks[w].line[o]
           ELSE IF wb_pending /\ b = evicted.addr /\ o >= wb_beat
           THEN evicted.line[o]
           ELSE memory[b][o]

\* The block of a clean line is also up to date in memory: dropping it loses nothing.
CleanMatches ==
    \A b \in Cache!Block : \A w \in WaysOf(b) : \A o \in Offsets :
        ~sets[b.index].blocks[w].dirty => memory[b][o]

\* The set a request works on is never older than the array's, although it was
\* copied when the request entered and a write of the same set may have been
\* under way.
SnapshotFresh == inflight.type # "IDLE" => inflight.set = sets[inflight.addr.index]

\* The controller's FSM and the cache's never drift apart: a probe is there
\* exactly while the controller looks for its hit, a refill is awaited exactly
\* while the controller waits for memory, and both are about the latched address.
InStep ==
    /\ Probing <=> inflight.type = "LOAD"
    /\ state \in {"READ_WAIT_MEM_RSP", "WRITE_WAIT_MEM_RSP"} <=> inflight.type = "MISS_UPDATE"
    /\ inflight.type # "IDLE" => inflight.addr = latched
    /\ wb_pending => state \in {"WRITE_CACHE_DATA", "WRITE_EVICT_WRITEBACK"}

\* A full set has one victim.
OneVictim ==
    \A i \in Indexes :
        (\A w \in Cache!Ways : sets[i].blocks[w].valid # {})
            => Cardinality(Cache!select_eviction_target(sets[i].metadata)) = 1

\* The request the core still waits for.
Pending ==
    IF state \in {"READ_CACHE_RSP", "READ_WAIT_MEM_RSP", "READ_FWD"} \/ fwd_pending THEN "load"
    ELSE IF state \in {"WRITE_CACHE_RSP", "WRITE_WAIT_MEM_RSP", "WRITE_CACHE_DATA"} THEN "store"
    ELSE "none"

Port == INSTANCE DataPort WITH pending <- Pending, fresh <- Probing, answered <- rsp_fifo # <<>>

\* The core sees a port that answers every load exactly once.
ActsAsPort == Port!Spec

\* Every load is answered.
Answers == state = "READ_CACHE_RSP" ~> rsp_fifo # <<>>

\* The data side leaves the bus to the instruction side again and again, on
\* which FetchPipe's fairness rests.
LeavesBus == []<>~choose_d_cache(Seam(FALSE, FALSE, latched))

=============================================================================
