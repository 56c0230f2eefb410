--------------------------- MODULE CacheController ---------------------------
(***************************************************************************)
(* rtl/mem/cache_controller2.sv: the blocking controller in front of a     *)
(* cache, one request at a time.  The two always_comb blocks are operators *)
(* of the registered state and of `in`, the signals of one cycle:          *)
(*                                                                         *)
(*   re, we, addr    the request the core presents                         *)
(*   cancel          the redirect that drops what is in flight             *)
(*   hit             the cache's answer to the probe                       *)
(*   mem_ready       the bus takes a request this cycle                    *)
(*   good            memory answers with the block being waited for        *)
(*   evicted_dirty   the fill pushes out a dirty line                      *)
(*                                                                         *)
(* The instruction side instantiates it with `we` and `evicted_dirty`      *)
(* false, the data side with `cancel` false.                               *)
(***************************************************************************)
EXTENDS Integers

CONSTANT BLOCK_SIZE   \* words of a block: the beats of a write-back

VARIABLES
    state,         \* the FSM
    latched,       \* core_req_addr_latched: the request being worked on
    wb_pending,    \* a dirty victim waits to be written back
    wb_beat,       \* its next word
    fwd_pending    \* a read still owes its word, after the write-back

controllerVars == <<state, latched, wb_pending, wb_beat, fwd_pending>>

States ==
    {"IDLE", "READ_CACHE_RSP", "READ_WAIT_MEM_RSP", "WRITE_CACHE_RSP",
     "WRITE_WAIT_MEM_RSP", "WRITE_CACHE_DATA", "WRITE_EVICT_WRITEBACK", "READ_FWD"}

ControllerInit(addr) ==
    /\ state = "IDLE"
    /\ latched = addr
    /\ wb_pending = FALSE
    /\ wb_beat = 0
    /\ fwd_pending = FALSE
-----------------------------------------------------------------------------
Probing == state \in {"READ_CACHE_RSP", "WRITE_CACHE_RSP"}

\* The request of this cycle, if one is presented, is taken.
core_rsp_ready(in) ==
    \/ state = "IDLE"
    \/ state = "READ_CACHE_RSP" /\ in.hit
    \/ state = "READ_WAIT_MEM_RSP" /\ in.good /\ ~in.evicted_dirty
    \/ state = "READ_FWD"

\* core_req_bus_wait_en and cache_issue_read.
Accepts(in) == core_rsp_ready(in) /\ (in.re \/ in.we) /\ ~in.cancel

\* A cancel also drops the fill request of a probe that has just missed.
mem_bus_request(in) == Probing /\ ~in.hit /\ ~in.cancel

\* The missed probe stays visible until the bus grants its fill.
cache_stall(in) == Probing /\ ~in.hit /\ ~in.mem_ready

do_fill(in) == state \in {"READ_WAIT_MEM_RSP", "WRITE_WAIT_MEM_RSP"} /\ in.good

cache_store == state = "WRITE_CACHE_DATA"

do_evict_writeback == state = "WRITE_EVICT_WRITEBACK"

\* Fault: the beat counter wraps before it gets there.
last_beat_past(in) == do_evict_writeback /\ in.mem_ready /\ wb_beat = BLOCK_SIZE

last_beat(in) == do_evict_writeback /\ in.mem_ready /\ wb_beat = BLOCK_SIZE - 1

\* Fault: a fill is not forwarded.
hit_enable(in) == ~in.cancel /\ state = "READ_CACHE_RSP" /\ in.hit

\* Fault: a fill that evicts is forwarded at once, and again after the write-back.
forward_twice(in) ==
    \/ state = "READ_CACHE_RSP" /\ in.hit
    \/ state = "READ_WAIT_MEM_RSP" /\ in.good
    \/ state = "READ_FWD"

\* A response enters the FIFO: a hit, a forwarded fill or the word still owed.
fifo_enable(in) ==
    /\ ~in.cancel
    /\ \/ state = "READ_CACHE_RSP" /\ in.hit
       \/ state = "READ_WAIT_MEM_RSP" /\ in.good /\ ~in.evicted_dirty
       \/ state = "READ_FWD"
-----------------------------------------------------------------------------
Chain(in) ==
    IF in.re THEN "READ_CACHE_RSP" ELSE IF in.we THEN "WRITE_CACHE_RSP" ELSE "IDLE"

\* Fault: a load does not wait for the write-back of its victim.
AfterFillChain(in) == Chain(in)

AfterFill(in) == IF in.evicted_dirty THEN "WRITE_EVICT_WRITEBACK" ELSE Chain(in)

FSM_next_state(in) ==
    CASE state = "READ_CACHE_RSP" /\ ~in.hit ->
            IF in.mem_ready THEN "READ_WAIT_MEM_RSP" ELSE state
      [] state = "READ_WAIT_MEM_RSP" ->
            IF in.good THEN AfterFill(in) ELSE state
      [] state = "WRITE_CACHE_RSP" ->
            IF in.hit THEN "WRITE_CACHE_DATA"
            ELSE IF in.mem_ready THEN "WRITE_WAIT_MEM_RSP" ELSE state
      [] state = "WRITE_WAIT_MEM_RSP" ->
            IF in.good THEN "WRITE_CACHE_DATA" ELSE state
      [] state = "WRITE_CACHE_DATA" ->
            IF wb_pending THEN "WRITE_EVICT_WRITEBACK" ELSE "IDLE"
      [] state = "WRITE_EVICT_WRITEBACK" ->
            IF ~last_beat(in) THEN state ELSE IF fwd_pending THEN "READ_FWD" ELSE "IDLE"
      [] OTHER -> Chain(in)

ControllerNext(in) ==
    /\ state' = IF in.cancel THEN "IDLE" ELSE FSM_next_state(in)
    /\ latched' = IF Accepts(in) THEN in.addr ELSE latched
    /\ wb_pending' = IF do_fill(in) /\ in.evicted_dirty THEN TRUE
                     ELSE wb_pending /\ ~last_beat(in)
    /\ wb_beat' = IF do_evict_writeback /\ in.mem_ready
                  THEN (wb_beat + 1) % BLOCK_SIZE
                  ELSE wb_beat
    /\ fwd_pending' =
          IF do_fill(in) /\ in.evicted_dirty /\ state = "READ_WAIT_MEM_RSP" THEN TRUE
          ELSE fwd_pending /\ ~(state = "READ_FWD" /\ ~in.cancel)

=============================================================================
