------------------------------ MODULE FetchPipe ------------------------------
(***************************************************************************)
(* rtl/ooo/InstructionIssueUnit.sv, the fetch side: pc -> F1 -> F2 -> D in *)
(* front of the instruction cache's controller and its response FIFO.      *)
(* Groups in flight are tracked by position alone: the response at the     *)
(* head of the FIFO belongs to the group in F2, and nothing counts.        *)
(*                                                                         *)
(* Around it, any choice every cycle: whether a probe hits, when the bus   *)
(* grants a fill and when memory answers, what the predictor says of a pc, *)
(* when a branch turns out mispredicted or the head traps, and whether the *)
(* DRIS and the shelf have room for a group.  Room is only ever lost to an *)
(* intake, so a cycle without room follows one without room or one that    *)
(* took a group in.  Instructions are their word addresses.                *)
(***************************************************************************)
EXTENDS Integers, Sequences

CONSTANTS
    BLOCK_SIZE,     \* words of a cache block
    FETCH_WORDS,    \* slots of a fetch group
    NUM_WORDS,      \* words of the address space, which wraps
    Targets         \* addresses predictions and redirects may name

ASSUME FetchAssumption ==
    /\ BLOCK_SIZE \in Nat \ {0}
    /\ FETCH_WORDS \in Nat \ {0}
    /\ NUM_WORDS \in Nat
    /\ NUM_WORDS > BLOCK_SIZE /\ NUM_WORDS > FETCH_WORDS
    /\ NUM_WORDS % BLOCK_SIZE = 0 /\ NUM_WORDS % FETCH_WORDS = 0
    /\ Targets \subseteq 0 .. NUM_WORDS - 1

RSP_FIFO_ELEMENTS == 2

VARIABLES
    pc,        \* the program counter, presented to the cache and the predictor
    F1, F2,    \* the groups in the two stages behind it
    D,         \* the decode stage: a group, and whether its words came with it
    ic_state, ic_latched,   \* the instruction cache's controller
    ic_hit,    \* whether the probe it made last will hit
    rsp_fifo,  \* the addresses of the responses waiting for F2
    had_room,  \* the DRIS and the shelf had room in the last cycle
    trapped,   \* the head of the DRIS has trapped: fetch is held in flush
    issued,    \* dris_intake_pkts of the last cycle
    redirected \* history: the pc a flush of the last cycle asked for, none or one

vars == <<pc, F1, F2, D, ic_state, ic_latched, ic_hit, rsp_fifo, had_room, trapped, issued,
          redirected>>

ICache == INSTANCE CacheController
    WITH state <- ic_state, latched <- ic_latched,
         wb_pending <- FALSE, wb_beat <- 0, fwd_pending <- FALSE

Fifo == INSTANCE Fifo
-----------------------------------------------------------------------------
Pcs == 0 .. NUM_WORDS - 1

Wrap(n) == IF n >= NUM_WORDS THEN n - NUM_WORDS ELSE n

\* BTBPredictor4: `taken` is the oldest slot predicted taken, FETCH_WORDS if none.
Group(start, taken, target) ==
    [tag |-> "GROUP", pc |-> start, taken |-> taken, target |-> target]

\* The tags a flush and a stall bubble stamp into the pc.
WPC_FLUSH  == [tag |-> "FLUSH", pc |-> 0, taken |-> 0, target |-> 0]
WPC_BUBBLE == [WPC_FLUSH EXCEPT !.tag = "BUBBLE"]

is_invalid_pc(g) == g.tag # "GROUP"

block_pc(g, w) == Wrap(g.pc + w)

\* Only slots of the first slot's row can hit in the predictor.
in_group(start, w) == start % FETCH_WORDS <= FETCH_WORDS - 1 - w

\* What the predictor may say of the group that starts at an address.
Predictions(start) ==
    {Group(start, FETCH_WORDS, 0)} \cup
    {Group(start, w, t) :
        w \in {v \in 0 .. FETCH_WORDS - 1 : in_group(start, v)}, t \in Targets}

predicted_pc_block(g, w) == IF w = g.taken THEN g.target ELSE Wrap(g.pc + w + 1)

\* Fault: the adder keeps the carry out of the address.
next_row_carry(g) == g.pc - (g.pc % FETCH_WORDS) + FETCH_WORDS

seq_next_block(g) == Wrap(g.pc - (g.pc % FETCH_WORDS) + FETCH_WORDS)

best_prediction(g) == IF g.taken < FETCH_WORDS THEN g.target ELSE seq_next_block(g)

\* Fault: a predicted-taken slot ends the group only if it leaves the next pc.
valid_by_target(g) ==
    {w \in 0 .. FETCH_WORDS - 1 :
        \A v \in 1 .. w : /\ block_pc(g, v) = predicted_pc_block(g, v - 1)
                          /\ block_pc(g, v) % BLOCK_SIZE # 0}

\* fetched_instructions_valid: the slots of a group whose words are there.
valid_slots(g) ==
    {w \in 0 .. FETCH_WORDS - 1 :
        \A v \in 1 .. w : /\ v - 1 # g.taken
                          /\ block_pc(g, v) = predicted_pc_block(g, v - 1)
                          /\ block_pc(g, v) % BLOCK_SIZE # 0}

\* The group as the DRIS and the shelf take it.
Intake(g) ==
    LET slots == valid_slots(g) IN
    [n \in {w + 1 : w \in slots} |->
        [pc |-> block_pc(g, n - 1), pred |-> predicted_pc_block(g, n - 1)]]
-----------------------------------------------------------------------------
(***************************************************************************)
(* One clock.  `in` holds the signals that arrive: room, mispredict and    *)
(* trap, each with its pc, grant and good of the memory bus, and the       *)
(* prediction for the current pc.                                          *)
(***************************************************************************)
core_rsp_data_valid == Fifo!Valid(rsp_fifo)

flush(in) == in.trap \/ in.mispredict

\* What the controller sees, but for the request itself.
Bus(in) ==
    [re |-> FALSE, we |-> FALSE, addr |-> pc, cancel |-> in.mispredict,
     hit |-> ic_hit, mem_ready |-> in.grant, good |-> in.good, evicted_dirty |-> FALSE]

ready(in) == ICache!core_rsp_ready(Bus(in))

\* Fault: requests go out although nothing can be taken in.
core_req_ahead(in) == ready(in) /\ ~flush(in)

core_req_re(in) == in.room /\ ready(in) /\ ~flush(in)

Seam(in) == [Bus(in) EXCEPT !.re = core_req_re(in)]

\* stall_pc, stall_F1 and instr_stall; stall_F2 and stall_D.
stall_front(in) == ~in.room \/ ~ready(in)
stall_back(in)  == ~in.room \/ (~core_rsp_data_valid /\ ~ready(in))

next_pc(in) ==
    IF in.trap THEN in.trap_pc
    ELSE IF in.mispredict THEN in.mispredict_pc
    ELSE best_prediction(in.prediction)

\* Fault: a stalled pc misses the redirect.
pc_stalled(in) == IF stall_front(in) THEN pc ELSE next_pc(in)

pc_block_reg(in) == IF stall_front(in) /\ ~flush(in) THEN pc ELSE next_pc(in)

PCtoF1(in) ==
    IF flush(in) THEN WPC_FLUSH
    ELSE IF stall_front(in) THEN F1
    ELSE in.prediction

\* Fault: F2 takes the held F1 again while it drains.
F2_no_bubble(in) ==
    IF flush(in) THEN WPC_FLUSH
    ELSE IF stall_back(in) THEN F2
    ELSE F1

F1_to_F2(in) ==
    IF flush(in) THEN WPC_FLUSH
    ELSE IF stall_back(in) THEN F2
    ELSE IF stall_front(in) THEN WPC_BUBBLE
    ELSE F1

F2_to_DS(in) ==
    IF flush(in) THEN [group |-> WPC_FLUSH, valid |-> FALSE]
    ELSE IF stall_back(in) THEN D
    ELSE [group |-> F2, valid |-> core_rsp_data_valid]

\* peek_only: the FIFO keeps its head while the front is held.
core_req_stall_mem(in) == stall_front(in)

issue_fire(in) == ~is_invalid_pc(D.group) /\ D.valid /\ ~stall_back(in) /\ ~flush(in)

\* Occupancy grows by intake alone.
RoomIsKept(in) == in.room \/ ~had_room \/ issued # <<>>

Clock(in) ==
    /\ RoomIsKept(in)
    /\ pc' = pc_block_reg(in)
    /\ F1' = PCtoF1(in)
    /\ F2' = F1_to_F2(in)
    /\ D' = F2_to_DS(in)
    /\ ICache!ControllerNext(Seam(in))
    /\ ic_hit' = IF ICache!Accepts(Seam(in)) THEN in.next_hit ELSE ic_hit
    /\ rsp_fifo' = Fifo!FifoNext(rsp_fifo,
                       IF ICache!fifo_enable(Seam(in)) THEN <<ic_latched>> ELSE <<>>,
                       RSP_FIFO_ELEMENTS, core_req_stall_mem(in), in.mispredict)
    /\ had_room' = in.room
    /\ trapped' = in.trap
    /\ issued' = IF issue_fire(in) THEN Intake(D.group) ELSE <<>>
    /\ redirected' = IF in.trap THEN {in.trap_pc}
                     ELSE IF in.mispredict THEN {in.mispredict_pc}
                     ELSE {}

Init ==
    /\ pc = 0
    /\ F1 = WPC_BUBBLE
    /\ F2 = WPC_BUBBLE
    /\ D = [group |-> WPC_BUBBLE, valid |-> FALSE]
    /\ ICache!ControllerInit(0)
    /\ ic_hit = FALSE
    /\ rsp_fifo = <<>>
    /\ had_room = TRUE
    /\ trapped = FALSE
    /\ issued = <<>>
    /\ redirected = {}

\* The signals of a cycle; a trap, once raised, stays.  A signal nothing looks at
\* is low.
Signals(trap, mispredict) ==
    [room : BOOLEAN, next_hit : BOOLEAN,
     grant : IF ICache!Probing THEN BOOLEAN ELSE {FALSE},
     good : IF ic_state = "READ_WAIT_MEM_RSP" THEN BOOLEAN ELSE {FALSE},
     trap : {trap}, trap_pc : IF trap THEN Targets ELSE {0},
     mispredict : {mispredict}, mispredict_pc : IF mispredict THEN Targets ELSE {0},
     prediction : Predictions(pc)]

\* No redirect.
Advance == \E in \in Signals(FALSE, FALSE) : ~trapped /\ Clock(in)

\* The shelf reports a wrong branch: fetch goes on at mispredict_pc.
Repair == \E in \in Signals(FALSE, TRUE) : ~trapped /\ Clock(in)

\* The head traps: fetch is held in flush, and cancels only for a mispredict.
Trap ==
    \E mispredict \in BOOLEAN : \E in \in Signals(TRUE, mispredict) : Clock(in)

Next == Advance \/ Repair \/ Trap

Spec == Init /\ [][Next]_vars
-----------------------------------------------------------------------------
\* A clock with room for a group; one in which the bus grants a missed probe, or the
\* probe needs no grant; one in which memory answers.
Room     == ~trapped' /\ had_room'
Granted  == ICache!Probing /\ ~trapped' /\ (ic_hit \/ ic_state' # ic_state)
Answered == ic_state = "READ_WAIT_MEM_RSP" /\ ~trapped' /\ ic_state' # ic_state

\* Neither the core, nor the data side's use of the bus, nor memory holds fetch for
\* ever: weak fairness of each of these clocks.  Each is enabled whenever fetch is not
\* trapped and is in the state that waits for it, which is how ENABLED is written.
Fairness ==
    /\ []<>trapped \/ []<><<Room>>_vars
    /\ []<>(trapped \/ ~ICache!Probing) \/ []<><<Granted>>_vars
    /\ []<>(trapped \/ ic_state # "READ_WAIT_MEM_RSP") \/ []<><<Answered>>_vars

FairSpec == Spec /\ Fairness
-----------------------------------------------------------------------------
(***************************************************************************)
(* Properties.                                                             *)
(***************************************************************************)

Stage == [tag : {"GROUP", "FLUSH", "BUBBLE"}, pc : Pcs, taken : 0 .. FETCH_WORDS, target : Pcs]

\* Types of every register.
TypeOK ==
    /\ pc \in Pcs
    /\ F1 \in Stage /\ F2 \in Stage
    /\ D \in [group : Stage, valid : BOOLEAN]
    /\ ic_state \in {"IDLE", "READ_CACHE_RSP", "READ_WAIT_MEM_RSP"}
    /\ ic_latched \in Pcs
    /\ ic_hit \in BOOLEAN
    /\ rsp_fifo \in Seq(Pcs) /\ Len(rsp_fifo) <= RSP_FIFO_ELEMENTS
    /\ had_room \in BOOLEAN
    /\ trapped \in BOOLEAN
    /\ redirected \in SUBSET Pcs

\* fetch_position_assertion: the response at the head is the one of the group in F2.
FetchPosition ==
    core_rsp_data_valid /\ ~is_invalid_pc(F2) => Head(rsp_fifo) = F2.pc

\* The response FIFO has room whenever a response may arrive, so that none is
\* dropped, not even in the cycle the head leaves.
NoOverflow ==
    \A in \in Signals(FALSE, FALSE) :
        ICache!fifo_enable(Seam(in)) => Fifo!Fits(rsp_fifo, RSP_FIFO_ELEMENTS)

\* The pc of the next instruction the DRIS has not taken: the oldest stage that
\* holds a group knows.
StreamPc ==
    IF ~is_invalid_pc(D.group) /\ D.valid THEN D.group.pc
    ELSE IF ~is_invalid_pc(F2) THEN F2.pc
    ELSE IF ~is_invalid_pc(F1) THEN F1.pc
    ELSE pc

\* What the DRIS takes in is one unbroken stream along the predicted path: a cycle
\* that hands nothing over leaves the stream where it is, and a flush, and nothing
\* else, moves it, to trap_pc or mispredict_pc whatever is stalled at the time.
Stream == INSTANCE FetchStream WITH next <- StreamPc, issued <- issued, redirect <- redirected

FollowsStream == Stream!Spec

\* A group whose words have been asked for is taken in, from its first slot on,
\* unless a redirect kills it: no response is lost behind the stall table's back.
Delivers ==
    \A p \in Pcs :
        (F1.tag = "GROUP" /\ F1.pc = p)
            ~> ((issued # <<>> /\ issued[1].pc = p) \/ F1.tag = "FLUSH")

=============================================================================
