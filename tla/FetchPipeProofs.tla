--------------------------- MODULE FetchPipeProofs ---------------------------
(***************************************************************************)
(* The fetch pipeline.  Nothing ties a response to its group but position, *)
(* so the argument is a count: how many responses wait in the FIFO for     *)
(* every state of the controller, and which group each of them is for.     *)
(***************************************************************************)
EXTENDS FetchPipe, SequenceTheorems, TLAPS

-----------------------------------------------------------------------------
(***************************************************************************)
(* Addresses.                                                              *)
(***************************************************************************)

\* The addresses a group names, and the one fetch goes on at, are addresses.
LEMMA WrapTyped ==
    ASSUME NEW n \in Nat, n < 2 * NUM_WORDS
    PROVE  Wrap(n) \in Pcs
BY FetchAssumption DEF Wrap, Pcs

\* The place of an address in its row of the predictor.
LEMMA RowTyped ==
    ASSUME NEW n \in Nat
    PROVE  n % FETCH_WORDS \in 0 .. FETCH_WORDS - 1
BY FetchAssumption

\* A prediction is a stage whose taken slot lies in the group.
LEMMA PredictionTyped ==
    ASSUME NEW start \in Pcs, NEW g \in Predictions(start)
    PROVE  /\ g \in Stage /\ g.tag = "GROUP" /\ g.pc = start
           /\ g.taken < FETCH_WORDS => in_group(start, g.taken)
<1>1. CASE g = Group(start, FETCH_WORDS, 0)
  BY <1>1, FetchAssumption DEF Group, Stage, Pcs
<1>2. CASE \E w \in {v \in 0 .. FETCH_WORDS - 1 : in_group(start, v)}, t \in Targets :
              g = Group(start, w, t)
  <2>1. PICK w \in 0 .. FETCH_WORDS - 1, t \in Targets :
            in_group(start, w) /\ g = Group(start, w, t)
    BY <1>2
  <2>2. g.taken = w
    BY <2>1 DEF Group
  <2>3. g \in Stage /\ g.tag = "GROUP" /\ g.pc = start
    BY <2>1, FetchAssumption DEF Group, Stage, Pcs
  <2> QED BY <2>1, <2>2, <2>3
<1> QED BY <1>1, <1>2 DEF Predictions

\* The pc a prediction leads to is a pc.
LEMMA BestTyped ==
    ASSUME NEW g \in Stage
    PROVE  best_prediction(g) \in Pcs
<1>1. g.pc \in Nat /\ g.pc < NUM_WORDS /\ g.target \in Pcs /\ g.taken \in 0 .. FETCH_WORDS
  BY FetchAssumption DEF Stage, Pcs
<1> DEFINE r == g.pc % FETCH_WORDS
<1>2. r \in 0 .. FETCH_WORDS - 1
  BY <1>1, RowTyped
<1> HIDE DEF r
<1>3. g.pc - r + FETCH_WORDS \in Nat /\ g.pc - r + FETCH_WORDS < 2 * NUM_WORDS
  BY <1>1, <1>2, FetchAssumption
<1>4. seq_next_block(g) \in Pcs
  BY <1>3, WrapTyped DEF seq_next_block, r
<1> QED BY <1>1, <1>4 DEF best_prediction

-----------------------------------------------------------------------------
(***************************************************************************)
(* One clock, as the stall table and the controller make it.               *)
(***************************************************************************)

\* Any signals of any cycle.
Signal(in) ==
    \E trap, mispredict \in BOOLEAN : in \in Signals(trap, mispredict)

\* The types of the signals of a clock.
LEMMA SignalTyped ==
    ASSUME NEW in, Signal(in)
    PROVE  /\ in.room \in BOOLEAN /\ in.next_hit \in BOOLEAN /\ in.grant \in BOOLEAN
           /\ in.good \in BOOLEAN /\ in.trap \in BOOLEAN /\ in.mispredict \in BOOLEAN
           /\ in.trap_pc \in Pcs /\ in.mispredict_pc \in Pcs
           /\ in.prediction \in Predictions(pc)
<1>1. Targets \cup {0} \subseteq Pcs
  BY FetchAssumption DEF Pcs
<1> QED BY <1>1 DEF Signal, Signals

\* Which states take a request, and which put a response into the FIFO.
LEMMA ReadyIs ==
    ASSUME NEW in, Signal(in), TypeOK
    PROVE  /\ ready(in) <=> \/ ic_state = "IDLE"
                            \/ ic_state = "READ_CACHE_RSP" /\ ic_hit
                            \/ ic_state = "READ_WAIT_MEM_RSP" /\ in.good
           /\ ICache!fifo_enable(Seam(in)) <=>
                  ~in.mispredict /\ ic_state # "IDLE" /\ ready(in)
BY SignalTyped DEF ready, ICache!core_rsp_ready, ICache!fifo_enable, Seam, Bus, TypeOK

\* Every step is a clock edge, and a trapped front end stays trapped.
LEMMA NextIsClock ==
    ASSUME Next
    PROVE  \E in : Signal(in) /\ Clock(in) /\ (trapped => in.trap)
<1>1. CASE Advance
  BY <1>1 DEF Advance, Signal, Signals
<1>2. CASE Repair
  BY <1>2 DEF Repair, Signal, Signals
<1>3. CASE Trap
  BY <1>3 DEF Trap, Signal, Signals
<1> QED BY <1>1, <1>2, <1>3 DEF Next

\* The controller: a cancel empties it, a response frees it for the next request.
LEMMA ControllerStep ==
    ASSUME NEW in, Signal(in), TypeOK, Clock(in)
    PROVE  /\ in.mispredict => ic_state' = "IDLE"
           /\ ~in.mispredict /\ ready(in) =>
                  ic_state' = IF core_req_re(in) THEN "READ_CACHE_RSP" ELSE "IDLE"
           /\ ~in.mispredict /\ ~ready(in) =>
                  ic_state' \in {"READ_CACHE_RSP", "READ_WAIT_MEM_RSP"}
           /\ ic_latched' = IF core_req_re(in) THEN pc ELSE ic_latched
<1>1. ICache!ControllerNext(Seam(in))
  BY DEF Clock
<1>2. core_req_re(in) \in BOOLEAN
  BY DEF core_req_re
<1>3. /\ Seam(in).cancel = in.mispredict /\ Seam(in).addr = pc /\ Seam(in).hit = ic_hit
      /\ Seam(in).mem_ready = in.grant /\ Seam(in).good = in.good
      /\ Seam(in).re = core_req_re(in) /\ Seam(in).we = FALSE
      /\ Seam(in).evicted_dirty = FALSE
  BY <1>2 DEF Seam, Bus
<1>4. ic_state' = IF in.mispredict THEN "IDLE" ELSE ICache!FSM_next_state(Seam(in))
  BY <1>1, <1>3 DEF ICache!ControllerNext
<1>5. ICache!Chain(Seam(in)) = IF core_req_re(in) THEN "READ_CACHE_RSP" ELSE "IDLE"
  BY <1>3 DEF ICache!Chain
<1>6. ic_state = "IDLE" => ICache!FSM_next_state(Seam(in)) = ICache!Chain(Seam(in))
  BY DEF ICache!FSM_next_state
<1>7. ic_state = "READ_CACHE_RSP" =>
          ICache!FSM_next_state(Seam(in)) =
              IF ic_hit THEN ICache!Chain(Seam(in))
              ELSE IF in.grant THEN "READ_WAIT_MEM_RSP" ELSE ic_state
  BY <1>3 DEF ICache!FSM_next_state
<1>8. ic_state = "READ_WAIT_MEM_RSP" =>
          ICache!FSM_next_state(Seam(in)) =
              IF in.good THEN ICache!Chain(Seam(in)) ELSE ic_state
  BY <1>3 DEF ICache!FSM_next_state, ICache!AfterFill
<1>10. /\ in.mispredict => ic_state' = "IDLE"
       /\ ~in.mispredict /\ ready(in) =>
              ic_state' = IF core_req_re(in) THEN "READ_CACHE_RSP" ELSE "IDLE"
       /\ ~in.mispredict /\ ~ready(in) =>
              ic_state' \in {"READ_CACHE_RSP", "READ_WAIT_MEM_RSP"}
  BY <1>4, <1>5, <1>6, <1>7, <1>8, ReadyIs DEF TypeOK
<1>9. ic_latched' = IF core_req_re(in) THEN pc ELSE ic_latched
  <2>1. core_req_re(in) => ready(in) /\ ~in.mispredict
    BY DEF core_req_re, flush
  <2>2. ICache!Accepts(Seam(in)) <=> core_req_re(in)
    BY <1>3, <2>1, SignalTyped
       DEF ICache!Accepts, ICache!core_rsp_ready, ready, Bus
  <2> QED BY <1>1, <1>3, <2>2 DEF ICache!ControllerNext
<1> QED BY <1>9, <1>10

\* The response that arrives in a cycle.
Arriving(in) == ic_state # "IDLE" /\ ready(in) /\ ~in.mispredict

\* What is left in the FIFO of the responses that waited.
Kept(in) == IF stall_front(in) \/ rsp_fifo = <<>> THEN rsp_fifo ELSE Tail(rsp_fifo)

\* The FIFO: its head leaves with the front, and a response that fits is the last.
LEMMA ResponseStep ==
    ASSUME NEW in, Signal(in), TypeOK, Clock(in)
    PROVE  /\ in.mispredict => rsp_fifo' = <<>>
           /\ ~in.mispredict /\ Arriving(in) /\ Len(rsp_fifo) < 2 =>
                  rsp_fifo' = Append(Kept(in), ic_latched)
           /\ ~in.mispredict /\ ~(Arriving(in) /\ Len(rsp_fifo) < 2) =>
                  rsp_fifo' = Kept(in)
<1>1. rsp_fifo' = Fifo!FifoNext(rsp_fifo,
                       IF ICache!fifo_enable(Seam(in)) THEN <<ic_latched>> ELSE <<>>,
                       RSP_FIFO_ELEMENTS, core_req_stall_mem(in), in.mispredict)
  BY DEF Clock
<1>2. ICache!fifo_enable(Seam(in)) <=> Arriving(in)
  BY ReadyIs DEF Arriving
<1>3. Kept(in) \in Seq(Pcs) /\ ic_latched \in Pcs
  BY DEF Kept, TypeOK
<1>4. Kept(in) \o <<>> = Kept(in) /\ Kept(in) \o <<ic_latched>> = Append(Kept(in), ic_latched)
  BY <1>3
<1>5. CASE in.mispredict
  BY <1>1, <1>5 DEF Fifo!FifoNext
<1>6. CASE ~in.mispredict /\ Arriving(in)
  BY <1>1, <1>2, <1>4, <1>6 DEF Fifo!FifoNext, Fifo!Fits, Kept, core_req_stall_mem, RSP_FIFO_ELEMENTS
<1>7. CASE ~in.mispredict /\ ~Arriving(in)
  BY <1>1, <1>2, <1>4, <1>7 DEF Fifo!FifoNext, Fifo!Fits, Kept, core_req_stall_mem, RSP_FIFO_ELEMENTS
<1> QED BY <1>5, <1>6, <1>7

\* What a clock edge leaves of the response FIFO before a response arrives.
LEMMA KeptIs ==
    ASSUME NEW in, TypeOK
    PROVE  /\ Kept(in) \in Seq(Pcs) /\ Len(Kept(in)) <= Len(rsp_fifo)
           /\ stall_front(in) => Kept(in) = rsp_fifo
           /\ ~stall_front(in) /\ Len(rsp_fifo) <= 1 => Kept(in) = <<>>
           /\ ~stall_front(in) /\ Len(rsp_fifo) = 2 =>
                  Len(Kept(in)) = 1 /\ Kept(in)[1] = rsp_fifo[2]
<1>1. rsp_fifo \in Seq(Pcs)
  BY DEF TypeOK
<1>2. rsp_fifo = <<>> <=> Len(rsp_fifo) = 0
  BY <1>1
<1>3. CASE stall_front(in) \/ rsp_fifo = <<>>
  BY <1>1, <1>2, <1>3 DEF Kept
<1>4. CASE ~(stall_front(in) \/ rsp_fifo = <<>>)
  <2>1. Kept(in) = Tail(rsp_fifo)
    BY <1>4 DEF Kept
  <2>2. /\ Tail(rsp_fifo) \in Seq(Pcs) /\ Len(Tail(rsp_fifo)) = Len(rsp_fifo) - 1
        /\ \A i \in 1 .. Len(rsp_fifo) - 1 : Tail(rsp_fifo)[i] = rsp_fifo[i + 1]
    BY <1>1, <1>4, HeadTailProperties
  <2>3. Len(rsp_fifo) <= 1 => Tail(rsp_fifo) = <<>>
    BY <1>1, <1>2, <1>4, <2>2, EmptySeq
  <2>4. Len(rsp_fifo) = 2 => Len(Tail(rsp_fifo)) = 1 /\ Tail(rsp_fifo)[1] = rsp_fifo[2]
    BY <1>1, <2>2
  <2>5. Len(Tail(rsp_fifo)) <= Len(rsp_fifo)
    BY <1>1, <2>2
  <2> QED BY <1>4, <2>1, <2>2, <2>3, <2>4, <2>5
<1> QED BY <1>3, <1>4

\* The response FIFO never holds more than two responses.
LEMMA ResponseTyped ==
    ASSUME NEW in, Signal(in), TypeOK, Clock(in)
    PROVE  rsp_fifo' \in Seq(Pcs) /\ Len(rsp_fifo') <= 2
<1>1. Kept(in) \in Seq(Pcs) /\ Len(Kept(in)) <= Len(rsp_fifo) /\ ic_latched \in Pcs
      /\ Len(rsp_fifo) <= 2 /\ Len(rsp_fifo) \in Nat
  BY KeptIs DEF TypeOK, RSP_FIFO_ELEMENTS
<1>2. /\ Append(Kept(in), ic_latched) \in Seq(Pcs)
      /\ Len(Append(Kept(in), ic_latched)) = Len(Kept(in)) + 1
  BY <1>1
<1>3. Len(Kept(in)) \in Nat
  BY <1>1
<1>4. \/ rsp_fifo' = <<>>
      \/ rsp_fifo' = Kept(in)
      \/ Len(rsp_fifo) < 2 /\ rsp_fifo' = Append(Kept(in), ic_latched)
  BY ResponseStep
<1>5. <<>> \in Seq(Pcs) /\ Len(<<>>) = 0
  OBVIOUS
<1>6. CASE rsp_fifo' = <<>>
  BY <1>5, <1>6
<1>7. CASE rsp_fifo' = Kept(in)
  BY <1>1, <1>3, <1>7
<1>8. CASE Len(rsp_fifo) < 2 /\ rsp_fifo' = Append(Kept(in), ic_latched)
  BY <1>1, <1>2, <1>3, <1>8
<1> QED BY <1>4, <1>6, <1>7, <1>8

-----------------------------------------------------------------------------
(***************************************************************************)
(* Types.                                                                  *)
(***************************************************************************)

\* The stages of the pipe keep their types.
LEMMA StagesTyped ==
    ASSUME NEW in, Signal(in), TypeOK, Clock(in)
    PROVE  /\ pc' \in Pcs
           /\ F1' \in Stage /\ F2' \in Stage
           /\ D' \in [group : Stage, valid : BOOLEAN]
<1>1. WPC_FLUSH \in Stage /\ WPC_BUBBLE \in Stage
  BY FetchAssumption DEF WPC_FLUSH, WPC_BUBBLE, Stage, Pcs
<1>2. in.prediction \in Stage /\ in.trap_pc \in Pcs /\ in.mispredict_pc \in Pcs
  BY SignalTyped, PredictionTyped DEF TypeOK
<1>3. best_prediction(in.prediction) \in Pcs
  BY <1>2, BestTyped
<1>4. pc' \in Pcs /\ F1' \in Stage /\ F2' \in Stage
  BY <1>1, <1>2, <1>3 DEF Clock, pc_block_reg, next_pc, PCtoF1, F1_to_F2, TypeOK
<1>5. core_rsp_data_valid \in BOOLEAN
  BY DEF core_rsp_data_valid, Fifo!Valid
<1>6. D' \in [group : Stage, valid : BOOLEAN]
  BY <1>1, <1>5 DEF Clock, F2_to_DS, TypeOK
<1> QED BY <1>4, <1>6

\* A clock edge leaves every variable with its type.
LEMMA ClockTyped ==
    ASSUME NEW in, Signal(in), TypeOK, Clock(in)
    PROVE  TypeOK'
<1>1. ic_state' \in {"IDLE", "READ_CACHE_RSP", "READ_WAIT_MEM_RSP"} /\ ic_latched' \in Pcs
  <2>1. ready(in) \in BOOLEAN /\ core_req_re(in) \in BOOLEAN
    BY DEF ready, core_req_re, ICache!core_rsp_ready
  <2>2. ic_latched' \in Pcs
    BY ControllerStep DEF TypeOK
  <2> QED BY <2>2, ControllerStep
<1>2. /\ ic_hit' \in BOOLEAN /\ had_room' \in BOOLEAN /\ trapped' \in BOOLEAN
      /\ redirected' \in SUBSET Pcs
  BY SignalTyped DEF Clock, TypeOK
<1> QED BY <1>1, <1>2, StagesTyped, ResponseTyped DEF TypeOK, RSP_FIFO_ELEMENTS

\* Every register of the pipeline keeps its type.
THEOREM TypeCorrect == Spec => []TypeOK
<1>1. Init => TypeOK
  <2> SUFFICES ASSUME Init PROVE TypeOK
    OBVIOUS
  <2>1. 0 \in Pcs /\ WPC_BUBBLE \in Stage
    BY FetchAssumption DEF Stage, Pcs, WPC_BUBBLE, WPC_FLUSH
  <2>2. rsp_fifo \in Seq(Pcs) /\ Len(rsp_fifo) <= 2
    BY DEF Init
  <2> QED BY <2>1, <2>2 DEF Init, TypeOK, ICache!ControllerInit, RSP_FIFO_ELEMENTS
<1>2. TypeOK /\ [Next]_vars => TypeOK'
  <2>1. CASE Next
    BY <2>1, NextIsClock, ClockTyped
  <2>2. CASE UNCHANGED vars
    BY <2>2 DEF vars, TypeOK
  <2> QED BY <2>1, <2>2
<1> QED BY <1>1, <1>2, PTL DEF Spec

-----------------------------------------------------------------------------
(***************************************************************************)
(* The stages: a redirect empties them, a cycle without room holds them, a *)
(* cycle without a request drains F2 behind the response that is there,    *)
(* and any other moves them all.                                           *)
(***************************************************************************)

Held(g) == ~is_invalid_pc(g)

\* What the decode stage hands over when it moves.
Handed == IF Held(D.group) /\ D.valid THEN Intake(D.group) ELSE <<>>

\* A flush empties the stages and restarts at the redirect, a trap's first.
LEMMA FlushStep ==
    ASSUME NEW in, Clock(in), flush(in)
    PROVE  /\ F1' = WPC_FLUSH /\ F2' = WPC_FLUSH /\ D'.group = WPC_FLUSH
           /\ pc' = IF in.trap THEN in.trap_pc ELSE in.mispredict_pc
           /\ redirected' = {pc'}
           /\ issued' = <<>> /\ ~core_req_re(in)
BY DEF Clock, flush, pc_block_reg, next_pc, PCtoF1, F1_to_F2, F2_to_DS, issue_fire, core_req_re

\* Without room in the window nothing moves.
LEMMA HeldStep ==
    ASSUME NEW in, Clock(in), ~flush(in), ~in.room
    PROVE  /\ F1' = F1 /\ F2' = F2 /\ D' = D /\ pc' = pc /\ issued' = <<>>
           /\ redirected' = {} /\ ~core_req_re(in) /\ stall_front(in) /\ ~in.mispredict /\ ~in.trap
BY DEF Clock, pc_block_reg, next_pc, PCtoF1, F1_to_F2, F2_to_DS, issue_fire, core_req_re,
       stall_front, stall_back, flush

\* While the cache is not ready a response that is there is handed on, and nothing is asked.
LEMMA DrainStep ==
    ASSUME NEW in, Clock(in), ~flush(in), in.room, ~ready(in)
    PROVE  /\ F1' = F1 /\ pc' = pc /\ redirected' = {}
           /\ rsp_fifo = <<>> => F2' = F2 /\ D' = D /\ issued' = <<>>
           /\ rsp_fifo # <<>> =>
                  F2' = WPC_BUBBLE /\ D' = [group |-> F2, valid |-> TRUE] /\ issued' = Handed
           /\ ~core_req_re(in) /\ stall_front(in) /\ ~in.mispredict /\ ~in.trap
BY DEF Clock, pc_block_reg, next_pc, PCtoF1, F1_to_F2, F2_to_DS, issue_fire, core_req_re,
       stall_front, stall_back, flush, core_rsp_data_valid, Fifo!Valid, Handed, Held

\* When the cache is ready every stage moves on and the next group is asked for.
LEMMA MoveStep ==
    ASSUME NEW in, Clock(in), ~flush(in), in.room, ready(in)
    PROVE  /\ F1' = in.prediction /\ pc' = best_prediction(in.prediction) /\ F2' = F1
           /\ redirected' = {}
           /\ D' = [group |-> F2, valid |-> rsp_fifo # <<>>] /\ issued' = Handed
           /\ core_req_re(in) /\ ~stall_front(in) /\ ~in.mispredict /\ ~in.trap
BY DEF Clock, pc_block_reg, next_pc, PCtoF1, F1_to_F2, F2_to_DS, issue_fire, core_req_re,
       stall_front, stall_back, flush, core_rsp_data_valid, Fifo!Valid, Handed, Held

-----------------------------------------------------------------------------
(***************************************************************************)
(* Positions.                                                              *)
(***************************************************************************)

\* Before the first group after a redirect nothing is on its way.
Drained ==
    ~Held(F1) =>
        /\ ~Held(F2) /\ ~Held(D.group) /\ issued = <<>>
        /\ ~trapped => ic_state = "IDLE" /\ rsp_fifo = <<>>

\* A request being worked on is the one of F1, and its response has a place.  With
\* nothing in front of it the DRIS took nothing lately, so its room is still there.
Awaited ==
    ic_state # "IDLE" =>
        /\ Len(rsp_fifo) <= 1
        /\ ~trapped => ic_latched = F1.pc
        /\ ~trapped /\ rsp_fifo = <<>> =>
               ~Held(F2) /\ ~Held(D.group) /\ issued = <<>> /\ had_room

\* A response that came while the front was held waits behind one more.
Arrived ==
    ic_state = "IDLE" /\ Held(F1) => Len(rsp_fifo) = 2 /\ rsp_fifo[2] = F1.pc

\* The response of the group in F2 is at the head, and the words of the one in the
\* decode stage came with it.
Headed ==
    /\ Held(F2) => Len(rsp_fifo) > 0 /\ rsp_fifo[1] = F2.pc
    /\ Held(D.group) => D.valid

TrapFlushed == trapped => ~Held(F1)

InPosition == Drained /\ Awaited /\ Arrived /\ Headed /\ TrapFlushed

\* A flush keeps the stages and the cache in step.
LEMMA FlushKeeps ==
    ASSUME NEW in, Signal(in), Clock(in), TypeOK, InPosition, flush(in)
    PROVE  InPosition'
<1>1. ~Held(F1') /\ ~Held(F2') /\ ~Held(D'.group) /\ issued' = <<>> /\ ~core_req_re(in)
  BY FlushStep DEF Held, is_invalid_pc, WPC_FLUSH
<1>2. trapped' = in.trap
  BY DEF Clock
<1>3. ~trapped' => ic_state' = "IDLE" /\ rsp_fifo' = <<>>
  BY <1>2, ControllerStep, ResponseStep DEF flush
<1>4. ic_state' # "IDLE" => Len(rsp_fifo') <= 1
  <2>1. ASSUME ic_state' # "IDLE" PROVE ic_state # "IDLE" /\ rsp_fifo' = Kept(in)
    <3>1. ~in.mispredict /\ ~ready(in)
      BY <1>1, <2>1, ControllerStep
    <3>2. ic_state # "IDLE"
      BY <3>1, ReadyIs
    <3> QED BY <3>1, <3>2, ResponseStep DEF Arriving
  <2>2. ic_state # "IDLE" => Len(Kept(in)) <= 1
    <3>1. Kept(in) \in Seq(Pcs) /\ Len(Kept(in)) <= Len(rsp_fifo)
      BY KeptIs
    <3>2. ic_state # "IDLE" => Len(rsp_fifo) <= 1
      BY DEF InPosition, Awaited
    <3>3. rsp_fifo \in Seq(Pcs)
      BY DEF TypeOK
    <3> QED BY <3>1, <3>2, <3>3
  <2> QED BY <2>1, <2>2
<1> QED
  <2>1. Drained' /\ Arrived' /\ TrapFlushed'
    BY <1>1, <1>3 DEF Drained, Arrived, TrapFlushed
  <2>2. Awaited' /\ Headed'
    BY <1>1, <1>3, <1>4 DEF Awaited, Headed
  <2> QED BY <2>1, <2>2 DEF InPosition

\* So does a clock without room in the window.
LEMMA HeldKeeps ==
    ASSUME NEW in, Signal(in), Clock(in), TypeOK, InPosition, ~trapped, ~flush(in), ~in.room
    PROVE  InPosition'
<1>1. /\ F1' = F1 /\ F2' = F2 /\ D' = D /\ issued' = <<>> /\ ~core_req_re(in)
      /\ stall_front(in) /\ ~in.mispredict /\ trapped' = FALSE
  BY HeldStep, SignalTyped DEF Clock
<1>2. Kept(in) = rsp_fifo /\ rsp_fifo \in Seq(Pcs) /\ ic_latched \in Pcs
  BY <1>1, KeptIs DEF TypeOK
<1>3. ic_latched' = ic_latched
  BY <1>1, ControllerStep
<1>4. ASSUME ic_state # "IDLE" PROVE Len(rsp_fifo) = 1
  <2>1. Len(rsp_fifo) = 0 => rsp_fifo = <<>>
    BY <1>2
  <2>2. ~(issued = <<>> /\ had_room)
    BY DEF Clock, RoomIsKept
  <2>3. rsp_fifo # <<>> /\ Len(rsp_fifo) <= 1
    BY <1>4, <2>2 DEF InPosition, Awaited
  <2> QED BY <1>2, <2>1, <2>3
<1>5. CASE ic_state = "IDLE"
  <2>1. ic_state' = "IDLE" /\ rsp_fifo' = rsp_fifo
    BY <1>1, <1>2, <1>5, ControllerStep, ResponseStep, ReadyIs DEF Arriving
  <2>2. Drained'
    BY <1>1, <1>5, <2>1 DEF InPosition, Drained, Held
  <2>3. Awaited'
    BY <2>1 DEF Awaited
  <2>4. Arrived'
    BY <1>1, <1>5, <2>1 DEF InPosition, Arrived, Held
  <2> QED BY <1>1, <2>1, <2>2, <2>3, <2>4 DEF InPosition, Headed, TrapFlushed, Held
<1>6. CASE ic_state # "IDLE" /\ ready(in)
  <2>1. ic_state' = "IDLE" /\ rsp_fifo' = Append(rsp_fifo, ic_latched)
    <3>1. ic_state' = "IDLE"
      BY <1>1, <1>6, ControllerStep
    <3>2. rsp_fifo' = Append(rsp_fifo, ic_latched)
      <4>1. Arriving(in) /\ Len(rsp_fifo) < 2
        <5>1. Arriving(in)
          BY <1>1, <1>6 DEF Arriving
        <5>2. Len(rsp_fifo) = 1
          BY <1>4, <1>6
        <5> QED BY <5>1, <5>2
      <4> QED BY <1>1, <1>2, <4>1, ResponseStep
    <3> QED BY <3>1, <3>2
  <2>2. Len(rsp_fifo') = 2 /\ rsp_fifo'[2] = ic_latched /\ rsp_fifo'[1] = rsp_fifo[1]
    BY <1>2, <1>4, <1>6, <2>1
  <2>3. ic_latched = F1.pc /\ Held(F1)
    BY <1>6 DEF InPosition, Awaited, Drained
  <2> QED BY <1>1, <1>4, <1>6, <2>1, <2>2, <2>3
          DEF InPosition, Drained, Awaited, Arrived, Headed, TrapFlushed, Held
<1>7. CASE ic_state # "IDLE" /\ ~ready(in)
  <2>1. rsp_fifo' = rsp_fifo /\ ic_state' # "IDLE"
    BY <1>1, <1>2, <1>7, ControllerStep, ResponseStep DEF Arriving
  <2>2. Held(F1) /\ ic_latched = F1.pc
    BY <1>7 DEF InPosition, Drained, Awaited
  <2>5. Len(rsp_fifo) = 1
    BY <1>4, <1>7
  <2>4. Len(rsp_fifo) <= 1 /\ rsp_fifo # <<>>
    BY <1>2, <2>5
  <2>3. Awaited' /\ Drained' /\ Arrived'
    BY <1>1, <1>3, <2>1, <2>2, <2>4, Zenon DEF Awaited, Drained, Arrived
  <2> QED BY <1>1, <2>1, <2>3 DEF InPosition, Headed, TrapFlushed
<1> QED BY <1>5, <1>6, <1>7

\* So does a clock on which the cache is not ready.
LEMMA DrainKeeps ==
    ASSUME NEW in, Signal(in), Clock(in), TypeOK, InPosition, ~trapped,
           ~flush(in), in.room, ~ready(in)
    PROVE  InPosition'
<1>1. /\ F1' = F1 /\ ~core_req_re(in) /\ stall_front(in) /\ ~in.mispredict
      /\ trapped' = FALSE /\ had_room' = TRUE
  BY DrainStep, SignalTyped DEF Clock
<1>2. ic_state # "IDLE" /\ ic_state' # "IDLE" /\ ic_latched' = ic_latched
  <2>1. ic_state # "IDLE"
    BY ReadyIs
  <2>2. ic_state' \in {"READ_CACHE_RSP", "READ_WAIT_MEM_RSP"}
    BY <1>1, ControllerStep
  <2>3. ic_latched' = ic_latched
    BY <1>1, ControllerStep
  <2> QED BY <2>1, <2>2, <2>3
<1>3. rsp_fifo' = rsp_fifo
  BY <1>1, KeptIs, ResponseStep DEF Arriving
<1>4. Held(F1) /\ ic_latched = F1.pc /\ Len(rsp_fifo) <= 1
  BY <1>2 DEF InPosition, Drained, Awaited
<1>5. Drained' /\ Arrived' /\ TrapFlushed'
  BY <1>1, <1>2, <1>4 DEF Drained, Arrived, TrapFlushed
<1>6. CASE rsp_fifo = <<>>
  <2>1. F2' = F2 /\ D' = D /\ issued' = <<>>
    BY <1>6, DrainStep
  <2>2. ~Held(F2) /\ ~Held(D.group)
    BY <1>2, <1>6 DEF InPosition, Awaited
  <2>3. Awaited' /\ Headed'
    BY <1>1, <1>2, <1>3, <1>4, <2>1, <2>2, Zenon DEF Awaited, Headed
  <2> QED BY <1>5, <2>3 DEF InPosition
<1>7. CASE rsp_fifo # <<>>
  <2>1. ~Held(F2') /\ D' = [group |-> F2, valid |-> TRUE]
    BY <1>7, DrainStep DEF Held, is_invalid_pc, WPC_BUBBLE, WPC_FLUSH
  <2>2. D'.valid
    BY <2>1
  <2>3. Awaited' /\ Headed'
    BY <1>1, <1>2, <1>3, <1>4, <1>7, <2>1, <2>2, Zenon DEF Awaited, Headed
  <2> QED BY <1>5, <2>3 DEF InPosition
<1> QED BY <1>6, <1>7

\* So does a clock on which every stage moves.
LEMMA MoveKeeps ==
    ASSUME NEW in, Signal(in), Clock(in), TypeOK, InPosition, ~trapped,
           ~flush(in), in.room, ready(in)
    PROVE  InPosition'
<1>1. /\ F1' = in.prediction /\ F2' = F1 /\ D' = [group |-> F2, valid |-> rsp_fifo # <<>>]
      /\ issued' = Handed /\ core_req_re(in) /\ ~stall_front(in) /\ ~in.mispredict
      /\ trapped' = FALSE /\ had_room' = TRUE
  BY MoveStep, SignalTyped DEF Clock
<1>2. ic_state' = "READ_CACHE_RSP" /\ ic_latched' = pc
  BY <1>1, ControllerStep
<1>3. Held(F1') /\ F1'.pc = pc
  BY <1>1, SignalTyped, PredictionTyped DEF Held, is_invalid_pc, TypeOK
<1>4. rsp_fifo \in Seq(Pcs) /\ ic_latched \in Pcs
  BY DEF TypeOK
<1>5. Held(F2) => rsp_fifo # <<>>
  BY <1>4 DEF InPosition, Headed
<1>6. ASSUME Held(F1) PROVE Len(rsp_fifo') = 1 /\ rsp_fifo'[1] = F1.pc
  <2>1. CASE ic_state # "IDLE"
    <3>1. Len(rsp_fifo) <= 1 /\ ic_latched = F1.pc /\ Arriving(in)
      BY <1>1, <2>1 DEF InPosition, Awaited, Arriving
    <3>2. Kept(in) = <<>>
      BY <1>1, <3>1, KeptIs
    <3>3. rsp_fifo' = Append(<<>>, ic_latched)
      <4>1. Len(rsp_fifo) < 2
        BY <1>4, <3>1
      <4> QED BY <1>1, <3>1, <3>2, <4>1, ResponseStep
    <3> QED BY <1>4, <3>1, <3>3
  <2>2. CASE ic_state = "IDLE"
    <3>1. Len(rsp_fifo) = 2 /\ rsp_fifo[2] = F1.pc
      BY <1>6, <2>2 DEF InPosition, Arrived
    <3>2. rsp_fifo' = Kept(in)
      BY <1>1, <2>2, ResponseStep DEF Arriving
    <3> QED BY <1>1, <3>1, <3>2, KeptIs
  <2> QED BY <2>1, <2>2
<1>7. ASSUME ~Held(F1) PROVE rsp_fifo' = <<>> /\ ~Held(F2) /\ issued' = <<>>
  <2>1. ic_state = "IDLE" /\ rsp_fifo = <<>> /\ ~Held(F2) /\ ~Held(D.group)
    BY <1>7 DEF InPosition, Drained
  <2>2. rsp_fifo' = Kept(in)
    BY <1>1, <2>1, ResponseStep DEF Arriving
  <2> QED BY <1>1, <2>1, <2>2 DEF Kept, Handed
<1>8. Len(rsp_fifo') <= 1 /\ (rsp_fifo' = <<>> => ~Held(F1))
  <2>1. Len(<<>>) = 0
    OBVIOUS
  <2>2. CASE Held(F1)
    <3>1. Len(rsp_fifo') = 1
      BY <1>6, <2>2
    <3> QED BY <2>1, <3>1
  <2>3. CASE ~Held(F1)
    BY <1>7, <2>1, <2>3
  <2> QED BY <2>2, <2>3
<1>9. Awaited'
  <2>1. Held(F1) \/ (~Held(F2) /\ issued' = <<>>)
    BY <1>7
  <2>2. D'.group = F2
    BY <1>1
  <2> QED BY <1>1, <1>2, <1>3, <1>8, <2>1, <2>2, Zenon DEF Awaited
<1>10. Headed'
  <2>1. Held(F2') => Len(rsp_fifo') > 0 /\ rsp_fifo'[1] = F2'.pc
    BY <1>1, <1>6
  <2>2. Held(D'.group) => D'.valid
    BY <1>1, <1>5
  <2> QED BY <2>1, <2>2 DEF Headed
<1>11. Drained' /\ Arrived' /\ TrapFlushed'
  BY <1>1, <1>2, <1>3 DEF Drained, Arrived, TrapFlushed
<1> QED BY <1>9, <1>10, <1>11 DEF InPosition

\* Responses and groups stay in step, whatever the cache, the bus, the shelf and the
\* DRIS do.
THEOREM PositionInvariant == Spec => []InPosition
<1>1. Init => InPosition
  <2> SUFFICES ASSUME Init PROVE InPosition
    OBVIOUS
  <2>1. ~Held(F1) /\ ~Held(F2) /\ ~Held(D.group)
    BY DEF Init, Held, is_invalid_pc, WPC_BUBBLE, WPC_FLUSH
  <2> QED BY <2>1 DEF Init, ICache!ControllerInit, InPosition, Drained, Awaited, Arrived,
                      Headed, TrapFlushed
<1>2. TypeOK /\ InPosition /\ [Next]_vars => InPosition'
  <2> SUFFICES ASSUME TypeOK, InPosition, [Next]_vars PROVE InPosition'
    OBVIOUS
  <2>1. CASE Next
    <3>1. PICK in : Signal(in) /\ Clock(in) /\ (trapped => in.trap)
      BY <2>1, NextIsClock
    <3>2. flush(in) \/ ~trapped
      BY <3>1 DEF flush
    <3> QED BY <3>1, <3>2, FlushKeeps, HeldKeeps, DrainKeeps, MoveKeeps
  <2>2. CASE UNCHANGED vars
    BY <2>2 DEF vars, InPosition, Drained, Awaited, Arrived, Headed, TrapFlushed, Held
  <2> QED BY <2>1, <2>2
<1> QED BY <1>1, <1>2, TypeCorrect, PTL DEF Spec

\* fetch_position_assertion: the response at the head belongs to the group in F2.
THEOREM PositionCorrect == Spec => []FetchPosition
<1>1. TypeOK /\ InPosition => FetchPosition
  <2>1. TypeOK /\ rsp_fifo # <<>> => Head(rsp_fifo) = rsp_fifo[1]
    BY DEF TypeOK
  <2> QED BY <2>1 DEF InPosition, Headed, Held, FetchPosition, core_rsp_data_valid, Fifo!Valid
<1> QED BY <1>1, TypeCorrect, PositionInvariant, PTL

\* No response ever meets a full FIFO.
THEOREM ResponsesFit == Spec => []NoOverflow
<1>1. TypeOK /\ InPosition => NoOverflow
  <2> SUFFICES ASSUME TypeOK, InPosition, NEW in \in Signals(FALSE, FALSE),
                      ICache!fifo_enable(Seam(in))
               PROVE  Fifo!Fits(rsp_fifo, RSP_FIFO_ELEMENTS)
    BY DEF NoOverflow
  <2>1. ic_state # "IDLE"
    BY DEF ICache!fifo_enable
  <2>2. Len(rsp_fifo) <= 1 /\ Len(rsp_fifo) \in Nat
    BY <2>1 DEF InPosition, Awaited, TypeOK
  <2> QED BY <2>2 DEF Fifo!Fits, RSP_FIFO_ELEMENTS
<1> QED BY <1>1, TypeCorrect, PositionInvariant, PTL

-----------------------------------------------------------------------------
(***************************************************************************)
(* Rows.  A group of a whole block's slots ends with its row, or before.   *)
(***************************************************************************)

\* An address is a place in a row that ends inside memory.
LEMMA RowOf ==
    ASSUME NEW p \in Pcs, FETCH_WORDS = BLOCK_SIZE
    PROVE  \E q \in Nat : /\ p = FETCH_WORDS * q + (p % FETCH_WORDS)
                          /\ FETCH_WORDS * q + FETCH_WORDS <= NUM_WORDS
                          /\ (FETCH_WORDS * q + FETCH_WORDS) % FETCH_WORDS = 0
<1> DEFINE r == p % FETCH_WORDS
           q == p \div FETCH_WORDS
           k == NUM_WORDS \div FETCH_WORDS
<1>1. FETCH_WORDS \in Nat \ {0} /\ p \in Nat /\ p < NUM_WORDS /\ NUM_WORDS \in Nat
  BY FetchAssumption DEF Pcs
<1>2. q \in Nat /\ p = FETCH_WORDS * q + r /\ r \in 0 .. FETCH_WORDS - 1
  BY <1>1
<1>3. k \in Nat /\ NUM_WORDS = FETCH_WORDS * k
  <2>1. k \in Nat /\ NUM_WORDS = FETCH_WORDS * k + (NUM_WORDS % FETCH_WORDS)
    BY <1>1
  <2>2. NUM_WORDS % FETCH_WORDS = 0 /\ FETCH_WORDS * k \in Nat
    BY <1>1, <2>1, FetchAssumption
  <2> HIDE DEF k
  <2> QED BY <2>1, <2>2
<1> HIDE DEF q, r, k
<1>4. FETCH_WORDS * q < FETCH_WORDS * k
  BY <1>1, <1>2, <1>3
<1>5. q + 1 <= k
  BY <1>1, <1>2, <1>3, <1>4
<1>6. FETCH_WORDS * (q + 1) <= FETCH_WORDS * k
  BY <1>1, <1>2, <1>3, <1>5
<1>7. FETCH_WORDS * (q + 1) = FETCH_WORDS * q + FETCH_WORDS
  BY <1>1, <1>2
<1>8. (FETCH_WORDS * (q + 1)) % FETCH_WORDS = 0
  BY <1>1, <1>2
<1> QED BY <1>2, <1>3, <1>6, <1>7, <1>8 DEF r

\* The address after a slot that is not the last of its row does not start a block.
LEMMA InRow ==
    ASSUME FETCH_WORDS = BLOCK_SIZE, NEW p \in Pcs,
           NEW v \in Nat \ {0}, v + (p % FETCH_WORDS) < FETCH_WORDS
    PROVE  Wrap(p + v) % BLOCK_SIZE # 0
<1> DEFINE r == p % FETCH_WORDS
<1>1. PICK q \in Nat : /\ p = FETCH_WORDS * q + r
                       /\ FETCH_WORDS * q + FETCH_WORDS <= NUM_WORDS
  BY RowOf
<1>2. /\ FETCH_WORDS \in Nat \ {0} /\ r \in 0 .. FETCH_WORDS - 1 /\ p \in Nat
      /\ NUM_WORDS \in Nat /\ v + r < FETCH_WORDS
  BY FetchAssumption DEF Pcs
<1> HIDE DEF r
<1> DEFINE m == FETCH_WORDS * q
<1>3. m \in Nat
  BY <1>2
<1>4. (m + (r + v)) % FETCH_WORDS = r + v
  BY <1>2
<1>5. p + v < NUM_WORDS /\ p + v = m + (r + v)
  <2> HIDE DEF m
  <2> QED BY <1>1, <1>2, <1>3 DEF m
<1>6. Wrap(p + v) = m + (r + v)
  <2> HIDE DEF m
  <2> QED BY <1>2, <1>3, <1>5 DEF Wrap
<1>7. r + v # 0
  BY <1>2
<1> HIDE DEF m
<1> QED BY <1>4, <1>6, <1>7

\* The address after the last slot of a row starts a block.
LEMMA RowEnd ==
    ASSUME FETCH_WORDS = BLOCK_SIZE, NEW p \in Pcs
    PROVE  Wrap(p - (p % FETCH_WORDS) + FETCH_WORDS) % BLOCK_SIZE = 0
<1> DEFINE r == p % FETCH_WORDS
<1>1. PICK q \in Nat : /\ p = FETCH_WORDS * q + r
                       /\ FETCH_WORDS * q + FETCH_WORDS <= NUM_WORDS
                       /\ (FETCH_WORDS * q + FETCH_WORDS) % FETCH_WORDS = 0
  BY RowOf
<1>2. /\ FETCH_WORDS \in Nat \ {0} /\ r \in 0 .. FETCH_WORDS - 1 /\ p \in Nat
      /\ NUM_WORDS \in Nat
  BY FetchAssumption DEF Pcs
<1> HIDE DEF r
<1> DEFINE m == FETCH_WORDS * q
<1>3. m \in Nat
  BY <1>2
<1> HIDE DEF m
<1>4. p - r + FETCH_WORDS = m + FETCH_WORDS
  BY <1>1, <1>2, <1>3 DEF m
<1>5. Wrap(m + FETCH_WORDS) \in {m + FETCH_WORDS, 0}
  <2>1. m + FETCH_WORDS <= NUM_WORDS
    BY <1>1 DEF m
  <2> QED BY <1>2, <1>3, <2>1 DEF Wrap
<1>6. 0 % FETCH_WORDS = 0
  BY <1>2
<1>7. (m + FETCH_WORDS) % FETCH_WORDS = 0
  BY <1>1 DEF m
<1> QED BY <1>4, <1>5, <1>6, <1>7 DEF r

-----------------------------------------------------------------------------
(***************************************************************************)
(* Groups.  A group hands over its slots up to the first predicted taken,  *)
(* or up to the end of its row, and the last one's prediction is where     *)
(* fetch went on.                                                          *)
(***************************************************************************)

\* What the predictor says of a group: a slot it predicts taken lies in the first
\* slot's row.
Foreseen(g) == g \in Stage /\ (g.taken < FETCH_WORDS => in_group(g.pc, g.taken))

LastSlot(g) == IF g.taken < FETCH_WORDS THEN g.taken ELSE FETCH_WORDS - 1 - (g.pc % FETCH_WORDS)

\* The ranges of the fields of a stage.
LEMMA StageFields ==
    ASSUME NEW g \in Stage
    PROVE  /\ g.pc \in Pcs /\ g.pc \in Nat /\ g.pc < NUM_WORDS
           /\ g.taken \in 0 .. FETCH_WORDS /\ g.target \in Pcs
           /\ FETCH_WORDS \in Nat \ {0} /\ NUM_WORDS \in Nat /\ FETCH_WORDS < NUM_WORDS
           /\ g.pc % FETCH_WORDS \in 0 .. FETCH_WORDS - 1
BY FetchAssumption DEF Stage, Pcs

\* The last slot of a group lies in its row and not behind the taken branch.
LEMMA LastSlotIs ==
    ASSUME NEW g, Foreseen(g)
    PROVE  /\ LastSlot(g) \in 0 .. FETCH_WORDS - 1
           /\ LastSlot(g) + (g.pc % FETCH_WORDS) < FETCH_WORDS
           /\ LastSlot(g) <= g.taken
<1> DEFINE r == g.pc % FETCH_WORDS
<1>1. FETCH_WORDS \in Nat \ {0} /\ r \in 0 .. FETCH_WORDS - 1 /\ g.taken \in 0 .. FETCH_WORDS
  BY StageFields DEF Foreseen
<1>2. g.taken < FETCH_WORDS => r <= FETCH_WORDS - 1 - g.taken
  BY DEF Foreseen, in_group
<1>3. LastSlot(g) = IF g.taken < FETCH_WORDS THEN g.taken ELSE FETCH_WORDS - 1 - r
  BY DEF LastSlot
<1> HIDE DEF r
<1>4. LastSlot(g) \in 0 .. FETCH_WORDS - 1 /\ LastSlot(g) + r < FETCH_WORDS /\ LastSlot(g) <= g.taken
  BY <1>1, <1>2, <1>3
<1> QED BY <1>4 DEF r

\* A slot that is not predicted taken is followed by the next word.
LEMMA NextWord ==
    ASSUME NEW g \in Stage, NEW v \in Nat \ {0}, v - 1 # g.taken
    PROVE  block_pc(g, v) = predicted_pc_block(g, v - 1)
<1>1. g.pc + (v - 1) + 1 = g.pc + v
  BY StageFields
<1>2. predicted_pc_block(g, v - 1) = Wrap(g.pc + (v - 1) + 1)
  BY DEF predicted_pc_block
<1> QED BY <1>1, <1>2 DEF block_pc

\* The slots that are valid are those up to the last one.
LEMMA SlotsAre ==
    ASSUME FETCH_WORDS = BLOCK_SIZE, NEW g, Foreseen(g)
    PROVE  valid_slots(g) = 0 .. LastSlot(g)
<1> DEFINE last == LastSlot(g)
           r == g.pc % FETCH_WORDS
<1>1. /\ g \in Stage /\ g.pc \in Pcs /\ g.pc \in Nat /\ g.taken \in 0 .. FETCH_WORDS
      /\ FETCH_WORDS \in Nat \ {0}
  BY StageFields DEF Foreseen
<1>2. last \in 0 .. FETCH_WORDS - 1 /\ last + r < FETCH_WORDS /\ last <= g.taken
  BY LastSlotIs
<1>3. r \in 0 .. FETCH_WORDS - 1
  BY <1>1
<1>4. ASSUME NEW w \in 0 .. FETCH_WORDS - 1, w <= last, NEW v \in 1 .. w
      PROVE  /\ v - 1 # g.taken
             /\ block_pc(g, v) = predicted_pc_block(g, v - 1)
             /\ block_pc(g, v) % BLOCK_SIZE # 0
  <2>1. v \in Nat \ {0} /\ v + r < FETCH_WORDS /\ v - 1 # g.taken
    <3> HIDE DEF r, last
    <3> QED BY <1>1, <1>2, <1>3, <1>4
  <2>2. Wrap(g.pc + v) % BLOCK_SIZE # 0
    BY <1>1, <2>1, InRow
  <2> QED BY <1>1, <2>1, <2>2, NextWord DEF block_pc
<1>5. ASSUME NEW w \in 0 .. FETCH_WORDS - 1, ~(w <= last)
      PROVE  \E v \in 1 .. w : v - 1 = g.taken \/ block_pc(g, v) % BLOCK_SIZE = 0
  <2>1. last + 1 \in 1 .. w
    <3> HIDE DEF last
    <3> QED BY <1>1, <1>2, <1>5
  <2>2. CASE g.taken < FETCH_WORDS
    <3>1. (last + 1) - 1 = g.taken
      BY <1>1, <2>2 DEF LastSlot
    <3> QED BY <2>1, <3>1
  <2>3. CASE ~(g.taken < FETCH_WORDS)
    <3>1. last = FETCH_WORDS - 1 - r
      BY <2>3 DEF LastSlot
    <3>2. g.pc + (last + 1) = g.pc - r + FETCH_WORDS
      <4> HIDE DEF r, last
      <4> QED BY <1>1, <1>3, <3>1
    <3>3. Wrap(g.pc - r + FETCH_WORDS) % BLOCK_SIZE = 0
      BY <1>1, RowEnd
    <3>4. block_pc(g, last + 1) % BLOCK_SIZE = 0
      BY <3>2, <3>3 DEF block_pc
    <3> QED BY <2>1, <3>4
  <2> QED BY <2>2, <2>3
<1>6. \A w \in 0 .. FETCH_WORDS - 1 : w \in valid_slots(g) <=> w <= last
  <2>1. ASSUME NEW w \in 0 .. FETCH_WORDS - 1, w <= last PROVE w \in valid_slots(g)
    BY <1>4, <2>1 DEF valid_slots
  <2>2. ASSUME NEW w \in 0 .. FETCH_WORDS - 1, ~(w <= last) PROVE w \notin valid_slots(g)
    BY <1>5, <2>2 DEF valid_slots
  <2> QED BY <2>1, <2>2
<1>7. valid_slots(g) \subseteq 0 .. FETCH_WORDS - 1
  BY DEF valid_slots
<1>8. \A w : w \in 0 .. last <=> w \in 0 .. FETCH_WORDS - 1 /\ w <= last
  <2> HIDE DEF last
  <2> QED BY <1>1, <1>2
<1> QED BY <1>6, <1>7, <1>8

\* The last slot predicts what the group predicts.
LEMMA LastPredicts ==
    ASSUME NEW g, Foreseen(g)
    PROVE  predicted_pc_block(g, LastSlot(g)) = best_prediction(g)
<1>1. g \in Stage /\ g.taken \in 0 .. FETCH_WORDS /\ FETCH_WORDS \in Nat \ {0} /\ g.pc \in Nat
  BY StageFields DEF Foreseen
<1>2. CASE g.taken < FETCH_WORDS
  BY <1>2 DEF LastSlot, predicted_pc_block, best_prediction
<1>3. CASE ~(g.taken < FETCH_WORDS)
  <2> DEFINE r == g.pc % FETCH_WORDS
  <2>1. r \in 0 .. FETCH_WORDS - 1 /\ LastSlot(g) = FETCH_WORDS - 1 - r
    BY <1>1, <1>3 DEF LastSlot
  <2>2. best_prediction(g) = Wrap(g.pc - r + FETCH_WORDS)
    BY <1>3 DEF best_prediction, seq_next_block
  <2> HIDE DEF r
  <2>3. LastSlot(g) # g.taken /\ g.pc + LastSlot(g) + 1 = g.pc - r + FETCH_WORDS
    BY <1>1, <1>3, <2>1
  <2> QED BY <2>2, <2>3 DEF predicted_pc_block
<1> QED BY <1>2, <1>3

\* The instructions handed over from a group follow each other by their predictions.
LEMMA IntakeIs ==
    ASSUME FETCH_WORDS = BLOCK_SIZE, NEW g, Foreseen(g)
    PROVE  LET group == Intake(g) IN
           /\ group # <<>> /\ Len(group) \in 1 .. FETCH_WORDS
           /\ group[1].pc = g.pc
           /\ \A w \in 2 .. Len(group) : group[w].pc = group[w - 1].pred
           /\ group[Len(group)].pred = best_prediction(g)
<1> DEFINE last == LastSlot(g)
           slot(n) == [pc |-> block_pc(g, n - 1), pred |-> predicted_pc_block(g, n - 1)]
           group == Intake(g)
<1>1. g \in Stage /\ last \in Nat /\ last < FETCH_WORDS /\ last <= g.taken /\ g.pc \in Pcs
      /\ g.taken \in Nat /\ FETCH_WORDS \in Nat
  BY LastSlotIs, StageFields DEF Foreseen
<1>2. {w + 1 : w \in valid_slots(g)} = 1 .. last + 1
  <2>1. valid_slots(g) = 0 .. last
    BY SlotsAre
  <2> HIDE DEF last
  <2>2. ASSUME NEW n PROVE n \in {w + 1 : w \in 0 .. last} <=> n \in 1 .. last + 1
    <3>1. ASSUME n \in 1 .. last + 1 PROVE n \in {w + 1 : w \in 0 .. last}
      <4>1. n - 1 \in 0 .. last /\ n = (n - 1) + 1
        BY <1>1, <3>1
      <4> QED BY <4>1
    <3>2. ASSUME n \in {w + 1 : w \in 0 .. last} PROVE n \in 1 .. last + 1
      BY <1>1, <3>2
    <3> QED BY <3>1, <3>2
  <2> QED BY <2>1, <2>2
<1>3. group = [n \in 1 .. last + 1 |-> slot(n)]
  BY <1>2, Zenon DEF Intake
<1>4. Len(group) = last + 1
  <2> HIDE DEF last, slot
  <2>1. DOMAIN [n \in 1 .. last + 1 |-> slot(n)] = 1 .. last + 1
    OBVIOUS
  <2> HIDE DEF group
  <2> QED BY <1>1, <1>3, <2>1
<1>5. \A n \in 1 .. last + 1 :
          group[n].pc = block_pc(g, n - 1) /\ group[n].pred = predicted_pc_block(g, n - 1)
  <2> HIDE DEF last, group
  <2> QED BY <1>3
<1> HIDE DEF group, last
<1>6. group # <<>> /\ Len(group) \in 1 .. FETCH_WORDS
  <2>1. Len(<<>>) = 0
    OBVIOUS
  <2>2. Len(group) \in 1 .. FETCH_WORDS
    BY <1>1, <1>4
  <2>3. Len(group) # 0
    BY <1>1, <1>4
  <2> QED BY <2>1, <2>2, <2>3
<1>7. group[1].pc = g.pc
  <2>1. group[1].pc = block_pc(g, 1 - 1)
    BY <1>1, <1>5
  <2>2. block_pc(g, 0) = g.pc
    BY <1>1, FetchAssumption DEF block_pc, Wrap, Pcs
  <2> QED BY <2>1, <2>2
<1>8. ASSUME NEW w \in 2 .. Len(group) PROVE group[w].pc = group[w - 1].pred
  <2>1. w \in 1 .. last + 1 /\ w - 1 \in 1 .. last + 1 /\ w - 1 \in Nat \ {0}
        /\ (w - 1) - 1 # g.taken
    BY <1>1, <1>4
  <2>2. block_pc(g, w - 1) = predicted_pc_block(g, (w - 1) - 1)
    BY <1>1, <2>1, NextWord
  <2> QED BY <1>5, <2>1, <2>2
<1>9. group[Len(group)].pred = best_prediction(g)
  <2>1. last + 1 \in 1 .. last + 1 /\ (last + 1) - 1 = last
    BY <1>1
  <2>2. group[last + 1].pred = predicted_pc_block(g, last)
    BY <1>5, <2>1
  <2> QED BY <1>4, <2>2, LastPredicts DEF last
<1> QED BY <1>6, <1>7, <1>8, <1>9 DEF group

-----------------------------------------------------------------------------
(***************************************************************************)
(* The stream.  Every stage starts where the one in front of it predicts,  *)
(* and the pc where F1 does, so that what leaves the decode stage is what  *)
(* FetchStream promises, step for step.                                    *)
(***************************************************************************)

OnPath ==
    /\ Held(F1) => Foreseen(F1) /\ pc = best_prediction(F1)
    /\ Held(F2) => Foreseen(F2) /\ F1.pc = best_prediction(F2)
    /\ Held(D.group) =>
           Foreseen(D.group)
           /\ (IF Held(F2) THEN F2.pc ELSE F1.pc) = best_prediction(D.group)

\* A clock edge keeps every stage on the path its predecessor predicts.
LEMMA PathKept ==
    ASSUME NEW in, Signal(in), Clock(in), TypeOK, InPosition, OnPath
    PROVE  OnPath'
<1>1. CASE flush(in)
  <2>1. ~Held(F1') /\ ~Held(F2') /\ ~Held(D'.group)
    BY <1>1, FlushStep DEF Held, is_invalid_pc, WPC_FLUSH
  <2> QED BY <2>1 DEF OnPath
<1>2. CASE ~flush(in) /\ ~in.room
  <2>1. F1' = F1 /\ F2' = F2 /\ D' = D /\ pc' = pc
    BY <1>2, HeldStep
  <2> QED BY <2>1 DEF OnPath, Foreseen, Held, in_group
<1>3. CASE ~flush(in) /\ in.room /\ ~ready(in)
  <2>1. F1' = F1 /\ pc' = pc
    BY <1>3, DrainStep
  <2>2. CASE rsp_fifo = <<>>
    <3>1. F2' = F2 /\ D' = D
      BY <1>3, <2>2, DrainStep
    <3> QED BY <2>1, <3>1 DEF OnPath
  <2>3. CASE rsp_fifo # <<>>
    <3>1. ~Held(F2') /\ D'.group = F2
      BY <1>3, <2>3, DrainStep DEF Held, is_invalid_pc, WPC_BUBBLE, WPC_FLUSH
    <3> QED BY <2>1, <3>1 DEF OnPath
  <2> QED BY <2>2, <2>3
<1>4. CASE ~flush(in) /\ in.room /\ ready(in)
  <2>1. F1' = in.prediction /\ pc' = best_prediction(F1') /\ F2' = F1 /\ D'.group = F2
    BY <1>4, MoveStep
  <2>2. F1'.pc = pc /\ Foreseen(F1')
    BY <2>1, SignalTyped, PredictionTyped DEF TypeOK, Foreseen
  <2>3. Held(F2) => Held(F1)
    BY DEF InPosition, Drained
  <2> QED BY <2>1, <2>2, <2>3 DEF OnPath
<1> QED BY <1>1, <1>2, <1>3, <1>4

\* Where the stream goes on behind the decode stage.
Behind == IF Held(F2) THEN F2.pc ELSE IF Held(F1) THEN F1.pc ELSE pc

\* The next address of the stream is that of the oldest group held.
LEMMA StreamPcIs ==
    ASSUME InPosition
    PROVE  StreamPc = IF Held(D.group) THEN D.group.pc ELSE Behind
BY DEF StreamPc, Behind, Held, InPosition, Headed

\* The decode stage hands its group over, if it holds one, and the stream goes on
\* behind it.
LEMMA HandOver ==
    ASSUME FETCH_WORDS = BLOCK_SIZE, TypeOK, InPosition, OnPath,
           issued' = Handed, StreamPc' = Behind, redirected' = {}
    PROVE  Stream!Next
<1>1. CASE Held(D.group)
  <2>1. D.valid /\ Held(F1) /\ Foreseen(D.group)
    BY <1>1 DEF InPosition, Headed, Drained, OnPath
  <2>2. issued' = Intake(D.group)
    BY <1>1, <2>1 DEF Handed
  <2>3. Behind = best_prediction(D.group)
    BY <1>1, <2>1 DEF Behind, OnPath
  <2>4. StreamPc = D.group.pc
    BY <1>1, StreamPcIs
  <2>5. /\ issued' # <<>> /\ Len(issued') \in 1 .. FETCH_WORDS
        /\ issued'[1].pc = D.group.pc
        /\ \A w \in 2 .. Len(issued') : issued'[w].pc = issued'[w - 1].pred
        /\ issued'[Len(issued')].pred = best_prediction(D.group)
    BY <2>1, <2>2, IntakeIs
  <2>6. Len(issued') <= FETCH_WORDS
    BY <2>5, FetchAssumption
  <2>7. Stream!Follows(issued')
    BY <2>4, <2>5, <2>6 DEF Stream!Follows
  <2> QED BY <2>3, <2>5, <2>7 DEF Stream!Next, Stream!Deliver
<1>2. CASE ~Held(D.group)
  <2>1. issued' = <<>> /\ StreamPc' = StreamPc
    BY <1>2, StreamPcIs DEF Handed
  <2> QED BY <2>1 DEF Stream!Next, Stream!Idle
<1> QED BY <1>1, <1>2

\* A clock edge is a step of the stream, or leaves it alone.
LEMMA StreamStep ==
    ASSUME FETCH_WORDS = BLOCK_SIZE,
           NEW in, Signal(in), Clock(in), TypeOK, InPosition, OnPath, InPosition'
    PROVE  Stream!Next
<1>0. StreamPc' = IF Held(D'.group) THEN D'.group.pc ELSE Behind'
  BY DEF StreamPc, Behind, Held, InPosition, Headed
<1>1. CASE flush(in)
  <2>1. /\ ~Held(F1') /\ ~Held(F2') /\ ~Held(D'.group) /\ issued' = <<>>
        /\ pc' \in Pcs /\ redirected' = {pc'}
    BY <1>1, FlushStep, SignalTyped DEF Held, is_invalid_pc, WPC_FLUSH
  <2>2. StreamPc' = pc'
    BY <1>0, <2>1 DEF Behind
  <2> QED BY <2>1, <2>2 DEF Stream!Next, Stream!Redirect
<1>2. CASE ~flush(in) /\ ~in.room
  <2>1. /\ F1' = F1 /\ F2' = F2 /\ D' = D /\ pc' = pc
        /\ issued' = <<>> /\ redirected' = {}
    BY <1>2, HeldStep
  <2> QED BY <2>1 DEF Stream!Next, Stream!Idle, StreamPc
<1>3. CASE ~flush(in) /\ in.room /\ ~ready(in)
  <2>1. F1' = F1 /\ pc' = pc /\ redirected' = {}
    BY <1>3, DrainStep
  <2>2. CASE rsp_fifo = <<>>
    <3>1. F2' = F2 /\ D' = D /\ issued' = <<>>
      BY <1>3, <2>2, DrainStep
    <3> QED BY <2>1, <3>1 DEF Stream!Next, Stream!Idle, StreamPc
  <2>3. CASE rsp_fifo # <<>>
    <3>1. ~Held(F2') /\ D'.group = F2 /\ issued' = Handed
      BY <1>3, <2>3, DrainStep DEF Held, is_invalid_pc, WPC_BUBBLE, WPC_FLUSH
    <3>2. StreamPc' = Behind
      BY <1>0, <2>1, <3>1 DEF Behind
    <3> QED BY <2>1, <3>1, <3>2, HandOver
  <2> QED BY <2>2, <2>3
<1>4. CASE ~flush(in) /\ in.room /\ ready(in)
  <2>1. /\ F1' = in.prediction /\ F2' = F1 /\ D'.group = F2
        /\ issued' = Handed /\ redirected' = {}
    BY <1>4, MoveStep
  <2>2. Held(F1') /\ F1'.pc = pc
    BY <2>1, SignalTyped, PredictionTyped DEF TypeOK, Held, is_invalid_pc
  <2>3. StreamPc' = Behind
    BY <1>0, <2>1, <2>2 DEF Behind
  <2> QED BY <2>1, <2>3, HandOver
<1> QED BY <1>1, <1>2, <1>3, <1>4

\* Every group in the pipe starts where the group before it predicts, whatever was
\* predicted, flushed, refused or delayed on the way.
THEOREM PathInvariant == Spec => []OnPath
<1>1. Init => OnPath
  BY DEF Init, OnPath, Held, is_invalid_pc, WPC_BUBBLE, WPC_FLUSH
<1>2. TypeOK /\ InPosition /\ OnPath /\ [Next]_vars => OnPath'
  <2>1. CASE Next
    BY <2>1, NextIsClock, PathKept
  <2>2. CASE UNCHANGED vars
    BY <2>2 DEF vars, OnPath
  <2> QED BY <2>1, <2>2
<1> QED BY <1>1, <1>2, TypeCorrect, PositionInvariant, PTL DEF Spec

\* What the DRIS takes in is one unbroken stream along the predicted path: no
\* instruction is lost, none comes twice, and only a flush moves the stream, to the
\* trap's pc, or else to the mispredicted branch's.  It takes a fetch group as long
\* as a cache block, as the default build has it: with a shorter one a run shows the
\* stream broken.
THEOREM StreamFollowed ==
    ASSUME FETCH_WORDS = BLOCK_SIZE
    PROVE  Spec => FollowsStream
<1>1. Init => Stream!Init
  BY FetchAssumption DEF Init, Stream!Init, StreamPc, Pcs, is_invalid_pc, WPC_BUBBLE, WPC_FLUSH
<1>2. TypeOK /\ InPosition /\ OnPath /\ InPosition' /\ [Next]_vars
          => [Stream!Next]_<<StreamPc, issued, redirected>>
  <2>1. CASE Next
    BY <2>1, NextIsClock, StreamStep
  <2>2. CASE UNCHANGED vars
    BY <2>2 DEF vars, StreamPc
  <2> QED BY <2>1, <2>2
<1> QED
  BY <1>1, <1>2, TypeCorrect, PositionInvariant, PathInvariant, PTL
     DEF Spec, FollowsStream, Stream!Spec

=============================================================================
