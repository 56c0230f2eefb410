--------------------------- MODULE LightningCore ---------------------------
(***************************************************************************)
(* rtl/ooo/LightningCore.sv: the out-of-order core, one step per clock     *)
(* edge.  Every register of the DRIS, the branch shelf, the retirement     *)
(* stage and the issue stage changes in the same step, each from the       *)
(* values registered before it.                                            *)
(*                                                                         *)
(* Two neighbours are reduced to what the core can see of them:            *)
(*   - fetch delivers any group of at most FETCH_WAYS instructions in any  *)
(*     cycle that is neither stalled nor flushing (the pipeline in front   *)
(*     of it is FetchPipe's subject);                                      *)
(*   - the blocking D-cache holds one request in its probe stage, for any  *)
(*     number of cycles, says ready when the stage is empty or finishes,   *)
(*     and shows a load's response in the cycle after (`rsp`).             *)
(***************************************************************************)
EXTENDS Schedulers

VARIABLES
    fetch_ptr,    \* InstructionIssueUnit's allocation pointer
    issue_reg,    \* the packets in the execute ways (issue_pkts_reg)
    probe,        \* the request the D-cache is working on: none or one
    rsp           \* the load response at the head of its FIFO: none or one

vars == <<dris, shelf, retire_ptr, fetch_ptr, issue_reg, probe, rsp>>

Init ==
    /\ DrisInit
    /\ ShelfInit
    /\ retire_ptr = 0
    /\ fetch_ptr = 0
    /\ issue_reg = {}
    /\ probe = {}
    /\ rsp = {}
-----------------------------------------------------------------------------
occupancy == Distance(retire_ptr, fetch_ptr)

dris_full == DRIS_NUM_ENTRIES - occupancy < FETCH_WAYS

shelf_full == shelf_free_count < FETCH_WAYS

\* What D may hand over: nothing, or as much as a whole group.
FetchGroups ==
    IF dris_full \/ shelf_full
    THEN {<<>>}
    ELSE UNION {[1 .. n -> Instrs] : n \in 0 .. FETCH_WAYS}

writeback_pkts == issue_reg \cup rsp

\* History: a packet stays live until its instruction leaves the DRIS.
Outlive(pkts, cleared) ==
    {[p EXCEPT !.live = @ /\ id_index(p.id) \notin cleared] : p \in pkts}

mem_issue_pkts(d_cache_ready) ==
    {[id |-> At(s).id, op |-> At(s).instr.op, mem |-> TRUE, live |-> TRUE] :
        s \in MemSelected(d_cache_ready)}

\* One edge.  `done` says the D-cache finishes the request it holds.
Clock(group, done, global_flush) ==
    LET ready   == probe = {} \/ done
        born    == fetch_write_mask(group, fetch_ptr)
        cleared == retire_vector(ready) \cup flush_mask
        request == mem_issue_pkts(ready)
    IN  /\ done => probe # {}
        /\ \E accesses \in [Targets(AguPasses(writeback_pkts, born)) -> Accesses] :
              DrisNext(group, fetch_ptr, writeback_pkts, accesses,
                       set_dispatched \cup set_dispatched_mem(ready), cleared)
        /\ \E wrong \in SUBSET Snooped(writeback_pkts) :
              ShelfNext(group, fetch_ptr, writeback_pkts, wrong, global_flush)
        /\ RetireNext(ready)
        /\ issue_reg' = Outlive(issue_pkts, cleared)
        /\ rsp' = IF done
                  THEN {p \in Outlive(probe, cleared) : p.op = "load"}
                  ELSE {}
        /\ probe' = Outlive(IF ready THEN request ELSE probe, cleared)

\* No redirect: fetch may deliver a group.
Advance(done) ==
    /\ ~trap_valid
    /\ ~mispredict_valid
    /\ \E group \in FetchGroups :
          /\ Clock(group, done, FALSE)
          /\ fetch_ptr' = slot_id(fetch_ptr, Len(group))

\* Fault: the repaired pointer loses its lap colour.
RepairColourless(done) ==
    /\ ~trap_valid
    /\ mispredict_valid
    /\ Clock(<<>>, done, FALSE)
    /\ \E k \in mispredict_branch : fetch_ptr' = id_index(slot_id(shelf[k].branch_id, 1))

\* A WRONG branch: everything younger is flushed and allocation resumes behind it.
Repair(done) ==
    /\ ~trap_valid
    /\ mispredict_valid
    /\ Clock(<<>>, done, FALSE)
    /\ \E k \in mispredict_branch : fetch_ptr' = slot_id(shelf[k].branch_id, 1)

\* Fault: a trap leaves the shelf as it is.
TrapKeepsShelf(done) ==
    /\ trap_valid
    /\ Clock(<<>>, done, FALSE)
    /\ fetch_ptr' = retire_ptr

\* The head trapped: fetch is held in flush and the shelf is wiped.
Trap(done) ==
    /\ trap_valid
    /\ Clock(<<>>, done, TRUE)
    /\ fetch_ptr' = retire_ptr

Tick(done) == Advance(done) \/ Repair(done) \/ Trap(done)

Next == \E done \in BOOLEAN : Tick(done)

\* The clock never stops, and the memory behind the D-cache answers.
Fairness == WF_vars(Next) /\ WF_vars(Tick(TRUE))

Spec == Init /\ [][Next]_vars

FairSpec == Spec /\ Fairness
-----------------------------------------------------------------------------
(***************************************************************************)
(* Properties.                                                             *)
(***************************************************************************)

\* Types of every register.
TypeOK ==
    /\ dris \in [DrisIndices -> Entry]
    /\ shelf \in [ShelfSlots -> ShelfEntry]
    /\ retire_ptr \in DrisIds
    /\ fetch_ptr \in DrisIds
    /\ issue_reg \in SUBSET Packet
    /\ probe \in SUBSET Packet
    /\ rsp \in SUBSET Packet

\* A trapped head leaves no more cycles to speak of: the core halts or hangs.
Trapped == HeadEntry.valid /\ HeadEntry.trap

\* The valid entries are exactly those between the two pointers, each under
\* the id its position gives it: retirement never overruns allocation, and no
\* flush leaves an entry behind or takes one too many.
WindowExact ==
    /\ occupancy <= DRIS_NUM_ENTRIES
    /\ \A s \in Window :
          /\ At(s).valid <=> s < occupancy
          /\ At(s).valid => At(s).id = slot_id(retire_ptr, s)

ValidWindow == ~Trapped => WindowExact

\* Every slot in use stands for a branch in the window.
ShelfInWindow ==
    \A k \in ShelfSlots \ InStatus("EMPTY") :
        \E s \in Window : /\ s < occupancy
                          /\ At(s).instr.op = "branch"
                          /\ shelf[k].branch_id = slot_id(retire_ptr, s)

\* What a trap leaves for good.
ShelfWiped == Trapped /\ InStatus("EMPTY") = ShelfSlots

\* An entry sits where its id says, and only a trapping instruction traps: what
\* is in the execute ways belongs to the entry it will report to.
TrapsMatch ==
    /\ \A i \in DrisIndices :
          /\ id_index(dris[i].id) = i
          /\ dris[i].trap => dris[i].instr.op = "ecall"
    /\ \A p \in issue_reg :
          LET e == dris[id_index(p.id)] IN e.valid => e.instr.op = p.op
    /\ \A p \in rsp : p.op = "load"

\* The inductive invariant behind ValidWindow, RetireRightPathOnly and
\* TrapIsFinal: the window and the shelf agree until a trap wipes the shelf.
InFlight == TrapsMatch /\ ((WindowExact /\ ShelfInWindow) \/ ShelfWiped)

\* The window position of the instruction whose value position s must read in
\* register src: the youngest older one that writes it; -1 if none is in flight.
ProducerOf(s, src) ==
    LET writers == {t \in 0 .. s - 1 : src # X0 /\ At(t).instr.rd = src}
    IN  IF writers = {} THEN -1
        ELSE CHOOSE t \in writers : \A u \in writers : u <= t

\* Every locker names the instruction program order says, and is locked exactly
\* while that instruction has no result: no unlock is lost (its entry would
\* wait for ever), none comes early (it would read an address, or nothing), and
\* once the producer retires the operand comes from the register file.
LockerExact(locker, s, src) ==
    LET p == ProducerOf(s, src) IN
    /\ locker.valid <=> p >= 0
    /\ locker.valid => locker.id = At(p).id
    /\ locker.locked <=> (p >= 0 /\ ~At(p).result_valid)

LockersExact ==
    ~Trapped =>
        \A s \in Window : s < occupancy =>
            /\ LockerExact(At(s).locker_1, s, At(s).instr.rs1)
            /\ LockerExact(At(s).locker_2, s, At(s).instr.rs2)

\* What an entry holds was put there by the instruction that occupies it: no
\* writeback of a flushed instruction lands on the one that took its slot.
OwnResults == \A i \in DrisIndices : dris[i].valid => dris[i].own

\* The same for every entry that never asked the D-cache for anything.
OwnExecResults ==
    \A i \in DrisIndices : dris[i].valid /\ dris[i].instr.op # "load" => dris[i].own

\* Every instruction that was sent on its way is still on it: an entry that was
\* dispatched and has no result has a live packet of its own in the execute ways, in
\* the D-cache or coming back from it, through flushes, traps and slots taken again.
\* A packet lost on the way would leave its entry waiting, and retirement with it.
Underway ==
    \A i \in DrisIndices :
        dris[i].valid /\ dris[i].dispatched /\ ~dris[i].executed
            => \E p \in issue_reg \cup probe \cup rsp : p.id = dris[i].id /\ p.live

\* Every branch in flight without a verdict is on the shelf, and every UNDET or
\* WRONG shelf entry stands for a branch still in the DRIS: the fence can
\* neither miss a branch nor hang on one that is gone.
ShelfMatchesDris ==
    ~Trapped =>
        /\ \A i \in DrisIndices :
              dris[i].valid /\ dris[i].instr.op = "branch" /\ ~dris[i].executed
                => \E k \in InStatus("UNDET") : shelf[k].branch_id = dris[i].id
        /\ \A k \in ShelfSlots \ InStatus("EMPTY") :
              LET e == dris[id_index(shelf[k].branch_id)] IN
              e.valid /\ e.id = shelf[k].branch_id /\ e.instr.op = "branch"

\* Nothing younger than a branch that has no verdict yet, or was mispredicted,
\* retires: neither a register write nor a store of the wrong path is committed.
RetireRightPathOnly ==
    [][\A i \in DrisIndices :
          (dris[i].valid /\ retire_ptr' # retire_ptr
             /\ Distance(retire_ptr, dris[i].id) < Distance(retire_ptr, retire_ptr'))
            => \A k \in InStatus("UNDET") \cup InStatus("WRONG") :
                  ~is_older(shelf[k].branch_id, dris[i].id)]_vars

\* A trap is precise and final: it is raised for a head nothing on the shelf can
\* still cancel, and from then on neither that head nor anything behind it
\* retires, and no store is sent out, although execution goes on behind it.
TrapIsFinal ==
    [][trap_valid => /\ trap_valid'
                     /\ retire_ptr' = retire_ptr
                     /\ \A p \in probe' : p.op = "store" =>
                           \E q \in probe : q.id = p.id /\ q.op = "store"]_vars

\* The SSC retires a store in exactly the cycles the memory scheduler grants it
\* the D-cache port: none is lost, written twice or written speculatively.
StoreAtRetire ==
    \A ready \in BOOLEAN : \A i \in DrisIndices :
        dris[i].valid /\ dris[i].instr.op = "store"
            => (i \in retire_vector(ready) <=> i \in set_dispatched_mem(ready))

\* Two accesses touch a common byte.
Overlap(a, b) == a.bytes \cap b.bytes # {}

\* A load that has been sent to the D-cache is never younger than a store that
\* is still waiting to write one of the bytes it reads.
LoadAfterStore ==
    ~Trapped =>
        \A s \in Window : \A t \in 0 .. s - 1 :
            /\ s < occupancy
            /\ At(s).instr.op = "load"
            /\ At(s).mem_addr_ready
            /\ At(s).dispatched \/ At(s).executed
            /\ At(t).instr.op = "store"
            /\ At(t).mem_addr_ready
            => ~Overlap(At(s).addr, At(t).addr)

\* What docs/todo.md says check_older_writes compares, the word addresses: a load
\* is not sent while an older store to the same word is still waiting.
SameWordWaits ==
    ~Trapped =>
        \A s \in Window : \A t \in 0 .. s - 1 :
            /\ s < occupancy
            /\ At(s).instr.op = "load"
            /\ At(s).mem_addr_ready
            /\ At(s).dispatched \/ At(s).executed
            /\ At(t).instr.op = "store"
            /\ At(t).mem_addr_ready
            => At(s).addr.addr \div 4 # At(t).addr.addr \div 4

\* Room for a fetch group, in the DRIS and on the shelf, is only ever lost to a
\* group that was taken in: what FetchPipe asks of the core, so that a response
\* can stand behind a stalled F2 only if a group went ahead of it.
RoomLostByIntake ==
    [][~dris_full /\ ~shelf_full /\ (dris_full' \/ shelf_full')
         => ~trap_valid /\ ~mispredict_valid /\ fetch_ptr' # fetch_ptr]_vars

\* While an instruction is in flight, the head eventually retires, unless it
\* traps or a mispredict empties the DRIS behind it.
Retires ==
    \A r \in DrisIds :
        (retire_ptr = r /\ occupancy > 0) ~> (retire_ptr # r \/ occupancy = 0 \/ Trapped)

=============================================================================
