-------------------------------- MODULE Dris --------------------------------
(***************************************************************************)
(* rtl/ooo/DRIS.sv: the Deferred-scheduling Register-renaming Instruction  *)
(* Shelf.  The always_ff block is the operator DrisNext: what intake,      *)
(* writeback, dispatch and retire/flush leave in each entry at a clock     *)
(* edge, in the order the block assigns, the later assignment winning.     *)
(*                                                                         *)
(* Data is abstracted to provenance.  `result_data` never holds a number:  *)
(* `addr` is the access an AGU pass parked there and `own` (a history      *)
(* field no guard reads) says whether every writeback this entry took was  *)
(* issued by the instruction that occupies it.  An entry that is not       *)
(* valid has its payload reset: the code leaves it, and only the flush     *)
(* mask ever looks at it, to clear bits that are already clear.            *)
(***************************************************************************)
EXTENDS DrisDefs, Sequences

VARIABLE dris

\* `id` points at a producer; all ones with valid clear is "no dependency".
Locker == [locked : BOOLEAN, valid : BOOLEAN, id : DrisIds]

NoDependency == [valid |-> FALSE, id |-> DRIS_NUM_ENTRIES - 1]

Entry ==
    [instr : Instruction, id : DrisIds,
     valid : BOOLEAN, dispatched : BOOLEAN, executed : BOOLEAN,
     trap : BOOLEAN, mem_addr_ready : BOOLEAN, result_valid : BOOLEAN,
     locker_1 : Locker, locker_2 : Locker,
     addr : Access, own : BOOLEAN]

NoLocker ==
    [locked |-> FALSE, valid |-> FALSE, id |-> NoDependency.id]

Nop == [op |-> "alu", rd |-> X0, rs1 |-> X0, rs2 |-> X0]

EmptyEntry(i) ==
    [instr |-> Nop, id |-> i,
     valid |-> FALSE, dispatched |-> FALSE, executed |-> FALSE,
     trap |-> FALSE, mem_addr_ready |-> FALSE, result_valid |-> FALSE,
     locker_1 |-> NoLocker, locker_2 |-> NoLocker,
     addr |-> NoAccess, own |-> TRUE]

DrisInit == dris = [i \in DrisIndices |-> EmptyEntry(i)]

IsMem(op) == op \in {"load", "store"}
-----------------------------------------------------------------------------
(***************************************************************************)
(* Writeback ports.  A packet is [id, op, mem, live]: mem on the port of   *)
(* the D-cache's load returns, and live (history) while the instruction    *)
(* that issued it still occupies its entry.                                *)
(***************************************************************************)
Packet == [id : DrisIds, op : Ops, mem : BOOLEAN, live : BOOLEAN]

\* The entries that take a newborn from the fetch group.
fetch_write_mask(group, fetch_ptr) ==
    {id_index(slot_id(fetch_ptr, w - 1)) : w \in DOMAIN group}

\* Fault: an exec packet is taken on its id alone, whatever became of the entry.
wb_accepted_by_id(p, born) ==
    LET e == dris[id_index(p.id)] IN
    p.mem => e.valid /\ e.instr.op = "load" /\ e.mem_addr_ready /\ e.dispatched

wb_accepted(p, born) ==
    LET e == dris[id_index(p.id)] IN
    /\ e.valid
    /\ id_index(p.id) \notin born
    /\ id_color(e.id) = id_color(p.id)
    /\ p.mem => /\ e.instr.op = "load"
                /\ e.mem_addr_ready
                /\ e.dispatched
                /\ ~e.executed

\* The address phase of a load or store: parks an address, publishes nothing.
wb_is_agu_pass(p) == IsMem(p.op) /\ ~dris[id_index(p.id)].mem_addr_ready

AguPasses(wbs, born) == {p \in wbs : wb_accepted(p, born) /\ wb_is_agu_pass(p)}

Completions(wbs, born) == {p \in wbs : wb_accepted(p, born) /\ ~wb_is_agu_pass(p)}

\* Fault: a consumer taken in while its producer completes is locked all the same.
completing_wb_missed(dep, wbs, born) == FALSE

completing_wb(dep, wbs, born) == \E p \in Completions(wbs, born) : p.id = dep.id
-----------------------------------------------------------------------------
(***************************************************************************)
(* Register renaming at intake: the lockers of a newborn.                  *)
(***************************************************************************)
OlderWriters(src, new_id) ==
    {i \in DrisIndices : /\ dris[i].valid
                         /\ dris[i].instr.rd = src
                         /\ is_older(dris[i].id, new_id)}

YoungestOf(entries) ==
    {i \in entries : \A j \in entries \ {i} : is_older(dris[j].id, dris[i].id)}

\* The youngest valid entry that writes src and is older than new_id.
dependency_in_dris(src, new_id) ==
    LET writer == YoungestOf(OlderWriters(src, new_id))
    IN  IF src = X0 \/ writer = {}
        THEN NoDependency
        ELSE [valid |-> TRUE, id |-> dris[CHOOSE i \in writer : TRUE].id]

retiring_now(dep, clear_valid) ==
    /\ dep.valid
    /\ id_index(dep.id) \in clear_valid
    /\ id_color(dris[id_index(dep.id)].id) = id_color(dep.id)

\* The last earlier way of the same group that writes src: none or one.
GroupWriter(src, way, group) ==
    {w \in 1 .. way - 1 : /\ src # X0
                          /\ group[w].rd = src
                          /\ \A v \in w + 1 .. way - 1 : group[v].rd # src}

NewLocker(src, way, group, fetch_ptr, wbs, clear_valid) ==
    LET born   == fetch_write_mask(group, fetch_ptr)
        inGroup == GroupWriter(src, way, group)
        dep    == dependency_in_dris(src, slot_id(fetch_ptr, way - 1))
        source == dris[id_index(dep.id)]
    IN  IF inGroup # {}
        THEN [locked |-> TRUE, valid |-> TRUE,
              id |-> slot_id(fetch_ptr, (CHOOSE w \in inGroup : TRUE) - 1)]
        ELSE [locked |-> /\ dep.valid
                         /\ source.valid
                         /\ ~source.result_valid
                         /\ ~completing_wb(dep, wbs, born),
              valid |-> dep.valid /\ ~retiring_now(dep, clear_valid),
              id |-> dep.id]

Newborn(way, group, fetch_ptr, wbs, clear_valid) ==
    [EmptyEntry(0) EXCEPT
        !.instr = group[way],
        !.id = slot_id(fetch_ptr, way - 1),
        !.valid = TRUE,
        !.locker_1 = NewLocker(group[way].rs1, way, group, fetch_ptr, wbs, clear_valid),
        !.locker_2 = NewLocker(group[way].rs2, way, group, fetch_ptr, wbs, clear_valid)]
-----------------------------------------------------------------------------
(***************************************************************************)
(* The edge.  `accesses` gives the address each AGU pass computed.         *)
(***************************************************************************)
Targets(wbs) == {id_index(p.id) : p \in wbs}

\* A syscall reports the halt code, or the decoder found the instruction illegal.
Traps(wbs) == {p \in wbs : p.op = "ecall"}

AfterIntake(i, group, fetch_ptr, wbs, clear_valid) ==
    IF i \in fetch_write_mask(group, fetch_ptr)
    THEN Newborn(CHOOSE w \in DOMAIN group : id_index(slot_id(fetch_ptr, w - 1)) = i,
                 group, fetch_ptr, wbs, clear_valid)
    ELSE dris[i]

\* The unlock broadcast, then the cleanup of lockers whose producer leaves;
\* both read the locker as it was registered (old), and write what intake left.
LockerNext(new, old, valid, born, published, cleared) ==
    [new EXCEPT
        !.locked = @ /\ ~(valid /\ old.locked /\ old.id \in published),
        !.valid  = @ /\ ~(~born /\ old.valid /\ old.id \in cleared)]

EntryNext(i, group, fetch_ptr, wbs, accesses, set_dispatched, clear_valid) ==
    LET born      == fetch_write_mask(group, fetch_ptr)
        agu       == AguPasses(wbs, born)
        done      == Completions(wbs, born)
        published == {p.id : p \in done}
        cleared   == {dris[j].id : j \in clear_valid}
        old       == dris[i]
        e         == AfterIntake(i, group, fetch_ptr, wbs, clear_valid)
        here      == {p \in agu \cup done : id_index(p.id) = i}
    IN  IF i \in clear_valid
        THEN EmptyEntry(i)
        ELSE [e EXCEPT
                !.mem_addr_ready = @ \/ i \in Targets(agu),
                !.addr           = IF i \in Targets(agu) THEN accesses[i] ELSE @,
                !.executed       = @ \/ i \in Targets(done),
                !.result_valid   = @ \/ i \in Targets(done),
                !.trap           = @ \/ i \in Targets(Traps(agu \cup done)),
                !.dispatched     = i \in set_dispatched \/ (@ /\ i \notin Targets(agu)),
                !.locker_1       = LockerNext(@, old.locker_1, old.valid, i \in born,
                                              published, cleared),
                !.locker_2       = LockerNext(@, old.locker_2, old.valid, i \in born,
                                              published, cleared),
                !.own            = @ /\ \A p \in here : p.live]

DrisNext(group, fetch_ptr, wbs, accesses, set_dispatched, clear_valid) ==
    dris' = [i \in DrisIndices |->
               EntryNext(i, group, fetch_ptr, wbs, accesses, set_dispatched, clear_valid)]

=============================================================================
