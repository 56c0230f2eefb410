----------------------------- MODULE Schedulers -----------------------------
(***************************************************************************)
(* rtl/ooo/Scheduler.sv, which issues the oldest ready entries to the      *)
(* execute ways, and rtl/ooo/MemoryScheduler.sv, which gives the oldest    *)
(* admissible load, or the store the SSC is retiring, the D-cache port.    *)
(* Both scan the whole DRIS from the retire pointer.                       *)
(***************************************************************************)
EXTENDS SaneStateController

Window == 0 .. DRIS_NUM_ENTRIES - 1

At(s) == dris[retire_slot_index(s)]

ready_vector(s) ==
    LET e == At(s) IN
    /\ e.valid
    /\ ~e.dispatched
    /\ ~e.executed
    /\ ~e.mem_addr_ready
    /\ ~e.locker_1.locked
    /\ ~e.locker_2.locked

\* The first EXEC_UNITS ready window positions.
Selected ==
    {s \in Window : /\ ready_vector(s)
                    /\ Cardinality({t \in 0 .. s - 1 : ready_vector(t)}) < EXEC_UNITS}

set_dispatched == {retire_slot_index(s) : s \in Selected}

\* Fault: a mispredict clears the packets about to enter the execute ways.
issue_pkts_flushed ==
    {[id |-> At(s).id, op |-> At(s).instr.op, mem |-> FALSE, live |-> TRUE] :
        s \in {t \in Selected : ~mispredict_valid}}

issue_pkts ==
    {[id |-> At(s).id, op |-> At(s).instr.op, mem |-> FALSE, live |-> TRUE] :
        s \in Selected}
-----------------------------------------------------------------------------
MemReady(s) ==
    \/ /\ At(s).instr.op = "load"
       /\ At(s).valid
       /\ ~At(s).dispatched
       /\ ~At(s).executed
       /\ At(s).mem_addr_ready
    \/ s = 0 /\ store_ready

\* Fault: a store whose address is not known yet blocks nothing.
check_known_writes(load) ==
    \A i \in DrisIndices :
        /\ dris[i].valid
        /\ dris[i].instr.op = "store"
        /\ dris[i].mem_addr_ready
        /\ is_older(dris[i].id, load.id)
        => dris[i].addr.addr # load.addr.addr

\* An older store blocks a load while its address is unknown or is the load's.
check_older_writes(load) ==
    \A i \in DrisIndices :
        (dris[i].valid /\ dris[i].instr.op = "store" /\ is_older(dris[i].id, load.id))
            => /\ dris[i].mem_addr_ready
               /\ dris[i].addr.addr # load.addr.addr

MemAdmissible(s, d_cache_ready) ==
    /\ d_cache_ready
    /\ MemReady(s)
    /\ At(s).instr.op = "load" => check_older_writes(At(s))
    /\ At(s).instr.op = "store" =>
          retire_slot_index(s) \in retire_vector(d_cache_ready)

\* The window positions the single D-cache port is granted to: none or one.
MemSelected(d_cache_ready) ==
    {s \in Window : /\ MemAdmissible(s, d_cache_ready)
                    /\ \A t \in 0 .. s - 1 : ~MemAdmissible(t, d_cache_ready)}

set_dispatched_mem(d_cache_ready) ==
    {retire_slot_index(s) : s \in MemSelected(d_cache_ready)}

=============================================================================
