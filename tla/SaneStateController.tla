------------------------ MODULE SaneStateController ------------------------
(***************************************************************************)
(* rtl/ooo/SaneStateController.sv: in-order retirement from the head of    *)
(* the DRIS, the release of the head store, and traps.                     *)
(***************************************************************************)
EXTENDS BranchShelf

VARIABLE retire_ptr

\* DRIS index of the n-th retirement slot, counted from the retire pointer.
retire_slot_index(slot) == id_index(slot_id(retire_ptr, slot))

HeadEntry == dris[retire_slot_index(0)]

\* Fault: retirement does not wait for the branch fence.
NoFence(i) == TRUE

BehindFence(i) ==
    branch_fence_valid =>
        \E k \in oldest_branch : is_older(dris[i].id, shelf[k].branch_id)

\* Fault: an entry that trapped retires like any other that has executed.
trapped_eligible(i) ==
    /\ dris[i].valid
    /\ dris[i].executed
    /\ i \notin flush_mask
    /\ dris[i].instr.op # "store"
    /\ BehindFence(i)

entry_eligible(i) ==
    /\ dris[i].valid
    /\ dris[i].executed
    /\ ~dris[i].trap
    /\ i \notin flush_mask
    /\ dris[i].instr.op # "store"
    /\ BehindFence(i)

store_ready == HeadEntry.valid /\ HeadEntry.instr.op = "store" /\ HeadEntry.mem_addr_ready

trap_valid == HeadEntry.valid /\ HeadEntry.trap /\ BehindFence(retire_slot_index(0))

\* Fault: the head store leaves without waiting for the D-cache.
retire_unready(slot, d_cache_ready) ==
    \A t \in 0 .. slot : entry_eligible(retire_slot_index(t)) \/ (t = 0 /\ store_ready)

\* A slot retires when it and every slot before it does; only the head may be
\* a store, and it leaves in the cycle the D-cache takes its write.
retire_ready(slot, d_cache_ready) ==
    \A t \in 0 .. slot :
        \/ entry_eligible(retire_slot_index(t))
        \/ t = 0 /\ store_ready /\ d_cache_ready

RetireSlots(d_cache_ready) ==
    {s \in 0 .. RETIRES_PER_CYCLE - 1 : retire_ready(s, d_cache_ready)}

retire_vector(d_cache_ready) ==
    {retire_slot_index(s) : s \in RetireSlots(d_cache_ready)}

\* Fault: the sum keeps the carry out of the pointer's width.
RetireNextCarry(d_cache_ready) ==
    \E n \in 0 .. RETIRES_PER_CYCLE :
        /\ RetireSlots(d_cache_ready) = 0 .. n - 1
        /\ retire_ptr' = retire_ptr + n

\* retire_ptr + $countones(retire_ready_vector).
RetireNext(d_cache_ready) ==
    \E n \in 0 .. RETIRES_PER_CYCLE :
        /\ RetireSlots(d_cache_ready) = 0 .. n - 1
        /\ retire_ptr' = slot_id(retire_ptr, n)

=============================================================================
