---------------------------- MODULE BranchShelf ----------------------------
(***************************************************************************)
(* rtl/ooo/BranchShelf.sv: the control transfers in flight, from intake    *)
(* until they are known to be right.  An entry is EMPTY, UNDET (waiting    *)
(* for its branch to execute), OK or WRONG.  The shelf raises the branch   *)
(* fence the retirement stage respects, and on a WRONG entry the redirect  *)
(* and the mask of DRIS entries to flush.                                  *)
(*                                                                         *)
(* The two addresses an entry holds are kept as the one thing the shelf    *)
(* asks of them: `wrong`, whether correct_pc differs from predicted_pc.    *)
(***************************************************************************)
EXTENDS Dris

CONSTANT NUM_SHELF_ENTRIES   \* 8 in config.vh

ASSUME ShelfSizeAssumption ==
    NUM_SHELF_ENTRIES \in Nat /\ NUM_SHELF_ENTRIES >= FETCH_WAYS

VARIABLE shelf

ShelfSlots == 1 .. NUM_SHELF_ENTRIES

ShelfEntry ==
    [status : {"EMPTY", "UNDET", "OK", "WRONG"},
     branch_id : DrisIds, correct_pc_valid : BOOLEAN, wrong : BOOLEAN]

EmptySlot ==
    [status |-> "EMPTY", branch_id |-> 0, correct_pc_valid |-> FALSE, wrong |-> FALSE]

ShelfInit == shelf = [k \in ShelfSlots |-> EmptySlot]

InStatus(s) == {k \in ShelfSlots : shelf[k].status = s}

\* The slot of a set that holds its oldest branch: none or one.
OldestOf(slots) ==
    {k \in slots :
        \A j \in slots \ {k} : is_older(shelf[k].branch_id, shelf[j].branch_id)}

shelf_free_count == Cardinality(InStatus("EMPTY"))
-----------------------------------------------------------------------------
branch_fence_valid == InStatus("UNDET") # {}

\* The slot whose branch is the fence.
oldest_branch == OldestOf(InStatus("UNDET"))

mispredict_valid == InStatus("WRONG") # {}

\* The slot whose branch fetch is redirected for.
mispredict_branch == OldestOf(InStatus("WRONG"))

flush_mask ==
    {i \in DrisIndices :
        \E k \in mispredict_branch : is_older(shelf[k].branch_id, dris[i].id)}

ReadyToResolve == {k \in InStatus("UNDET") : shelf[k].correct_pc_valid}

\* An OK entry may leave when nothing older is still UNDET or WRONG.
ok_retire_safe(k) ==
    \A j \in InStatus("UNDET") \cup InStatus("WRONG") :
        ~is_older(shelf[j].branch_id, shelf[k].branch_id)

\* Fault: a mispredict takes its own entry off the shelf but not the younger ones.
LeavingAlone ==
    {k \in ShelfSlots \ InStatus("EMPTY") :
        k \in mispredict_branch \/ (shelf[k].status = "OK" /\ ok_retire_safe(k))}

Leaving ==
    {k \in ShelfSlots \ InStatus("EMPTY") :
        \/ \E m \in mispredict_branch :
              k = m \/ is_older(shelf[m].branch_id, shelf[k].branch_id)
        \/ shelf[k].status = "OK" /\ ok_retire_safe(k)}
-----------------------------------------------------------------------------
\* The slots of UNDET entries whose own branch is on the update bus.
Snooped(wbs) ==
    {k \in InStatus("UNDET") :
        \E p \in wbs : ~p.mem /\ p.id = shelf[k].branch_id}

\* Control transfers of the fetch group, in way order.
Transfers(group) == {w \in DOMAIN group : group[w].op = "branch"}

\* Slot k takes way w when as many slots were free below k as transfers before w.
Takes(k, w, group) ==
    /\ w \in Transfers(group)
    /\ k \in InStatus("EMPTY")
    /\ Cardinality({j \in InStatus("EMPTY") : j < k})
         = Cardinality({v \in Transfers(group) : v < w})

\* Steps (1)-(6) of next_shelf: snoop, resolve, flush, retire, allocate, wipe.
SlotNext(k, group, fetch_ptr, wbs, wrong, global_flush) ==
    LET taken == {w \in DOMAIN group : Takes(k, w, group)}
    IN  IF global_flush \/ k \in Leaving
        THEN EmptySlot
        ELSE IF taken # {}
        THEN [EmptySlot EXCEPT
                !.status = "UNDET",
                !.branch_id = slot_id(fetch_ptr, (CHOOSE w \in taken : TRUE) - 1)]
        ELSE [shelf[k] EXCEPT
                !.correct_pc_valid = @ \/ k \in Snooped(wbs),
                !.wrong  = IF k \in Snooped(wbs) THEN k \in wrong ELSE @,
                !.status = IF k \notin OldestOf(ReadyToResolve) THEN @
                           ELSE IF shelf[k].wrong THEN "WRONG" ELSE "OK"]

ShelfNext(group, fetch_ptr, wbs, wrong, global_flush) ==
    shelf' = [k \in ShelfSlots |->
                SlotNext(k, group, fetch_ptr, wbs, wrong, global_flush)]

=============================================================================
