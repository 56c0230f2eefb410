------------------------ MODULE LightningCoreProofs ------------------------
(***************************************************************************)
(* Theorems about LightningCore, for every size of the DRIS, the shelf and *)
(* the widths of fetch, issue and retirement, and any instruction mix.     *)
(***************************************************************************)
EXTENDS LightningCore, DrisDefsProofs, SequenceTheorems

-----------------------------------------------------------------------------
(***************************************************************************)
(* Types.                                                                  *)
(***************************************************************************)

\* What fetch delivers is a sequence no longer than a fetch group.
LEMMA GroupType ==
    ASSUME NEW group \in FetchGroups
    PROVE  /\ group \in Seq(Instrs)
           /\ Len(group) \in 0 .. FETCH_WAYS
           /\ DOMAIN group = 1 .. Len(group)
           /\ \A w \in 1 .. Len(group) : group[w] \in Instruction
<1>1. group \in Seq(Instrs) /\ Len(group) \in 0 .. FETCH_WAYS
  <2>1. CASE group = <<>>
    BY <2>1, DrisSizeAssumption
  <2>2. CASE group # <<>>
    <3>1. PICK n \in 0 .. FETCH_WAYS : group \in [1 .. n -> Instrs]
      BY <2>2 DEF FetchGroups
    <3> QED BY <3>1, DrisSizeAssumption
  <2> QED BY <2>1, <2>2
<1> QED BY <1>1, InstrAssumption

\* The dependency register renaming finds is an id.
LEMMA DependencyType ==
    ASSUME TypeOK, NEW src, NEW new_id
    PROVE  /\ dependency_in_dris(src, new_id).id \in DrisIds
           /\ dependency_in_dris(src, new_id).valid \in BOOLEAN
<1> DEFINE writer == YoungestOf(OlderWriters(src, new_id))
<1>1. writer \subseteq DrisIndices
  BY DEF YoungestOf, OlderWriters
<1>2. CASE src = X0 \/ writer = {}
  BY <1>2, DrisSizeAssumption DEF dependency_in_dris, NoDependency, DrisIds
<1>3. CASE ~(src = X0 \/ writer = {})
  <2> DEFINE i == CHOOSE i \in writer : TRUE
  <2>1. i \in DrisIndices
    BY <1>1, <1>3
  <2>2. dris[i].id \in DrisIds
    BY <2>1 DEF TypeOK, Entry
  <2>3. dependency_in_dris(src, new_id) = [valid |-> TRUE, id |-> dris[i].id]
    BY <1>3 DEF dependency_in_dris
  <2> QED BY <2>2, <2>3
<1> QED BY <1>2, <1>3

\* A newborn's lockers are lockers.
LEMMA NewLockerType ==
    ASSUME TypeOK, NEW src, NEW group, NEW way \in 1 .. FETCH_WAYS, NEW wbs, NEW clear
    PROVE  NewLocker(src, way, group, fetch_ptr, wbs, clear) \in Locker
<1> DEFINE inGroup == GroupWriter(src, way, group)
           dep     == dependency_in_dris(src, slot_id(fetch_ptr, way - 1))
           locker  == NewLocker(src, way, group, fetch_ptr, wbs, clear)
<1>1. CASE inGroup # {}
  <2>1. PICK w \in 1 .. way - 1 :
           locker = [locked |-> TRUE, valid |-> TRUE, id |-> slot_id(fetch_ptr, w - 1)]
    <3>1. (CHOOSE w \in inGroup : TRUE) \in 1 .. way - 1
      BY <1>1 DEF GroupWriter
    <3> QED BY <1>1, <3>1 DEF NewLocker
  <2>2. slot_id(fetch_ptr, w - 1) \in DrisIds
    BY SlotIdType, DrisSizeAssumption DEF TypeOK
  <2> QED BY <2>1, <2>2 DEF Locker
<1>2. CASE inGroup = {}
  <2>1. dep.id \in DrisIds
    BY DependencyType
  <2>2. /\ locker.locked \in BOOLEAN
        /\ locker.valid \in BOOLEAN
        /\ locker.id = dep.id
        /\ locker = [locked |-> locker.locked, valid |-> locker.valid, id |-> locker.id]
    BY <1>2, Zenon DEF NewLocker
  <2> QED BY <2>1, <2>2 DEF Locker
<1> QED BY <1>1, <1>2

\* An entry starts as an entry.
LEMMA EmptyEntryType == \A i \in DrisIds : EmptyEntry(i) \in Entry
BY InstrAssumption, DrisSizeAssumption
DEF EmptyEntry, Entry, Nop, Instruction, Ops, NoLocker, Locker, NoDependency,
    DrisIds, NoAccess, Access

\* What intake leaves in an entry is an entry.
LEMMA IntakeType ==
    ASSUME TypeOK, NEW group \in FetchGroups, NEW wbs, NEW clear,
           NEW i \in DrisIndices
    PROVE  AfterIntake(i, group, fetch_ptr, wbs, clear) \in Entry
<1>1. CASE i \in fetch_write_mask(group, fetch_ptr)
  <2>1. PICK way \in DOMAIN group :
           AfterIntake(i, group, fetch_ptr, wbs, clear)
             = Newborn(way, group, fetch_ptr, wbs, clear)
    BY <1>1 DEF AfterIntake, fetch_write_mask
  <2>2. way \in 1 .. FETCH_WAYS /\ group[way] \in Instruction
    BY GroupType, DrisSizeAssumption
  <2>3. slot_id(fetch_ptr, way - 1) \in DrisIds
    BY <2>2, SlotIdType, DrisSizeAssumption DEF TypeOK
  <2>4. /\ NewLocker(group[way].rs1, way, group, fetch_ptr, wbs, clear) \in Locker
        /\ NewLocker(group[way].rs2, way, group, fetch_ptr, wbs, clear) \in Locker
    BY <2>2, NewLockerType
  <2>5. EmptyEntry(0) \in Entry
    BY EmptyEntryType, DrisSizeAssumption DEF DrisIds
  <2> QED BY <2>1, <2>2, <2>3, <2>4, <2>5 DEF Newborn, Entry
<1>2. CASE i \notin fetch_write_mask(group, fetch_ptr)
  BY <1>2 DEF AfterIntake, TypeOK
<1> QED BY <1>1, <1>2

\* An entry stays an entry, whatever the edge does to it.
LEMMA EntryType ==
    ASSUME TypeOK,
           NEW group \in FetchGroups, NEW wbs, NEW set, NEW clear,
           NEW accesses \in [Targets(AguPasses(wbs, fetch_write_mask(group, fetch_ptr)))
                               -> Accesses],
           NEW i \in DrisIndices
    PROVE  EntryNext(i, group, fetch_ptr, wbs, accesses, set, clear) \in Entry
<1> DEFINE e == AfterIntake(i, group, fetch_ptr, wbs, clear)
           next == EntryNext(i, group, fetch_ptr, wbs, accesses, set, clear)
<1>1. e \in Entry
  BY IntakeType
<1>2. ASSUME NEW l \in Locker, NEW old, NEW valid, NEW born, NEW published, NEW cleared
      PROVE  LockerNext(l, old, valid, born, published, cleared) \in Locker
  BY DEF LockerNext, Locker
<1>3. CASE i \in clear
  <2>1. EmptyEntry(i) \in Entry
    BY EmptyEntryType, DrisSizeAssumption DEF DrisIds, DrisIndices
  <2> QED BY <1>3, <2>1 DEF EntryNext
<1>4. CASE i \notin clear
  <2> DEFINE born == fetch_write_mask(group, fetch_ptr)
             agu == AguPasses(wbs, born)
             done == Completions(wbs, born)
             published == {p.id : p \in done}
             cleared == {dris[j].id : j \in clear}
             old == dris[i]
             acc == IF i \in Targets(agu) THEN accesses[i] ELSE e.addr
             l1 == LockerNext(e.locker_1, old.locker_1, old.valid, i \in born,
                              published, cleared)
             l2 == LockerNext(e.locker_2, old.locker_2, old.valid, i \in born,
                              published, cleared)
             mem == e.mem_addr_ready \/ i \in Targets(agu)
             exe == e.executed \/ i \in Targets(done)
             res == e.result_valid \/ i \in Targets(done)
             trap == e.trap \/ i \in Targets(Traps(agu \cup done))
             disp == i \in set \/ (e.dispatched /\ i \notin Targets(agu))
             here == {p \in agu \cup done : id_index(p.id) = i}
             own == e.own /\ \A p \in here : p.live
  <2>1. /\ next = [e EXCEPT !.mem_addr_ready = mem, !.addr = acc,
                     !.executed = exe, !.result_valid = res, !.trap = trap,
                     !.dispatched = disp, !.locker_1 = l1, !.locker_2 = l2,
                     !.own = own]
        /\ mem \in BOOLEAN /\ exe \in BOOLEAN /\ res \in BOOLEAN
        /\ trap \in BOOLEAN /\ disp \in BOOLEAN /\ own \in BOOLEAN
    BY <1>4, Zenon DEF EntryNext
  <2>2. acc \in Access
    BY <1>1, InstrAssumption DEF Entry
  <2>3. l1 \in Locker /\ l2 \in Locker
    BY <1>1, <1>2 DEF Entry
  <2>4. next \in Entry
    <3> HIDE DEF e, next, acc, l1, l2, mem, exe, res, trap, disp, own
    <3>1. [e EXCEPT !.mem_addr_ready = mem, !.addr = acc,
             !.executed = exe, !.result_valid = res, !.trap = trap,
             !.dispatched = disp, !.locker_1 = l1, !.locker_2 = l2,
             !.own = own] \in Entry
      BY <1>1, <2>1, <2>2, <2>3 DEF Entry
    <3> QED BY <2>1, <3>1, Zenon
  <2> QED BY <2>4
<1> QED BY <1>3, <1>4

\* A stalled fetch delivers the empty group.
LEMMA EmptyGroup == <<>> \in FetchGroups
<1>1. <<>> \in [1 .. 0 -> Instrs]
  OBVIOUS
<1> QED BY <1>1, DrisSizeAssumption DEF FetchGroups

\* A shelf slot stays a shelf slot.
LEMMA SlotType ==
    ASSUME TypeOK, NEW group \in FetchGroups, NEW wbs, NEW wrong,
           NEW global_flush, NEW k \in ShelfSlots
    PROVE  SlotNext(k, group, fetch_ptr, wbs, wrong, global_flush) \in ShelfEntry
<1> DEFINE taken == {w \in DOMAIN group : Takes(k, w, group)}
           new   == SlotNext(k, group, fetch_ptr, wbs, wrong, global_flush)
<1>1. EmptySlot \in ShelfEntry
  BY DrisSizeAssumption DEF EmptySlot, ShelfEntry, DrisIds
<1>2. CASE global_flush \/ k \in Leaving
  BY <1>1, <1>2 DEF SlotNext
<1>3. CASE ~(global_flush \/ k \in Leaving) /\ taken # {}
  <2>1. PICK w \in DOMAIN group :
           new = [EmptySlot EXCEPT !.status = "UNDET",
                                   !.branch_id = slot_id(fetch_ptr, w - 1)]
    BY <1>3 DEF SlotNext
  <2>2. slot_id(fetch_ptr, w - 1) \in DrisIds
    BY GroupType, SlotIdType, DrisSizeAssumption DEF TypeOK
  <2> QED BY <2>1, <2>2 DEF EmptySlot, ShelfEntry
<1>4. CASE ~(global_flush \/ k \in Leaving) /\ taken = {}
  <2> DEFINE known   == shelf[k].correct_pc_valid \/ k \in Snooped(wbs)
             verdict == IF k \in Snooped(wbs) THEN k \in wrong ELSE shelf[k].wrong
             status  == IF k \notin OldestOf(ReadyToResolve) THEN shelf[k].status
                        ELSE IF shelf[k].wrong THEN "WRONG" ELSE "OK"
  <2>1. shelf[k] \in ShelfEntry
    BY DEF TypeOK
  <2>2. new = [shelf[k] EXCEPT !.correct_pc_valid = known, !.wrong = verdict,
                               !.status = status]
    BY <1>4, Zenon DEF SlotNext
  <2>3. known \in BOOLEAN /\ verdict \in BOOLEAN
    <3>1. known \in BOOLEAN
      OBVIOUS
    <3>2. shelf[k].wrong \in BOOLEAN
      BY <2>1 DEF ShelfEntry
    <3>3. CASE k \in Snooped(wbs)
      BY <3>1, <3>3
    <3>4. CASE k \notin Snooped(wbs)
      BY <3>1, <3>2, <3>4, Zenon
    <3> QED BY <3>3, <3>4
  <2>4. status \in {"EMPTY", "UNDET", "OK", "WRONG"}
    BY <2>1 DEF ShelfEntry
  <2> HIDE DEF new, known, verdict, status
  <2>5. [shelf[k] EXCEPT !.correct_pc_valid = known, !.wrong = verdict,
                         !.status = status] \in ShelfEntry
    BY <2>1, <2>3, <2>4 DEF ShelfEntry
  <2>6. new \in ShelfEntry
    BY <2>2, <2>5, Zenon
  <2> QED BY <2>6 DEF new
<1> QED BY <1>2, <1>3, <1>4

\* Packets stay packets.
LEMMA OutliveType ==
    ASSUME NEW pkts \in SUBSET Packet, NEW cleared
    PROVE  Outlive(pkts, cleared) \in SUBSET Packet
<1>1. \A p \in pkts :
         [p EXCEPT !.live = @ /\ id_index(p.id) \notin cleared] \in Packet
  BY DEF Packet
<1> QED BY <1>1 DEF Outlive

\* Positions of the window fall on entries of the DRIS.
LEMMA WindowType ==
    ASSUME TypeOK, NEW s \in Window
    PROVE  /\ retire_slot_index(s) \in DrisIndices
           /\ At(s) \in Entry
<1>1. slot_id(retire_ptr, s) \in DrisIds
  BY SlotIdType, DrisSizeAssumption DEF TypeOK, Window
<1>2. retire_slot_index(s) \in DrisIndices
  BY <1>1, IndexType DEF retire_slot_index
<1> QED BY <1>2 DEF TypeOK, At

\* What the schedulers issue are packets.
LEMMA IssueType ==
    ASSUME TypeOK, NEW ready \in BOOLEAN
    PROVE  /\ issue_pkts \in SUBSET Packet
           /\ mem_issue_pkts(ready) \in SUBSET Packet
<1>1. \A s \in Window : At(s).id \in DrisIds /\ At(s).instr.op \in Ops
  BY WindowType DEF Entry, Instruction
<1>2. Selected \subseteq Window /\ MemSelected(ready) \subseteq Window
  BY DEF Selected, MemSelected
<1>3. \A s \in Window, mem \in BOOLEAN :
         [id |-> At(s).id, op |-> At(s).instr.op, mem |-> mem, live |-> TRUE] \in Packet
  BY <1>1 DEF Packet
<1> QED BY <1>2, <1>3 DEF issue_pkts, mem_issue_pkts

\* One edge preserves the types of everything but fetch_ptr.
LEMMA ClockType ==
    ASSUME TypeOK, NEW group \in FetchGroups, NEW done \in BOOLEAN,
           NEW global_flush, Clock(group, done, global_flush),
           fetch_ptr' \in DrisIds
    PROVE  TypeOK'
<1> DEFINE ready   == probe = {} \/ done
           born    == fetch_write_mask(group, fetch_ptr)
           cleared == retire_vector(ready) \cup flush_mask
           set     == set_dispatched \cup set_dispatched_mem(ready)
<1>1. dris' \in [DrisIndices -> Entry]
  <2>1. PICK accesses \in [Targets(AguPasses(writeback_pkts, born)) -> Accesses] :
           DrisNext(group, fetch_ptr, writeback_pkts, accesses, set, cleared)
    BY DEF Clock
  <2> HIDE DEF born, set, cleared
  <2>2. \A i \in DrisIndices :
           EntryNext(i, group, fetch_ptr, writeback_pkts, accesses, set, cleared)
             \in Entry
    BY EntryType DEF born
  <2> QED BY <2>1, <2>2 DEF DrisNext
<1>2. shelf' \in [ShelfSlots -> ShelfEntry]
  <2>1. PICK wrong :
           ShelfNext(group, fetch_ptr, writeback_pkts, wrong, global_flush)
    BY DEF Clock
  <2> QED BY <2>1, SlotType DEF ShelfNext
<1>3. retire_ptr' \in DrisIds
  <2>1. PICK n \in 0 .. RETIRES_PER_CYCLE : retire_ptr' = slot_id(retire_ptr, n)
    BY DEF Clock, RetireNext
  <2> QED BY <2>1, SlotIdType, DrisSizeAssumption DEF TypeOK
<1>4. ready \in BOOLEAN
  OBVIOUS
<1>5. /\ issue_reg' = Outlive(issue_pkts, cleared)
      /\ rsp' \subseteq Outlive(probe, cleared)
      /\ probe' \in {Outlive(mem_issue_pkts(ready), cleared), Outlive(probe, cleared)}
  BY DEF Clock
<1> HIDE DEF ready, cleared
<1>6. issue_reg' \in SUBSET Packet /\ rsp' \in SUBSET Packet /\ probe' \in SUBSET Packet
  BY <1>4, <1>5, IssueType, OutliveType DEF TypeOK
<1> QED BY <1>1, <1>2, <1>3, <1>6 DEF TypeOK

\* Every register keeps its type.
THEOREM TypeCorrect == Spec => []TypeOK
<1>1. Init => TypeOK
  <2>1. ASSUME Init PROVE TypeOK
    <3>1. dris \in [DrisIndices -> Entry]
      BY <2>1, EmptyEntryType, DrisSizeAssumption
      DEF Init, DrisInit, DrisIndices, DrisIds
    <3>2. shelf \in [ShelfSlots -> ShelfEntry]
      BY <2>1, DrisSizeAssumption DEF Init, ShelfInit, EmptySlot, ShelfEntry, DrisIds
    <3> QED BY <2>1, <3>1, <3>2, DrisSizeAssumption DEF Init, TypeOK, DrisIds
  <2> QED BY <2>1
<1>2. TypeOK /\ [Next]_vars => TypeOK'
  <2> SUFFICES ASSUME TypeOK, [Next]_vars PROVE TypeOK'
    OBVIOUS
  <2>1. ASSUME NEW done \in BOOLEAN, Advance(done) PROVE TypeOK'
    <3>1. PICK group \in FetchGroups :
             Clock(group, done, FALSE) /\ fetch_ptr' = slot_id(fetch_ptr, Len(group))
      BY <2>1 DEF Advance
    <3>2. fetch_ptr' \in DrisIds
      BY <3>1, GroupType, SlotIdType, DrisSizeAssumption DEF TypeOK
    <3> QED BY <3>1, <3>2, ClockType
  <2>2. ASSUME NEW done \in BOOLEAN, Repair(done) PROVE TypeOK'
    <3>1. PICK k \in mispredict_branch : fetch_ptr' = slot_id(shelf[k].branch_id, 1)
      BY <2>2 DEF Repair
    <3>2. shelf[k].branch_id \in DrisIds
      BY DEF mispredict_branch, OldestOf, InStatus, TypeOK, ShelfEntry
    <3>3. fetch_ptr' \in DrisIds
      BY <3>1, <3>2, SlotIdType, DrisSizeAssumption
    <3> QED BY <2>2, <3>3, EmptyGroup, ClockType DEF Repair
  <2>3. ASSUME NEW done \in BOOLEAN, Trap(done) PROVE TypeOK'
    <3>1. fetch_ptr' \in DrisIds
      BY <2>3 DEF Trap, TypeOK
    <3> QED BY <2>3, <3>1, EmptyGroup, ClockType DEF Trap
  <2>4. CASE UNCHANGED vars
    BY <2>4 DEF vars, TypeOK
  <2> QED BY <2>1, <2>2, <2>3, <2>4 DEF Next, Tick
<1> QED BY <1>1, <1>2, PTL DEF Spec

-----------------------------------------------------------------------------
(***************************************************************************)
(* One edge, seen from an entry.                                           *)
(***************************************************************************)

\* An entry that is neither taken in nor cleared keeps its occupant.
LEMMA EntryKept ==
    ASSUME TypeOK, NEW group, NEW wbs, NEW accesses, NEW set, NEW clear,
           NEW i \in DrisIndices, i \notin clear,
           i \notin fetch_write_mask(group, fetch_ptr)
    PROVE  LET next == EntryNext(i, group, fetch_ptr, wbs, accesses, set, clear) IN
           /\ next.valid = dris[i].valid
           /\ next.id = dris[i].id
           /\ next.instr = dris[i].instr
           /\ dris[i].trap => next.trap
<1>1. dris[i] \in Entry
  BY DEF TypeOK
<1> QED BY <1>1 DEF EntryNext, AfterIntake, Entry

\* The way of the group that entry i takes.
BornWay(i, group) ==
    CHOOSE w \in DOMAIN group : id_index(slot_id(fetch_ptr, w - 1)) = i

\* What an edge does to each entry; one that takes a newborn holds the way of
\* the group its index names.
LEMMA EdgeEntries ==
    ASSUME TypeOK, NEW group, NEW wbs, NEW accesses, NEW set, NEW clear,
           DrisNext(group, fetch_ptr, wbs, accesses, set, clear)
    PROVE  \A i \in DrisIndices :
              /\ i \in clear => dris'[i].valid = FALSE /\ dris'[i].id = i
              /\ i \notin clear /\ i \notin fetch_write_mask(group, fetch_ptr)
                    => /\ dris'[i].valid = dris[i].valid
                       /\ dris'[i].id = dris[i].id
                       /\ dris'[i].instr = dris[i].instr
                       /\ dris[i].trap => dris'[i].trap
              /\ i \notin clear /\ i \in fetch_write_mask(group, fetch_ptr)
                    => \E w \in DOMAIN group :
                          /\ id_index(slot_id(fetch_ptr, w - 1)) = i
                          /\ dris'[i].valid = TRUE
                          /\ dris'[i].id = slot_id(fetch_ptr, w - 1)
                          /\ dris'[i].instr = group[w]
<1> SUFFICES ASSUME NEW i \in DrisIndices
             PROVE  /\ i \in clear => dris'[i].valid = FALSE /\ dris'[i].id = i
                    /\ i \notin clear /\ i \notin fetch_write_mask(group, fetch_ptr)
                          => /\ dris'[i].valid = dris[i].valid
                             /\ dris'[i].id = dris[i].id
                             /\ dris'[i].instr = dris[i].instr
                             /\ dris[i].trap => dris'[i].trap
                    /\ i \notin clear /\ i \in fetch_write_mask(group, fetch_ptr)
                          => \E w \in DOMAIN group :
                                /\ id_index(slot_id(fetch_ptr, w - 1)) = i
                                /\ dris'[i].valid = TRUE
                                /\ dris'[i].id = slot_id(fetch_ptr, w - 1)
                                /\ dris'[i].instr = group[w]
  OBVIOUS
<1>1. dris'[i] = EntryNext(i, group, fetch_ptr, wbs, accesses, set, clear)
  BY DEF DrisNext
<1>2. CASE i \in clear
  <2>1. dris'[i] = EmptyEntry(i)
    BY <1>1, <1>2 DEF EntryNext
  <2>2. dris'[i].valid = FALSE /\ dris'[i].id = i
    BY <2>1 DEF EmptyEntry
  <2> QED BY <1>2, <2>2
<1>3. CASE i \notin clear /\ i \notin fetch_write_mask(group, fetch_ptr)
  BY <1>1, <1>3, EntryKept
<1>4. CASE i \notin clear /\ i \in fetch_write_mask(group, fetch_ptr)
  <2>1. PICK w : w = BornWay(i, group)
    OBVIOUS
  <2>2. w \in DOMAIN group /\ id_index(slot_id(fetch_ptr, w - 1)) = i
    BY <1>4, <2>1 DEF fetch_write_mask, BornWay
  <2>3. AfterIntake(i, group, fetch_ptr, wbs, clear)
          = Newborn(w, group, fetch_ptr, wbs, clear)
    BY <1>4, <2>1 DEF AfterIntake, BornWay
  <2>4. /\ dris'[i].valid = TRUE
        /\ dris'[i].id = slot_id(fetch_ptr, w - 1)
        /\ dris'[i].instr = group[w]
    BY <1>1, <1>4, <2>3 DEF EntryNext, Newborn, EmptyEntry
  <2> QED BY <1>4, <2>2, <2>4
<1> QED BY <1>2, <1>3, <1>4

-----------------------------------------------------------------------------
(***************************************************************************)
(* The window and the shelf.                                               *)
(***************************************************************************)

\* What retires is a valid prefix of the window, each slot on its own merit.
LEMMA RetiredPrefix ==
    ASSUME TypeOK, WindowExact, NEW ready \in BOOLEAN,
           NEW n \in 0 .. RETIRES_PER_CYCLE, RetireSlots(ready) = 0 .. n - 1
    PROVE  /\ n <= occupancy
           /\ retire_vector(ready) = {retire_slot_index(t) : t \in 0 .. n - 1}
           /\ \A t \in 0 .. n - 1 :
                 /\ t \in Window
                 /\ \/ entry_eligible(retire_slot_index(t))
                    \/ t = 0 /\ store_ready
<1>1. \A t \in 0 .. n - 1 :
         /\ t \in Window
         /\ \/ entry_eligible(retire_slot_index(t))
            \/ t = 0 /\ store_ready
  BY DrisSizeAssumption DEF RetireSlots, retire_ready, Window
<1>2. \A t \in 0 .. n - 1 : At(t).valid
  BY <1>1 DEF entry_eligible, store_ready, HeadEntry, At
<1>3. occupancy \in Nat
  BY SlotOfDistance, DrisSizeAssumption DEF occupancy, TypeOK
<1>4. n <= occupancy
  <2>1. SUFFICES ASSUME occupancy < n PROVE FALSE
    BY <1>3
  <2>2. occupancy \in 0 .. n - 1
    BY <2>1, <1>3
  <2> QED BY <1>1, <1>2, <2>2 DEF WindowExact
<1> QED BY <1>1, <1>4 DEF retire_vector

\* Moving both pointers: if the positions left valid are those from n to m,
\* each under the id of its position, the new pointers delimit them.
LEMMA WindowShift ==
    ASSUME TypeOK, NEW n \in DrisIndices \cup {DRIS_NUM_ENTRIES},
           NEW m \in n .. DRIS_NUM_ENTRIES,
           retire_ptr' = slot_id(retire_ptr, n),
           fetch_ptr' = slot_id(retire_ptr, m),
           \A s \in Window :
              LET e == dris'[retire_slot_index(s)] IN
              /\ e.valid <=> n <= s /\ s < m
              /\ e.valid => e.id = slot_id(retire_ptr, s)
    PROVE  /\ WindowExact'
           /\ occupancy' = m - n
           /\ \A s \in Window :
                 n <= s => At(s - n)' = dris'[retire_slot_index(s)]
<1>0. /\ n \in Nat /\ m \in Nat /\ n <= m /\ m <= DRIS_NUM_ENTRIES
      /\ DRIS_NUM_ENTRIES \in Nat \ {0}
      /\ retire_ptr \in DrisIds
  BY DrisSizeAssumption DEF DrisIndices, TypeOK
<1>1. occupancy' = m - n
  <2>1. slot_id(slot_id(retire_ptr, n), m - n) = slot_id(retire_ptr, m)
    BY <1>0, SlotIdAdd
  <2>2. slot_id(retire_ptr, n) \in DrisIds
    BY <1>0, SlotIdType
  <2> QED BY <1>0, <2>1, <2>2, DistanceOfSlot DEF occupancy
<1>2. \A s \in Window : retire_slot_index(s)' = id_index(slot_id(retire_ptr, n + s))
  BY <1>0, SlotIdAdd DEF retire_slot_index, Window
<1>3. ASSUME NEW s \in Window, n + s < DRIS_NUM_ENTRIES
      PROVE  /\ n + s \in Window
             /\ At(s)' = dris'[retire_slot_index(n + s)]
  BY <1>0, <1>2, <1>3 DEF At, Window, retire_slot_index
<1>4. ASSUME NEW s \in Window, n + s >= DRIS_NUM_ENTRIES
      PROVE  ~At(s)'.valid
  <2>1. n + s - DRIS_NUM_ENTRIES \in Window /\ n + s - DRIS_NUM_ENTRIES < n
    BY <1>0, <1>4 DEF Window
  <2>2. id_index(slot_id(retire_ptr, n + s))
          = id_index(slot_id(retire_ptr, n + s - DRIS_NUM_ENTRIES))
    <3> DEFINE r == n + s - DRIS_NUM_ENTRIES
    <3>1. r \in DrisIndices /\ n + s = r + DRIS_NUM_ENTRIES
      BY <1>0, <2>1 DEF Window, DrisIndices
    <3> HIDE DEF r
    <3>2. id_index(slot_id(retire_ptr, r + DRIS_NUM_ENTRIES))
            = id_index(slot_id(retire_ptr, r))
      BY <1>0, <3>1, IndexPeriod
    <3> QED BY <3>1, <3>2 DEF r
  <2> QED BY <1>0, <1>2, <2>1, <2>2 DEF At, retire_slot_index, Window
<1>5. ASSUME NEW s \in Window
      PROVE  /\ At(s)'.valid <=> s < m - n
             /\ At(s)'.valid => At(s)'.id = slot_id(retire_ptr', s)
  <2>1. CASE n + s < DRIS_NUM_ENTRIES
    <3>1. slot_id(retire_ptr', s) = slot_id(retire_ptr, n + s)
      BY <1>0, <2>1, SlotIdAdd DEF Window
    <3> QED BY <1>0, <1>3, <2>1, <3>1 DEF Window
  <2>2. CASE n + s >= DRIS_NUM_ENTRIES
    BY <1>0, <1>4, <2>2 DEF Window
  <2> QED BY <1>0, <2>1, <2>2 DEF Window
<1>6. \A s \in Window : n <= s => At(s - n)' = dris'[retire_slot_index(s)]
  <2>1. ASSUME NEW s \in Window, n <= s
        PROVE  At(s - n)' = dris'[retire_slot_index(s)]
    <3>1. s - n \in Window /\ n + (s - n) = s /\ n + (s - n) < DRIS_NUM_ENTRIES
      BY <1>0, <2>1 DEF Window
    <3> QED BY <1>3, <3>1
  <2> QED BY <2>1
<1> QED BY <1>0, <1>1, <1>5, <1>6 DEF WindowExact, Window

\* The position of a shelf slot's branch in the window.
BranchPos(k) == Distance(retire_ptr, shelf[k].branch_id)

InUse == ShelfSlots \ InStatus("EMPTY")

\* A slot in use stands at a valid position, which holds its branch ...
LEMMA BranchInWindow ==
    ASSUME TypeOK, WindowExact, ShelfInWindow, NEW k \in InUse
    PROVE  /\ BranchPos(k) \in Window
           /\ BranchPos(k) < occupancy
           /\ At(BranchPos(k)).valid
           /\ At(BranchPos(k)).instr.op = "branch"
           /\ At(BranchPos(k)).id = shelf[k].branch_id
           /\ shelf[k].branch_id = slot_id(retire_ptr, BranchPos(k))
<1>1. PICK s \in Window : /\ s < occupancy
                          /\ At(s).instr.op = "branch"
                          /\ shelf[k].branch_id = slot_id(retire_ptr, s)
  BY DEF ShelfInWindow, InUse
<1>2. BranchPos(k) = s
  BY <1>1, DistanceOfSlot, DrisSizeAssumption DEF BranchPos, Window, TypeOK
<1> QED BY <1>1, <1>2 DEF WindowExact

\* ... and is_older orders slots as their positions are ordered.
LEMMA BranchOrder ==
    ASSUME TypeOK, WindowExact, ShelfInWindow, NEW j \in InUse, NEW k \in InUse
    PROVE  is_older(shelf[j].branch_id, shelf[k].branch_id)
             <=> BranchPos(j) < BranchPos(k)
<1>1. /\ BranchPos(j) \in DrisIndices /\ BranchPos(k) \in DrisIndices
      /\ shelf[j].branch_id = slot_id(retire_ptr, BranchPos(j))
      /\ shelf[k].branch_id = slot_id(retire_ptr, BranchPos(k))
  BY BranchInWindow DEF Window, DrisIndices
<1> QED BY <1>1, OlderInWindow DEF TypeOK

\* The oldest slot of a set is at the lowest position.
LEMMA OldestPos ==
    ASSUME TypeOK, WindowExact, ShelfInWindow,
           NEW slots \in SUBSET InUse, NEW k \in OldestOf(slots)
    PROVE  /\ k \in InUse
           /\ \A j \in slots : j = k \/ BranchPos(k) < BranchPos(j)
<1>1. k \in slots /\ \A j \in slots \ {k} :
                        is_older(shelf[k].branch_id, shelf[j].branch_id)
  BY DEF OldestOf
<1> QED BY <1>1, BranchOrder

\* A branch retires no sooner than its slot leaves the shelf.
LEMMA BranchOutlivesSlot ==
    ASSUME TypeOK, WindowExact, ShelfInWindow, NEW k \in InUse, k \notin Leaving,
           InStatus("WRONG") # {} => mispredict_branch # {},
           entry_eligible(retire_slot_index(BranchPos(k)))
    PROVE  FALSE
<1> DEFINE p == BranchPos(k)
<1>0. \A j \in InUse : BranchPos(j) \in Int
  BY BranchInWindow DEF Window
<1>1. InStatus("UNDET") \subseteq InUse /\ InStatus("WRONG") \subseteq InUse
  BY DEF InStatus, InUse
<1>2. dris[retire_slot_index(p)].id = shelf[k].branch_id
  BY BranchInWindow DEF At
<1>3. \A j \in InStatus("UNDET") : p < BranchPos(j)
  <2>1. SUFFICES ASSUME NEW j \in InStatus("UNDET") PROVE p < BranchPos(j)
    OBVIOUS
  <2>2. PICK f \in oldest_branch : is_older(shelf[k].branch_id, shelf[f].branch_id)
    BY <1>2 DEF entry_eligible, BehindFence, branch_fence_valid
  <2>3. f \in InUse /\ (j = f \/ BranchPos(f) < BranchPos(j))
    BY <1>1, OldestPos DEF oldest_branch
  <2>4. p < BranchPos(f)
    BY <2>2, <2>3, BranchOrder
  <2> QED BY <1>0, <1>1, <2>3, <2>4
<1>4. \A j \in InStatus("WRONG") : j # k /\ ~(BranchPos(j) < p)
  <2>1. SUFFICES ASSUME NEW j \in InStatus("WRONG") PROVE j # k /\ ~(BranchPos(j) < p)
    OBVIOUS
  <2>2. PICK m \in mispredict_branch : TRUE
    OBVIOUS
  <2>3. m \in InUse /\ (j = m \/ BranchPos(m) < BranchPos(j))
    BY <1>1, OldestPos DEF mispredict_branch
  <2>4. k # m /\ ~is_older(shelf[m].branch_id, shelf[k].branch_id)
    BY <2>2 DEF Leaving, InUse
  <2>5. ~(BranchPos(m) < p)
    BY <2>3, <2>4, BranchOrder
  <2> QED BY <1>0, <1>1, <2>3, <2>4, <2>5
<1>5. shelf[k].status \in {"UNDET", "OK", "WRONG"}
  BY DEF TypeOK, ShelfEntry, InUse, InStatus
<1>6. CASE shelf[k].status \in {"UNDET", "WRONG"}
  BY <1>0, <1>3, <1>4, <1>6 DEF InStatus, InUse
<1>7. CASE shelf[k].status = "OK"
  <2>1. PICK j \in InStatus("UNDET") \cup InStatus("WRONG") :
           is_older(shelf[j].branch_id, shelf[k].branch_id)
    BY <1>7 DEF Leaving, ok_retire_safe, InUse
  <2>2. BranchPos(j) < p
    BY <1>1, <2>1, BranchOrder
  <2> QED BY <1>0, <1>1, <1>3, <1>4, <2>2
<1> QED BY <1>5, <1>6, <1>7

\* The occupancy of an exact window, and where its fetch pointer stands.
LEMMA OccupancyType ==
    ASSUME TypeOK, WindowExact
    PROVE  /\ occupancy \in 0 .. DRIS_NUM_ENTRIES
           /\ fetch_ptr = slot_id(retire_ptr, occupancy)
BY SlotOfDistance, DrisSizeAssumption DEF occupancy, TypeOK, WindowExact

\* An edge that retires the positions before n, flushes those from keep on and
\* takes a group in behind leaves those from n to keep + Len(group) valid.
LEMMA EdgeWindow ==
    ASSUME TypeOK, WindowExact,
           NEW group \in FetchGroups, NEW wbs, NEW accesses, NEW set, NEW clear,
           NEW n \in 0 .. occupancy, NEW keep \in n .. occupancy,
           keep + Len(group) <= DRIS_NUM_ENTRIES,
           Len(group) = 0 \/ keep = occupancy,
           \A t \in Window :
              /\ (t < n \/ (keep <= t /\ t < occupancy)) => retire_slot_index(t) \in clear
              /\ ((n <= t /\ t < keep) \/ (keep <= t /\ t < keep + Len(group)))
                    => retire_slot_index(t) \notin clear,
           DrisNext(group, fetch_ptr, wbs, accesses, set, clear),
           NEW s \in Window
    PROVE  LET e == dris'[retire_slot_index(s)] IN
           /\ e.valid <=> n <= s /\ s < keep + Len(group)
           /\ e.valid => e.id = slot_id(retire_ptr, s)
           /\ n <= s /\ s < keep => e.instr = At(s).instr
           /\ keep <= s /\ s < keep + Len(group) => e.instr = group[s - keep + 1]
<1>0. /\ occupancy \in 0 .. DRIS_NUM_ENTRIES
      /\ fetch_ptr = slot_id(retire_ptr, occupancy)
      /\ retire_ptr \in DrisIds
      /\ DRIS_NUM_ENTRIES \in Nat \ {0}
      /\ s \in 0 .. DRIS_NUM_ENTRIES - 1
      /\ n \in Nat /\ keep \in Nat /\ n <= keep /\ keep <= occupancy
  BY OccupancyType, DrisSizeAssumption DEF TypeOK, Window
<1>1. PICK L \in Nat : /\ L = Len(group)
                       /\ DOMAIN group = 1 .. L
                       /\ keep + L <= DRIS_NUM_ENTRIES
                       /\ L = 0 \/ keep = occupancy
  BY GroupType
<1>2. PICK i \in DrisIndices : i = retire_slot_index(s)
  BY WindowType
<1>3. PICK e : e = dris'[i]
  OBVIOUS
<1> DEFINE Goal == /\ e.valid <=> n <= s /\ s < keep + L
                   /\ e.valid => e.id = slot_id(retire_ptr, s)
                   /\ n <= s /\ s < keep => e.instr = At(s).instr
                   /\ keep <= s /\ s < keep + L => e.instr = group[s - keep + 1]
<1> SUFFICES Goal
  BY <1>1, <1>2, <1>3
<1>4. \A t \in Window : retire_slot_index(t) = i => t = s
  BY <1>0, <1>2, IndexInjective DEF retire_slot_index, Window, DrisIndices
<1>5. ASSUME NEW w \in DOMAIN group
      PROVE  /\ occupancy + w - 1 \in Window
             /\ slot_id(fetch_ptr, w - 1) = slot_id(retire_ptr, occupancy + w - 1)
  <2>1. /\ w - 1 \in Nat
        /\ occupancy \in Nat
        /\ occupancy + (w - 1) = occupancy + w - 1
        /\ occupancy + (w - 1) < DRIS_NUM_ENTRIES
        /\ occupancy + (w - 1) < 2 * DRIS_NUM_ENTRIES
    BY <1>0, <1>1
  <2>2. slot_id(slot_id(retire_ptr, occupancy), w - 1)
          = slot_id(retire_ptr, occupancy + (w - 1))
    BY <1>0, <2>1, SlotIdAdd
  <2> QED BY <1>0, <2>1, <2>2 DEF Window
<1>6. i \in fetch_write_mask(group, fetch_ptr)
        <=> \E w \in DOMAIN group : s = occupancy + w - 1
  BY <1>2, <1>4, <1>5 DEF fetch_write_mask, retire_slot_index
<1>7. /\ s < n \/ (keep <= s /\ s < occupancy) => i \in clear
      /\ (n <= s /\ s < keep) \/ (keep <= s /\ s < keep + L) => i \notin clear
  BY <1>1, <1>2
<1>8. /\ At(s).valid <=> s < occupancy
      /\ At(s).valid => At(s).id = slot_id(retire_ptr, s)
      /\ At(s) = dris[i]
      /\ At(s).valid \in BOOLEAN
  BY <1>2, WindowType DEF WindowExact, At, Entry
<1>9. CASE i \in clear
  <2>1. e.valid = FALSE
    BY <1>3, <1>9, EdgeEntries
  <2>2. ~(n <= s /\ s < keep) /\ ~(keep <= s /\ s < keep + L)
    BY <1>7, <1>9
  <2> QED BY <1>0, <1>1, <2>1, <2>2
<1>10. CASE i \notin clear /\ i \notin fetch_write_mask(group, fetch_ptr)
  <2>1. e.valid = dris[i].valid /\ e.id = dris[i].id /\ e.instr = dris[i].instr
    BY <1>3, <1>10, EdgeEntries
  <2>2. ~(keep <= s /\ s < keep + L)
    <3>1. SUFFICES ASSUME keep <= s, s < keep + L PROVE FALSE
      OBVIOUS
    <3>2. s - occupancy + 1 \in DOMAIN group /\ s = occupancy + (s - occupancy + 1) - 1
      BY <1>0, <1>1, <3>1
    <3> QED BY <1>6, <1>10, <3>2
  <2>3. s < occupancy <=> s < keep
    BY <1>0, <1>7, <1>10
  <2> QED BY <1>0, <1>1, <1>7, <1>8, <1>10, <2>1, <2>2, <2>3
<1>11. CASE i \notin clear /\ i \in fetch_write_mask(group, fetch_ptr)
  <2>1. PICK w \in DOMAIN group :
           /\ id_index(slot_id(fetch_ptr, w - 1)) = i
           /\ e.valid = TRUE
           /\ e.id = slot_id(fetch_ptr, w - 1)
           /\ e.instr = group[w]
    BY <1>3, <1>11, EdgeEntries, ZenonT(60)
  <2>2. occupancy + w - 1 = s
    BY <1>4, <1>5, <2>1 DEF retire_slot_index
  <2>3. w = s - keep + 1 /\ keep <= s /\ s < keep + L /\ keep = occupancy
    BY <1>0, <1>1, <2>1, <2>2
  <2> QED BY <1>0, <1>5, <2>1, <2>2, <2>3
<1> QED BY <1>9, <1>10, <1>11

\* The branch of a slot that stays on the shelf does not retire.
LEMMA BranchStays ==
    ASSUME TypeOK, WindowExact, ShelfInWindow, NEW ready \in BOOLEAN,
           NEW n \in 0 .. RETIRES_PER_CYCLE, RetireSlots(ready) = 0 .. n - 1,
           InStatus("WRONG") # {} => mispredict_branch # {},
           NEW k \in InUse \ Leaving
    PROVE  n <= BranchPos(k)
<1>1. SUFFICES ASSUME ~(n <= BranchPos(k)) PROVE FALSE
  OBVIOUS
<1>2. /\ BranchPos(k) \in 0 .. n - 1
      /\ At(BranchPos(k)).instr.op = "branch"
  BY <1>1, BranchInWindow, DrisSizeAssumption DEF Window
<1>3. CASE entry_eligible(retire_slot_index(BranchPos(k)))
  BY <1>3, BranchOutlivesSlot
<1>4. CASE BranchPos(k) = 0 /\ store_ready
  BY <1>2, <1>4 DEF store_ready, HeadEntry, At
<1> QED BY <1>2, <1>3, <1>4, RetiredPrefix

\* The shelf follows the window: what stays on it was neither retired nor
\* flushed, and what joins it was taken into the window.
LEMMA ShelfShift ==
    ASSUME TypeOK, WindowExact, ShelfInWindow,
           NEW group \in FetchGroups, NEW wbs, NEW wrong,
           NEW n \in 0 .. occupancy, NEW keep \in n .. occupancy,
           keep + Len(group) <= DRIS_NUM_ENTRIES,
           Len(group) = 0 \/ keep = occupancy,
           retire_ptr' = slot_id(retire_ptr, n),
           occupancy' = keep + Len(group) - n,
           \A s \in Window : n <= s => At(s - n)' = dris'[retire_slot_index(s)],
           \A s \in Window :
              /\ n <= s /\ s < keep => dris'[retire_slot_index(s)].instr = At(s).instr
              /\ keep <= s /\ s < keep + Len(group)
                    => dris'[retire_slot_index(s)].instr = group[s - keep + 1],
           \A k \in InUse \ Leaving : n <= BranchPos(k) /\ BranchPos(k) < keep,
           ShelfNext(group, fetch_ptr, wbs, wrong, FALSE)
    PROVE  ShelfInWindow'
<1>0. /\ occupancy \in 0 .. DRIS_NUM_ENTRIES
      /\ fetch_ptr = slot_id(retire_ptr, occupancy)
      /\ retire_ptr \in DrisIds
      /\ DRIS_NUM_ENTRIES \in Nat \ {0}
      /\ n \in Nat /\ keep \in Nat /\ n <= keep /\ keep <= occupancy
  BY OccupancyType, DrisSizeAssumption DEF TypeOK
<1>1. PICK L \in Nat : /\ L = Len(group)
                       /\ DOMAIN group = 1 .. L
                       /\ keep + L <= DRIS_NUM_ENTRIES
                       /\ L = 0 \/ keep = occupancy
  BY GroupType
\* A branch at position s of the old window is at s - n of the new one.
<1>2. ASSUME NEW k \in ShelfSlots, NEW s \in Window, n <= s, s < keep + L,
             dris'[retire_slot_index(s)].instr.op = "branch",
             shelf'[k].branch_id = slot_id(retire_ptr, s)
      PROVE  \E t \in Window : /\ t < occupancy'
                               /\ At(t)'.instr.op = "branch"
                               /\ shelf'[k].branch_id = slot_id(retire_ptr', t)
  <2>1. s - n \in Window /\ s - n < occupancy'
    BY <1>0, <1>1, <1>2 DEF Window
  <2>2. At(s - n)'.instr.op = "branch"
    BY <1>2
  <2>3. slot_id(slot_id(retire_ptr, n), s - n) = slot_id(retire_ptr, s)
    <3>1. s - n \in Nat /\ n + (s - n) = s /\ n + (s - n) < 2 * DRIS_NUM_ENTRIES
      BY <1>0, <1>2, SMTT(30) DEF Window
    <3>2. slot_id(slot_id(retire_ptr, n), s - n) = slot_id(retire_ptr, n + (s - n))
      BY <1>0, <3>1, SlotIdAdd
    <3> QED BY <3>1, <3>2
  <2> QED BY <1>2, <2>1, <2>2, <2>3
<1>3. SUFFICES ASSUME NEW k \in ShelfSlots, shelf'[k].status # "EMPTY"
               PROVE  \E t \in Window :
                         /\ t < occupancy'
                         /\ At(t)'.instr.op = "branch"
                         /\ shelf'[k].branch_id = slot_id(retire_ptr', t)
  BY DEF ShelfInWindow, InStatus, Window
<1> DEFINE taken == {w \in DOMAIN group : Takes(k, w, group)}
<1>4. shelf'[k] = SlotNext(k, group, fetch_ptr, wbs, wrong, FALSE)
  BY DEF ShelfNext
<1>5. k \notin Leaving
  BY <1>3, <1>4 DEF SlotNext, EmptySlot
<1>6. CASE taken # {}
  <2>1. PICK w \in DOMAIN group :
           /\ Takes(k, w, group)
           /\ shelf'[k].branch_id = slot_id(fetch_ptr, w - 1)
    <3>1. (CHOOSE w \in taken : TRUE) \in taken
      BY <1>6
    <3> QED BY <1>4, <1>5, <1>6, <3>1 DEF SlotNext, EmptySlot
  <2>2. group[w].op = "branch"
    BY <2>1 DEF Takes, Transfers
  <2>3. PICK s \in Window : s = occupancy + (w - 1) /\ w - 1 \in Nat
    BY <1>0, <1>1, SMTT(30) DEF Window
  <2>4. keep = occupancy /\ n <= s /\ keep <= s /\ s < keep + L /\ s - keep + 1 = w
    BY <1>0, <1>1, <2>3, SMTT(30)
  <2>5. slot_id(slot_id(retire_ptr, occupancy), w - 1) = slot_id(retire_ptr, s)
    <3>1. occupancy \in Nat /\ occupancy + (w - 1) < 2 * DRIS_NUM_ENTRIES
      BY <1>0, <2>3 DEF Window
    <3> QED BY <1>0, <2>3, <3>1, SlotIdAdd
  <2>6. dris'[retire_slot_index(s)].instr = group[w]
    BY <1>1, <2>4
  <2> QED BY <1>0, <1>2, <2>1, <2>2, <2>4, <2>5, <2>6
<1>7. CASE taken = {}
  <2>1. shelf'[k].branch_id = shelf[k].branch_id /\ k \in InUse
    <3>1. shelf[k] \in ShelfEntry
      BY DEF TypeOK
    <3>2. shelf'[k].branch_id = shelf[k].branch_id
      BY <1>4, <1>5, <1>7, <3>1 DEF SlotNext, ShelfEntry
    <3>3. \/ shelf'[k].status = shelf[k].status
          \/ k \in OldestOf(ReadyToResolve)
      BY <1>4, <1>5, <1>7, <3>1 DEF SlotNext, ShelfEntry
    <3>4. shelf[k].status # "EMPTY"
      BY <1>3, <3>3 DEF OldestOf, ReadyToResolve, InStatus
    <3> QED BY <3>2, <3>4 DEF InUse, InStatus
  <2>2. PICK s \in Window : s = BranchPos(k)
    BY <2>1, BranchInWindow
  <2>3. /\ n <= s /\ s < keep
        /\ At(s).instr.op = "branch"
        /\ shelf[k].branch_id = slot_id(retire_ptr, s)
    BY <1>5, <2>1, <2>2, BranchInWindow
  <2>4. s < keep + L
    BY <1>0, <1>1, <2>3 DEF Window
  <2> QED BY <1>2, <2>1, <2>3, <2>4
<1> QED BY <1>6, <1>7

\* What an edge does to the window, from the positions it retires and flushes.
LEMMA EdgeKeeps ==
    ASSUME TypeOK, WindowExact, ShelfInWindow,
           NEW group \in FetchGroups, NEW wbs, NEW accesses, NEW set, NEW clear, NEW wrong,
           NEW n \in 0 .. occupancy, NEW keep \in n .. occupancy,
           keep + Len(group) <= DRIS_NUM_ENTRIES,
           Len(group) = 0 \/ keep = occupancy,
           retire_ptr' = slot_id(retire_ptr, n),
           fetch_ptr' = slot_id(retire_ptr, keep + Len(group)),
           \A t \in Window :
              /\ (t < n \/ (keep <= t /\ t < occupancy)) => retire_slot_index(t) \in clear
              /\ ((n <= t /\ t < keep) \/ (keep <= t /\ t < keep + Len(group)))
                    => retire_slot_index(t) \notin clear,
           \A k \in InUse \ Leaving : n <= BranchPos(k) /\ BranchPos(k) < keep,
           DrisNext(group, fetch_ptr, wbs, accesses, set, clear),
           ShelfNext(group, fetch_ptr, wbs, wrong, FALSE)
    PROVE  WindowExact' /\ ShelfInWindow'
<1>1. \A s \in Window :
         LET e == dris'[retire_slot_index(s)] IN
         /\ e.valid <=> n <= s /\ s < keep + Len(group)
         /\ e.valid => e.id = slot_id(retire_ptr, s)
         /\ n <= s /\ s < keep => e.instr = At(s).instr
         /\ keep <= s /\ s < keep + Len(group) => e.instr = group[s - keep + 1]
  BY EdgeWindow
<1>2. PICK m : m = keep + Len(group)
  OBVIOUS
<1>3. n \in DrisIndices \cup {DRIS_NUM_ENTRIES} /\ m \in n .. DRIS_NUM_ENTRIES
  BY <1>2, GroupType, OccupancyType, DrisSizeAssumption DEF DrisIndices
<1>4. /\ WindowExact'
      /\ occupancy' = m - n
      /\ \A s \in Window : n <= s => At(s - n)' = dris'[retire_slot_index(s)]
  BY <1>1, <1>2, <1>3, WindowShift
<1>5. ShelfInWindow'
  <2>1. occupancy' = keep + Len(group) - n
    BY <1>2, <1>4
  <2>2. \A s \in Window :
           /\ n <= s /\ s < keep => dris'[retire_slot_index(s)].instr = At(s).instr
           /\ keep <= s /\ s < keep + Len(group)
                 => dris'[retire_slot_index(s)].instr = group[s - keep + 1]
    BY <1>1
  <2>3. \A s \in Window : n <= s => At(s - n)' = dris'[retire_slot_index(s)]
    BY <1>4
  <2> QED BY <2>1, <2>2, <2>3, ShelfShift
<1> QED BY <1>4, <1>5

\* What every edge but a trap's is to the window: n entries retire from the front,
\* those from position keep on are flushed, and the group lands behind the rest.
CoreEdge(group, accesses, set, clear, wrong, n, keep) ==
    /\ n \in 0 .. occupancy
    /\ keep \in n .. occupancy
    /\ keep + Len(group) <= DRIS_NUM_ENTRIES
    /\ Len(group) = 0 \/ keep = occupancy
    /\ clear \subseteq DrisIndices
    /\ retire_ptr' = slot_id(retire_ptr, n)
    /\ fetch_ptr' = slot_id(retire_ptr, keep + Len(group))
    /\ \A t \in Window :
          /\ (t < n \/ (keep <= t /\ t < occupancy)) => retire_slot_index(t) \in clear
          /\ ((n <= t /\ t < keep) \/ (keep <= t /\ t < keep + Len(group)))
                => retire_slot_index(t) \notin clear
    /\ \A t \in 0 .. n - 1 :
          entry_eligible(retire_slot_index(t)) \/ (t = 0 /\ store_ready)
    /\ \A k \in InUse \ Leaving : n <= BranchPos(k) /\ BranchPos(k) < keep
    /\ DrisNext(group, fetch_ptr, writeback_pkts, accesses, set, clear)
    /\ ShelfNext(group, fetch_ptr, writeback_pkts, wrong, FALSE)

\* What retires or is flushed is in the DRIS.
LEMMA ClearedIndices ==
    ASSUME TypeOK, NEW ready \in BOOLEAN
    PROVE  /\ retire_vector(ready) \subseteq DrisIndices
           /\ flush_mask \subseteq DrisIndices
<1>1. RetireSlots(ready) \subseteq Window
  BY DrisSizeAssumption DEF RetireSlots, Window
<1> QED BY <1>1, WindowType DEF retire_vector, flush_mask

\* Normal operation is such an edge.
LEMMA AdvanceEdge ==
    ASSUME TypeOK, WindowExact, ShelfInWindow, NEW done \in BOOLEAN, Advance(done)
    PROVE  \E group \in FetchGroups : \E accesses, set, clear, wrong, n, keep :
              CoreEdge(group, accesses, set, clear, wrong, n, keep)
<1>1. PICK group \in FetchGroups :
         Clock(group, done, FALSE) /\ fetch_ptr' = slot_id(fetch_ptr, Len(group))
  BY DEF Advance
<1>2. PICK ready \in BOOLEAN : ready = (probe = {} \/ done)
  OBVIOUS
<1>3. PICK n \in 0 .. RETIRES_PER_CYCLE :
         RetireSlots(ready) = 0 .. n - 1 /\ retire_ptr' = slot_id(retire_ptr, n)
  BY <1>1, <1>2 DEF Clock, RetireNext
<1>4. InStatus("WRONG") = {} /\ flush_mask = {}
  BY DEF Advance, mispredict_valid, flush_mask, mispredict_branch, OldestOf
<1>5. PICK accesses, set, clear :
         /\ clear = retire_vector(ready)
         /\ DrisNext(group, fetch_ptr, writeback_pkts, accesses, set, clear)
  BY <1>1, <1>2, <1>4 DEF Clock
<1>6. PICK wrong : ShelfNext(group, fetch_ptr, writeback_pkts, wrong, FALSE)
  BY <1>1 DEF Clock
<1>7. PICK keep : keep = occupancy
  OBVIOUS
<1>8. /\ keep \in 0 .. DRIS_NUM_ENTRIES
      /\ n \in 0 .. occupancy /\ n \in Nat /\ keep \in n .. occupancy
      /\ fetch_ptr = slot_id(retire_ptr, keep)
      /\ retire_ptr \in DrisIds
  BY <1>3, <1>7, RetiredPrefix, OccupancyType, DrisSizeAssumption DEF TypeOK
<1>9. Len(group) \in Nat /\ keep + Len(group) <= DRIS_NUM_ENTRIES
  <2>1. CASE group = <<>>
    BY <1>8, <2>1, DrisSizeAssumption
  <2>2. CASE group # <<>>
    <3>1. ~dris_full
      BY <2>2 DEF FetchGroups
    <3> QED BY <1>7, <1>8, <3>1, GroupType, DrisSizeAssumption DEF dris_full
  <2> QED BY <2>1, <2>2
<1>10. fetch_ptr' = slot_id(retire_ptr, keep + Len(group))
  <2>1. keep \in Nat /\ keep + Len(group) < 2 * DRIS_NUM_ENTRIES
    BY <1>8, <1>9, DrisSizeAssumption
  <2> QED BY <1>1, <1>8, <1>9, <2>1, SlotIdAdd
<1>11. \A t \in Window : retire_slot_index(t) \in clear <=> t < n
  <2>1. \A t \in Window : retire_slot_index(t) \in clear
                            <=> \E r \in 0 .. n - 1 : retire_slot_index(t)
                                                        = retire_slot_index(r)
    BY <1>3, <1>5, RetiredPrefix
  <2>2. \A r \in 0 .. n - 1 : r \in Window
    BY <1>3, RetiredPrefix
  <2>3. \A t \in Window, r \in Window :
           retire_slot_index(t) = retire_slot_index(r) => t = r
    BY <1>8, IndexInjective DEF retire_slot_index, Window, DrisIndices
  <2> QED BY <1>8, <2>1, <2>2, <2>3 DEF Window
<1>12. \A k \in InUse \ Leaving : n <= BranchPos(k) /\ BranchPos(k) < keep
  BY <1>3, <1>4, <1>7, BranchStays, BranchInWindow
<1>13. \A t \in Window :
          /\ (t < n \/ (keep <= t /\ t < occupancy)) => retire_slot_index(t) \in clear
          /\ ((n <= t /\ t < keep) \/ (keep <= t /\ t < keep + Len(group)))
                => retire_slot_index(t) \notin clear
  BY <1>7, <1>8, <1>11 DEF Window
<1>14. \A t \in 0 .. n - 1 : entry_eligible(retire_slot_index(t)) \/ (t = 0 /\ store_ready)
  BY <1>3, RetiredPrefix
<1>15. clear \subseteq DrisIndices
  BY <1>5, ClearedIndices
<1>16. CoreEdge(group, accesses, set, clear, wrong, n, keep)
  BY <1>3, <1>5, <1>6, <1>7, <1>8, <1>9, <1>10, <1>12, <1>13, <1>14, <1>15 DEF CoreEdge
<1> QED BY <1>16

\* So is a redirect: fetch resumes right behind the mispredicted branch.
LEMMA RepairEdge ==
    ASSUME TypeOK, WindowExact, ShelfInWindow, NEW done \in BOOLEAN, Repair(done)
    PROVE  \E group \in FetchGroups : \E accesses, set, clear, wrong, n, keep :
              /\ CoreEdge(group, accesses, set, clear, wrong, n, keep)
              /\ group = <<>>
<1>1. PICK m \in mispredict_branch : fetch_ptr' = slot_id(shelf[m].branch_id, 1)
  BY DEF Repair
<1>2. PICK ready \in BOOLEAN : ready = (probe = {} \/ done)
  OBVIOUS
<1>3. PICK n \in 0 .. RETIRES_PER_CYCLE :
         RetireSlots(ready) = 0 .. n - 1 /\ retire_ptr' = slot_id(retire_ptr, n)
  BY <1>2 DEF Repair, Clock, RetireNext
<1>4. PICK group \in FetchGroups : group = <<>> /\ Len(group) = 0
  BY EmptyGroup
<1>5. PICK accesses, set, clear :
         /\ clear = retire_vector(ready) \cup flush_mask
         /\ DrisNext(group, fetch_ptr, writeback_pkts, accesses, set, clear)
  BY <1>2, <1>4 DEF Repair, Clock
<1>6. PICK wrong : ShelfNext(group, fetch_ptr, writeback_pkts, wrong, FALSE)
  BY <1>4 DEF Repair, Clock
<1>7. m \in InUse /\ \A j \in mispredict_branch : j = m
  <2>1. InStatus("WRONG") \in SUBSET InUse
    BY DEF InStatus, InUse
  <2>2. \A j \in mispredict_branch : j \in InStatus("WRONG")
    BY DEF mispredict_branch, OldestOf
  <2>3. \A j \in InUse : BranchPos(j) \in Int
    BY BranchInWindow DEF Window
  <2>4. \A j \in mispredict_branch : j = m \/ (/\ BranchPos(m) < BranchPos(j)
                                              /\ BranchPos(j) < BranchPos(m))
    BY <2>1, <2>2, OldestPos DEF mispredict_branch
  <2> QED BY <2>1, <2>2, <2>3, <2>4
<1>8. PICK b \in Window : /\ b = BranchPos(m)
                          /\ b < occupancy
                          /\ shelf[m].branch_id = slot_id(retire_ptr, b)
  BY <1>7, BranchInWindow
<1>9. PICK keep : keep = b + 1
  OBVIOUS
<1>10. /\ occupancy \in 0 .. DRIS_NUM_ENTRIES
       /\ retire_ptr \in DrisIds
       /\ DRIS_NUM_ENTRIES \in Nat \ {0}
       /\ b \in Nat
  BY <1>8, OccupancyType, DrisSizeAssumption DEF TypeOK, Window
<1>11. \A t \in Window : t < occupancy => (retire_slot_index(t) \in flush_mask <=> b < t)
  <2>1. SUFFICES ASSUME NEW t \in Window, t < occupancy
                 PROVE  retire_slot_index(t) \in flush_mask <=> b < t
    OBVIOUS
  <2>2. dris[retire_slot_index(t)].id = slot_id(retire_ptr, t)
    BY <2>1 DEF WindowExact, At
  <2>3. is_older(slot_id(retire_ptr, b), slot_id(retire_ptr, t)) <=> b < t
    BY <1>10, OlderInWindow DEF Window, DrisIndices
  <2>4. retire_slot_index(t) \in DrisIndices
    BY WindowType
  <2> QED BY <1>7, <1>8, <2>2, <2>3, <2>4 DEF flush_mask
<1>12. n <= keep /\ n <= occupancy /\ n \in Nat
  <2>1. n <= occupancy
    BY <1>3, RetiredPrefix
  <2>2. SUFFICES ASSUME keep < n PROVE FALSE
    BY <1>9, <1>10, <2>1, DrisSizeAssumption
  <2>3. keep \in 0 .. n - 1 /\ keep < occupancy /\ keep # 0
    BY <1>9, <1>10, <2>1, <2>2
  <2>4. keep \in Window /\ entry_eligible(retire_slot_index(keep))
    BY <1>3, <2>3, RetiredPrefix
  <2> QED BY <1>9, <1>10, <1>11, <2>3, <2>4 DEF entry_eligible
<1>13. fetch_ptr' = slot_id(retire_ptr, keep + Len(group))
  <2>1. b + 1 < 2 * DRIS_NUM_ENTRIES
    BY <1>8, <1>10
  <2> QED BY <1>1, <1>4, <1>8, <1>9, <1>10, <2>1, SlotIdAdd
<1>14. \A t \in Window :
          /\ (t < n \/ (keep <= t /\ t < occupancy)) => retire_slot_index(t) \in clear
          /\ ((n <= t /\ t < keep) \/ (keep <= t /\ t < keep + Len(group)))
                => retire_slot_index(t) \notin clear
  <2>1. \A t \in Window : retire_slot_index(t) \in retire_vector(ready)
                            <=> \E r \in 0 .. n - 1 : retire_slot_index(t)
                                                        = retire_slot_index(r)
    BY <1>3, RetiredPrefix
  <2>2. \A r \in 0 .. n - 1 : r \in Window
    BY <1>3, RetiredPrefix
  <2>3. \A t \in Window, r \in Window :
           retire_slot_index(t) = retire_slot_index(r) => t = r
    BY <1>10, IndexInjective DEF retire_slot_index, Window, DrisIndices
  <2>4. \A t \in Window : retire_slot_index(t) \in retire_vector(ready) <=> t < n
    BY <1>12, <2>1, <2>2, <2>3 DEF Window
  <2> QED BY <1>4, <1>5, <1>8, <1>9, <1>10, <1>11, <1>12, <2>4 DEF Window
<1>15. \A k \in InUse \ Leaving : n <= BranchPos(k) /\ BranchPos(k) < keep
  <2>1. SUFFICES ASSUME NEW k \in InUse \ Leaving
                 PROVE  n <= BranchPos(k) /\ BranchPos(k) < keep
    OBVIOUS
  <2>2. n <= BranchPos(k)
    BY <1>3, BranchStays
  <2>3. ~is_older(shelf[m].branch_id, shelf[k].branch_id)
    BY DEF Leaving, InUse
  <2>4. ~(b < BranchPos(k)) /\ BranchPos(k) \in Int
    BY <1>7, <1>8, <2>3, BranchOrder, BranchInWindow DEF Window
  <2> QED BY <1>9, <1>10, <2>2, <2>4
<1>16. n \in 0 .. occupancy /\ keep \in n .. occupancy /\ keep + Len(group) <= DRIS_NUM_ENTRIES
  BY <1>4, <1>8, <1>9, <1>10, <1>12
<1>17. \A t \in 0 .. n - 1 : entry_eligible(retire_slot_index(t)) \/ (t = 0 /\ store_ready)
  BY <1>3, RetiredPrefix
<1>18. clear \subseteq DrisIndices
  BY <1>5, ClearedIndices
<1>19. CoreEdge(group, accesses, set, clear, wrong, n, keep)
  BY <1>3, <1>4, <1>5, <1>6, <1>13, <1>14, <1>15, <1>16, <1>17, <1>18 DEF CoreEdge
<1> QED BY <1>4, <1>19

\* Either keeps the window exact and the shelf in it.
LEMMA CoreEdgeKeeps ==
    ASSUME TypeOK, WindowExact, ShelfInWindow, NEW group \in FetchGroups,
           NEW accesses, NEW set, NEW clear, NEW wrong, NEW n, NEW keep,
           CoreEdge(group, accesses, set, clear, wrong, n, keep)
    PROVE  WindowExact' /\ ShelfInWindow'
BY EdgeKeeps DEF CoreEdge

-----------------------------------------------------------------------------
(***************************************************************************)
(* Traps.                                                                  *)
(***************************************************************************)

\* An entry that traps after an edge trapped before it, or took the report of
\* a trapping instruction while it was valid.
LEMMA EdgeTrap ==
    ASSUME TypeOK, NEW group, NEW wbs, NEW accesses, NEW set, NEW clear,
           DrisNext(group, fetch_ptr, wbs, accesses, set, clear),
           NEW i \in DrisIndices, dris'[i].trap
    PROVE  /\ i \notin clear
           /\ i \notin fetch_write_mask(group, fetch_ptr)
           /\ \/ dris[i].trap
              \/ \E p \in wbs : p.op = "ecall" /\ id_index(p.id) = i /\ dris[i].valid
<1> DEFINE born == fetch_write_mask(group, fetch_ptr)
           reports == Traps(AguPasses(wbs, born) \cup Completions(wbs, born))
           e == AfterIntake(i, group, fetch_ptr, wbs, clear)
<1>1. dris'[i] = EntryNext(i, group, fetch_ptr, wbs, accesses, set, clear)
  BY DEF DrisNext
<1>2. i \notin clear
  BY <1>1 DEF EntryNext, EmptyEntry
<1>3. \A p \in reports : /\ p \in wbs /\ p.op = "ecall"
                         /\ id_index(p.id) \notin born
                         /\ dris[id_index(p.id)].valid
  BY DEF Traps, AguPasses, Completions, wb_accepted
<1>4. CASE i \in born
  <2>1. PICK w : e = Newborn(w, group, fetch_ptr, wbs, clear)
    BY <1>4 DEF AfterIntake
  <2>2. e.trap = FALSE
    BY <2>1 DEF Newborn, EmptyEntry
  <2>3. i \notin Targets(reports)
    BY <1>3, <1>4 DEF Targets
  <2>4. dris'[i].trap <=> (e.trap \/ i \in Targets(reports))
    <3>1. DOMAIN e = DOMAIN EmptyEntry(0)
      BY <2>1 DEF Newborn
    <3> QED BY <1>1, <1>2, <3>1 DEF EntryNext, EmptyEntry
  <2> QED BY <2>2, <2>3, <2>4
<1>5. CASE i \notin born
  <2>1. e = dris[i] /\ dris[i] \in Entry
    BY <1>5 DEF AfterIntake, TypeOK
  <2>2. dris'[i].trap <=> (dris[i].trap \/ i \in Targets(reports))
    BY <1>1, <1>2, <2>1 DEF EntryNext, Entry
  <2> QED BY <1>2, <1>3, <1>5, <2>2 DEF Targets
<1> QED BY <1>4, <1>5

\* The bookkeeping behind traps survives any edge that takes in a group behind
\* the valid entries.
LEMMA ClockTraps ==
    ASSUME TypeOK, TrapsMatch, NEW group \in FetchGroups, NEW done \in BOOLEAN,
           NEW global_flush, Clock(group, done, global_flush),
           \A i \in DrisIndices :
              dris[i].valid => i \notin fetch_write_mask(group, fetch_ptr)
    PROVE  TrapsMatch'
<1> DEFINE born == fetch_write_mask(group, fetch_ptr)
<1>1. PICK accesses, set, clear :
         /\ DrisNext(group, fetch_ptr, writeback_pkts, accesses, set, clear)
         /\ issue_reg' = Outlive(issue_pkts, clear)
         /\ rsp' \in {{}, {p \in Outlive(probe, clear) : p.op = "load"}}
  BY DEF Clock
<1>2. \A p \in rsp' : p.op = "load"
  BY <1>1
<1>3. ASSUME NEW i \in DrisIndices
      PROVE  id_index(dris'[i].id) = i
  <2>1. CASE i \in clear
    <3>1. dris'[i].id = i
      BY <1>1, <2>1, EdgeEntries
    <3>2. id_index(i) = i
      BY DrisSizeAssumption DEF DrisIndices, id_index, id_color
    <3> QED BY <3>1, <3>2
  <2>2. CASE i \notin clear /\ i \notin born
    <3>1. dris'[i].id = dris[i].id
      BY <1>1, <2>2, EdgeEntries
    <3> QED BY <3>1 DEF TrapsMatch
  <2>3. CASE i \notin clear /\ i \in born
    BY <1>1, <2>3, EdgeEntries, ZenonT(60)
  <2> QED BY <2>1, <2>2, <2>3
<1>4. ASSUME NEW i \in DrisIndices, dris'[i].trap
      PROVE  dris'[i].instr.op = "ecall"
  <2>1. /\ i \notin clear
        /\ i \notin born
        /\ \/ dris[i].trap
           \/ \E p \in writeback_pkts :
                 p.op = "ecall" /\ id_index(p.id) = i /\ dris[i].valid
    BY <1>1, <1>4, EdgeTrap
  <2>2. dris[i].instr.op = "ecall"
    <3>1. CASE dris[i].trap
      BY <3>1 DEF TrapsMatch
    <3>2. CASE \E p \in writeback_pkts :
                  p.op = "ecall" /\ id_index(p.id) = i /\ dris[i].valid
      BY <3>2 DEF TrapsMatch, writeback_pkts
    <3> QED BY <2>1, <3>1, <3>2
  <2>3. dris'[i].instr = dris[i].instr
    BY <1>1, <2>1, EdgeEntries
  <2> QED BY <2>2, <2>3
<1>5. ASSUME NEW p \in issue_reg', dris'[id_index(p.id)].valid
      PROVE  dris'[id_index(p.id)].instr.op = p.op
  <2>1. PICK s \in Window : /\ ready_vector(s)
                            /\ p.id = At(s).id
                            /\ p.op = At(s).instr.op
    <3>1. PICK q \in issue_pkts : p.id = q.id /\ p.op = q.op
      <4>1. PICK q \in issue_pkts :
               p = [q EXCEPT !.live = @ /\ id_index(q.id) \notin clear]
        BY <1>1, <1>5 DEF Outlive
      <4> QED BY <4>1 DEF issue_pkts
    <3>2. PICK s \in Selected : q.id = At(s).id /\ q.op = At(s).instr.op
      BY DEF issue_pkts
    <3> QED BY <3>1, <3>2 DEF Selected
  <2>2. PICK i \in DrisIndices : i = retire_slot_index(s) /\ At(s) = dris[i]
    BY WindowType DEF At
  <2>3. id_index(p.id) = i /\ dris[i].valid
    BY <2>1, <2>2 DEF TrapsMatch, ready_vector
  <2>4. i \notin born
    BY <2>3
  <2>5. dris'[i].instr = dris[i].instr
    BY <1>1, <1>5, <2>3, <2>4, EdgeEntries
  <2> QED BY <2>1, <2>2, <2>3, <2>5
<1> QED BY <1>2, <1>3, <1>4, <1>5 DEF TrapsMatch

\* Nothing retires past a trapped head.
LEMMA TrapBlocks ==
    ASSUME TypeOK, TrapsMatch, Trapped, NEW ready \in BOOLEAN
    PROVE  RetireSlots(ready) = {}
<1>1. /\ HeadEntry = dris[retire_slot_index(0)]
      /\ retire_slot_index(0) \in DrisIndices
  BY WindowType, DrisSizeAssumption DEF HeadEntry, Window
<1>2. ~entry_eligible(retire_slot_index(0))
  BY <1>1 DEF Trapped, entry_eligible
<1>3. ~store_ready
  BY <1>1 DEF Trapped, TrapsMatch, store_ready
<1>4. \A s \in 0 .. RETIRES_PER_CYCLE - 1 : ~retire_ready(s, ready)
  BY <1>2, <1>3, DrisSizeAssumption DEF retire_ready
<1> QED BY <1>4 DEF RetireSlots

\* A head that is in an exact window, or on a wiped shelf, is never flushed.
LEMMA HeadNotFlushed ==
    ASSUME TypeOK, HeadEntry.valid, (WindowExact /\ ShelfInWindow) \/ ShelfWiped
    PROVE  retire_slot_index(0) \notin flush_mask
<1>1. SUFFICES ASSUME NEW m \in mispredict_branch,
                      is_older(shelf[m].branch_id, HeadEntry.id)
               PROVE  FALSE
  BY DEF flush_mask, HeadEntry
<1>2. m \in InUse
  BY DEF mispredict_branch, OldestOf, InStatus, InUse
<1>3. CASE WindowExact /\ ShelfInWindow
  <2>1. 0 \in Window /\ HeadEntry = At(0)
    BY DrisSizeAssumption DEF Window, HeadEntry, At
  <2>2. HeadEntry.id = slot_id(retire_ptr, 0)
    BY <1>3, <2>1 DEF WindowExact
  <2>3. /\ BranchPos(m) \in DrisIndices
        /\ shelf[m].branch_id = slot_id(retire_ptr, BranchPos(m))
    BY <1>2, <1>3, BranchInWindow DEF Window, DrisIndices
  <2>4. BranchPos(m) < 0
    BY <1>1, <2>1, <2>2, <2>3, OlderInWindow DEF Window, DrisIndices, TypeOK
  <2> QED BY <2>3, <2>4 DEF DrisIndices
<1>4. CASE ShelfWiped
  BY <1>2, <1>4 DEF ShelfWiped, InUse
<1> QED BY <1>3, <1>4

\* A wiped shelf means the trap is being raised.
LEMMA WipedTraps ==
    ASSUME ShelfWiped
    PROVE  trap_valid
<1>1. InStatus("UNDET") = {}
  BY DEF ShelfWiped, InStatus
<1> QED BY <1>1 DEF ShelfWiped, Trapped, trap_valid, BehindFence, branch_fence_valid

\* A trap leaves the head where it is, trapped, and the shelf empty.
LEMMA TrapKeeps ==
    ASSUME TypeOK, InFlight, NEW done \in BOOLEAN, Trap(done)
    PROVE  ShelfWiped' /\ retire_ptr' = retire_ptr
<1>1. Trapped
  BY DEF Trap, trap_valid, Trapped
<1>2. PICK ready \in BOOLEAN : ready = (probe = {} \/ done)
  OBVIOUS
<1>3. RetireSlots(ready) = {}
  BY <1>1, TrapBlocks DEF InFlight
<1>4. retire_ptr' = retire_ptr
  <2>1. PICK n \in 0 .. RETIRES_PER_CYCLE :
           RetireSlots(ready) = 0 .. n - 1 /\ retire_ptr' = slot_id(retire_ptr, n)
    BY <1>2 DEF Trap, Clock, RetireNext
  <2>2. n = 0
    <3>1. n # 0 => 0 \in 0 .. n - 1
      BY DrisSizeAssumption
    <3> QED BY <1>3, <2>1, <3>1
  <2> QED BY <2>1, <2>2, DrisSizeAssumption DEF slot_id, Wrap, TypeOK, DrisIds
<1>5. PICK i \in DrisIndices : i = retire_slot_index(0) /\ HeadEntry = dris[i]
  BY WindowType, DrisSizeAssumption DEF HeadEntry, Window
<1>6. dris'[i].valid /\ dris'[i].trap
  <2>1. PICK accesses, set, clear :
           /\ clear = retire_vector(ready) \cup flush_mask
           /\ DrisNext(<<>>, fetch_ptr, writeback_pkts, accesses, set, clear)
    BY <1>2 DEF Trap, Clock
  <2>2. i \notin flush_mask
    BY <1>1, <1>5, HeadNotFlushed DEF InFlight, Trapped
  <2>3. i \notin clear
    BY <1>3, <2>1, <2>2 DEF retire_vector
  <2>4. i \notin fetch_write_mask(<<>>, fetch_ptr)
    BY DEF fetch_write_mask
  <2>5. dris'[i].valid = dris[i].valid
    BY <2>1, <2>3, <2>4, EdgeEntries
  <2>6. dris[i].trap => dris'[i].trap
    BY <2>1, <2>3, <2>4, EdgeEntries
  <2> QED BY <1>1, <1>5, <2>5, <2>6 DEF Trapped
<1>7. Trapped'
  BY <1>4, <1>5, <1>6 DEF Trapped, HeadEntry, retire_slot_index
<1>8. \A k \in ShelfSlots : shelf'[k].status = "EMPTY"
  <2>1. PICK wrong : ShelfNext(<<>>, fetch_ptr, writeback_pkts, wrong, TRUE)
    BY DEF Trap, Clock
  <2> QED BY <2>1 DEF ShelfNext, SlotNext, EmptySlot
<1> QED BY <1>4, <1>7, <1>8 DEF ShelfWiped, InStatus

\* No valid entry is in the way of a fetch group.
LEMMA RoomForGroup ==
    ASSUME TypeOK, WindowExact, NEW group \in FetchGroups, NEW i \in DrisIndices,
           dris[i].valid
    PROVE  i \notin fetch_write_mask(group, fetch_ptr)
<1>0. /\ occupancy \in 0 .. DRIS_NUM_ENTRIES
      /\ fetch_ptr = slot_id(retire_ptr, occupancy)
      /\ retire_ptr \in DrisIds
      /\ DRIS_NUM_ENTRIES \in Nat \ {0}
  BY OccupancyType, DrisSizeAssumption DEF TypeOK
<1>1. PICK s \in Window : i = id_index(slot_id(retire_ptr, s))
  BY <1>0, IndexSurjective DEF Window, DrisIndices
<1>2. s < occupancy
  BY <1>1 DEF WindowExact, At, retire_slot_index
<1>3. SUFFICES ASSUME NEW w \in DOMAIN group, id_index(slot_id(fetch_ptr, w - 1)) = i
               PROVE  FALSE
  BY DEF fetch_write_mask
<1>4. w - 1 \in Nat /\ occupancy + (w - 1) < DRIS_NUM_ENTRIES
  <2>1. group # <<>> /\ DOMAIN group = 1 .. Len(group) /\ Len(group) \in 0 .. FETCH_WAYS
    BY <1>3, GroupType
  <2>2. ~dris_full
    BY <2>1 DEF FetchGroups
  <2> QED BY <1>0, <1>3, <2>1, <2>2, DrisSizeAssumption DEF dris_full
<1>5. slot_id(fetch_ptr, w - 1) = slot_id(retire_ptr, occupancy + (w - 1))
  BY <1>0, <1>4, SlotIdAdd
<1>6. occupancy + (w - 1) \in DrisIndices /\ s \in DrisIndices
  BY <1>0, <1>4 DEF DrisIndices, Window
<1>7. s = occupancy + (w - 1)
  BY <1>0, <1>1, <1>3, <1>5, <1>6, IndexInjective
<1> QED BY <1>0, <1>2, <1>4, <1>7 DEF DrisIndices, Window

\* The inductive step.
LEMMA InFlightStep ==
    ASSUME TypeOK, InFlight, [Next]_vars
    PROVE  InFlight'
<1>1. ASSUME NEW done \in BOOLEAN, Advance(done) PROVE InFlight'
  <2>1. WindowExact /\ ShelfInWindow
    BY <1>1, WipedTraps DEF InFlight, Advance
  <2>2. PICK group \in FetchGroups : Clock(group, done, FALSE)
    BY <1>1 DEF Advance
  <2>3. TrapsMatch'
    BY <2>1, <2>2, RoomForGroup, ClockTraps DEF InFlight
  <2> QED BY <1>1, <2>1, <2>3, AdvanceEdge, CoreEdgeKeeps DEF InFlight
<1>2. ASSUME NEW i, NEW ptr PROVE i \notin fetch_write_mask(<<>>, ptr)
  BY DEF fetch_write_mask
<1>3. ASSUME NEW done \in BOOLEAN, Repair(done) PROVE InFlight'
  <2>1. WindowExact /\ ShelfInWindow
    BY <1>3, WipedTraps DEF InFlight, Repair
  <2>2. TrapsMatch'
    BY <1>2, <1>3, EmptyGroup, ClockTraps DEF InFlight, Repair
  <2> QED BY <1>3, <2>1, <2>2, RepairEdge, CoreEdgeKeeps DEF InFlight
<1>4. ASSUME NEW done \in BOOLEAN, Trap(done) PROVE InFlight'
  <2>1. TrapsMatch'
    BY <1>2, <1>4, EmptyGroup, ClockTraps DEF InFlight, Trap
  <2> QED BY <1>4, <2>1, TrapKeeps DEF InFlight
<1>5. CASE UNCHANGED vars
  BY <1>5 DEF vars, InFlight, TrapsMatch, WindowExact, ShelfInWindow, ShelfWiped,
              Trapped, HeadEntry, retire_slot_index, occupancy, At, InStatus
<1> QED BY <1>1, <1>3, <1>4, <1>5 DEF Next, Tick

\* The core comes out of reset with an empty window and an empty shelf.
LEMMA InFlightInit == Init => InFlight
<1> SUFFICES ASSUME Init PROVE InFlight
  OBVIOUS
<1>1. TrapsMatch
  <2>1. \A i \in DrisIndices : id_index(i) = i
    BY DrisSizeAssumption DEF DrisIndices, id_index, id_color
  <2> QED BY <2>1 DEF Init, DrisInit, EmptyEntry, TrapsMatch
<1>2. occupancy = 0
  BY DrisSizeAssumption DEF Init, occupancy, Distance
<1>3. retire_ptr \in DrisIds
  BY DrisSizeAssumption DEF Init, DrisIds
<1>4. \A s \in Window : retire_slot_index(s) \in DrisIndices
  BY <1>3, SlotIdType, IndexType, DrisSizeAssumption DEF retire_slot_index, Window
<1>5. \A s \in Window : At(s).valid = FALSE
  BY <1>4 DEF Init, DrisInit, EmptyEntry, At
<1>6. WindowExact
  BY <1>2, <1>5, DrisSizeAssumption DEF WindowExact, Window
<1>7. ShelfInWindow
  BY DEF Init, ShelfInit, EmptySlot, ShelfInWindow, InStatus
<1> QED BY <1>1, <1>6, <1>7 DEF InFlight

\* The window and the shelf agree until a trap wipes the shelf.
THEOREM InFlightInvariant == Spec => []InFlight
<1>1. Init => InFlight
  BY InFlightInit
<1>2. TypeOK /\ InFlight /\ [Next]_vars => InFlight'
  BY InFlightStep
<1> QED BY <1>1, <1>2, TypeCorrect, PTL DEF Spec

\* The valid entries of the DRIS are exactly those between the two pointers, each
\* under the id of its position, whatever retires, is flushed or is taken in.
THEOREM WindowCorrect == Spec => []ValidWindow
<1>1. InFlight => ValidWindow
  BY DEF InFlight, ValidWindow, ShelfWiped
<1> QED BY <1>1, InFlightInvariant, PTL

\* What may retire is not younger than any branch in doubt.
LEMMA EligibleRightPath ==
    ASSUME TypeOK, WindowExact, ShelfInWindow,
           InStatus("WRONG") # {} => mispredict_branch # {},
           NEW s \in Window, s < occupancy,
           entry_eligible(retire_slot_index(s)) \/ (s = 0 /\ store_ready),
           NEW k \in InStatus("UNDET") \cup InStatus("WRONG")
    PROVE  ~(BranchPos(k) < s)
<1>1. /\ InStatus("UNDET") \subseteq InUse /\ InStatus("WRONG") \subseteq InUse
      /\ k \in InUse
  BY DEF InStatus, InUse
<1>2. \A j \in InUse : BranchPos(j) \in Nat
  BY BranchInWindow, DrisSizeAssumption DEF Window
<1>3. \A j \in InUse : /\ is_older(shelf[j].branch_id, At(s).id) <=> BranchPos(j) < s
                       /\ is_older(At(s).id, shelf[j].branch_id) <=> s < BranchPos(j)
  <2>1. SUFFICES ASSUME NEW j \in InUse
                 PROVE  /\ is_older(shelf[j].branch_id, At(s).id) <=> BranchPos(j) < s
                        /\ is_older(At(s).id, shelf[j].branch_id) <=> s < BranchPos(j)
    OBVIOUS
  <2>2. At(s).id = slot_id(retire_ptr, s)
    BY DEF WindowExact
  <2>3. PICK b \in DrisIndices : /\ b = BranchPos(j)
                                 /\ shelf[j].branch_id = slot_id(retire_ptr, b)
    BY BranchInWindow DEF Window, DrisIndices
  <2>4. s \in DrisIndices /\ retire_ptr \in DrisIds
    BY DEF Window, DrisIndices, TypeOK
  <2> QED BY <2>2, <2>3, <2>4, OlderInWindow
<1>4. CASE s = 0
  BY <1>1, <1>2, <1>4
<1>5. CASE entry_eligible(retire_slot_index(s)) /\ k \in InStatus("UNDET")
  <2>1. PICK f \in oldest_branch : is_older(At(s).id, shelf[f].branch_id)
    BY <1>5 DEF entry_eligible, BehindFence, branch_fence_valid, At
  <2>2. f \in InUse /\ (k = f \/ BranchPos(f) < BranchPos(k))
    BY <1>1, <1>5, OldestPos DEF oldest_branch
  <2>3. s < BranchPos(f) /\ s \in Int
    BY <1>3, <2>1, <2>2 DEF Window
  <2> QED BY <1>1, <1>2, <2>2, <2>3
<1>6. CASE entry_eligible(retire_slot_index(s)) /\ k \in InStatus("WRONG")
  <2>1. PICK m \in mispredict_branch : TRUE
    BY <1>6
  <2>2. m \in InUse /\ (k = m \/ BranchPos(m) < BranchPos(k))
    BY <1>1, <1>6, OldestPos DEF mispredict_branch
  <2>3. ~is_older(shelf[m].branch_id, At(s).id)
    <3>1. retire_slot_index(s) \in DrisIndices
      BY WindowType
    <3> QED BY <1>6, <2>1, <3>1 DEF entry_eligible, flush_mask, At
  <2>4. ~(BranchPos(m) < s) /\ s \in Int
    BY <1>3, <2>2, <2>3 DEF Window
  <2> QED BY <1>1, <1>2, <2>2, <2>4
<1> QED BY <1>4, <1>5, <1>6

\* An edge that retires something retires only what EligibleRightPath allows.
LEMMA ClockRightPath ==
    ASSUME TypeOK, WindowExact, ShelfInWindow,
           InStatus("WRONG") # {} => mispredict_branch # {},
           NEW ready \in BOOLEAN, NEW n \in 0 .. RETIRES_PER_CYCLE,
           RetireSlots(ready) = 0 .. n - 1,
           NEW ptr, ptr = slot_id(retire_ptr, n),
           NEW i \in DrisIndices, dris[i].valid,
           Distance(retire_ptr, dris[i].id) < Distance(retire_ptr, ptr),
           NEW k \in InStatus("UNDET") \cup InStatus("WRONG")
    PROVE  ~is_older(shelf[k].branch_id, dris[i].id)
<1>0. /\ occupancy \in 0 .. DRIS_NUM_ENTRIES
      /\ retire_ptr \in DrisIds
      /\ DRIS_NUM_ENTRIES \in Nat \ {0}
      /\ n \in Nat /\ n <= occupancy
  BY OccupancyType, RetiredPrefix, DrisSizeAssumption DEF TypeOK
<1>1. PICK s \in Window : i = retire_slot_index(s) /\ s \in DrisIndices
  BY <1>0, IndexSurjective DEF Window, DrisIndices, retire_slot_index
<1>2. s < occupancy /\ dris[i].id = slot_id(retire_ptr, s)
  BY <1>1 DEF WindowExact, At
<1>3. Distance(retire_ptr, slot_id(retire_ptr, s)) = s
  BY <1>0, <1>1, DistanceOfSlot DEF DrisIndices
<1>4. Distance(retire_ptr, slot_id(retire_ptr, n)) = n
  BY <1>0, DistanceOfSlot
<1>5. s \in 0 .. n - 1
  BY <1>0, <1>1, <1>2, <1>3, <1>4 DEF DrisIndices
<1>6. entry_eligible(retire_slot_index(s)) \/ (s = 0 /\ store_ready)
  BY <1>5, RetiredPrefix
<1>7. ~(BranchPos(k) < s)
  BY <1>2, <1>6, EligibleRightPath
<1>8. PICK b \in DrisIndices : /\ b = BranchPos(k)
                               /\ shelf[k].branch_id = slot_id(retire_ptr, b)
  <2>1. k \in InUse
    BY DEF InStatus, InUse
  <2> QED BY <2>1, BranchInWindow DEF Window, DrisIndices
<1> QED BY <1>0, <1>1, <1>2, <1>7, <1>8, OlderInWindow

\* Nothing younger than a branch in doubt retires.
THEOREM RightPath == Spec => RetireRightPathOnly
<1> DEFINE Right ==
              \A i \in DrisIndices :
                (dris[i].valid /\ retire_ptr' # retire_ptr
                   /\ Distance(retire_ptr, dris[i].id) < Distance(retire_ptr, retire_ptr'))
                  => \A k \in InStatus("UNDET") \cup InStatus("WRONG") :
                        ~is_older(shelf[k].branch_id, dris[i].id)
<1>1. TypeOK /\ InFlight /\ [Next]_vars => [Right]_vars
  <2> SUFFICES ASSUME TypeOK, InFlight, Next PROVE Right
    OBVIOUS
  <2>1. ASSUME NEW done \in BOOLEAN, Advance(done) \/ Repair(done) PROVE Right
    <3>1. WindowExact /\ ShelfInWindow
      BY <2>1, WipedTraps DEF InFlight, Advance, Repair
    <3>2. InStatus("WRONG") # {} => mispredict_branch # {}
      BY <2>1 DEF Advance, Repair, mispredict_valid
    <3>3. PICK ready \in BOOLEAN : ready = (probe = {} \/ done)
      OBVIOUS
    <3>4. PICK n \in 0 .. RETIRES_PER_CYCLE :
             RetireSlots(ready) = 0 .. n - 1 /\ retire_ptr' = slot_id(retire_ptr, n)
      BY <2>1, <3>3 DEF Advance, Repair, Clock, RetireNext
    <3>5. PICK ptr : ptr = retire_ptr'
      OBVIOUS
    <3> QED BY <3>1, <3>2, <3>4, <3>5, ClockRightPath
  <2>2. ASSUME NEW done \in BOOLEAN, Trap(done) PROVE Right
    BY <2>2, TrapKeeps
  <2> QED BY <2>1, <2>2 DEF Next, Tick
<1>2. [][Right]_vars => RetireRightPathOnly
  BY DEF RetireRightPathOnly
<1> QED BY <1>1, <1>2, TypeCorrect, InFlightInvariant, PTL DEF Spec

\* A trap is precise and final.
THEOREM TrapFinal == Spec => TrapIsFinal
<1> DEFINE Final ==
              trap_valid => /\ trap_valid'
                            /\ retire_ptr' = retire_ptr
                            /\ \A p \in probe' : p.op = "store" =>
                                  \E q \in probe : q.id = p.id /\ q.op = "store"
<1>1. TypeOK /\ InFlight /\ [Next]_vars => [Final]_vars
  <2> SUFFICES ASSUME TypeOK, InFlight, Next, trap_valid
               PROVE  /\ trap_valid'
                      /\ retire_ptr' = retire_ptr
                      /\ \A p \in probe' : p.op = "store" =>
                            \E q \in probe : q.id = p.id /\ q.op = "store"
    OBVIOUS
  <2>1. PICK done \in BOOLEAN : Trap(done)
    BY DEF Next, Tick, Advance, Repair
  <2>2. ShelfWiped' /\ retire_ptr' = retire_ptr
    BY <2>1, TrapKeeps
  <2>3. trap_valid'
    BY <2>2 DEF ShelfWiped, Trapped, trap_valid, BehindFence, branch_fence_valid, InStatus
  <2>4. ASSUME NEW p \in probe', p.op = "store"
        PROVE  \E q \in probe : q.id = p.id /\ q.op = "store"
    <3>1. PICK ready \in BOOLEAN : ready = (probe = {} \/ done)
      OBVIOUS
    <3>2. PICK cleared :
             probe' = Outlive(IF ready THEN mem_issue_pkts(ready) ELSE probe, cleared)
      BY <2>1, <3>1 DEF Trap, Clock
    <3>3. PICK q : /\ q \in IF ready THEN mem_issue_pkts(ready) ELSE probe
                   /\ p = [q EXCEPT !.live = @ /\ id_index(q.id) \notin cleared]
      BY <2>4, <3>2 DEF Outlive
    <3>4. q \in mem_issue_pkts(ready) \/ q \in probe
      BY <3>3
    <3>5. q \in Packet
      BY <3>4, IssueType DEF TypeOK
    <3>6. q.id = p.id /\ q.op = "store"
      BY <2>4, <3>3, <3>5 DEF Packet
    <3>7. CASE q \in mem_issue_pkts(ready)
      <4>1. PICK s \in Window : MemAdmissible(s, ready) /\ At(s).instr.op = "store"
        BY <3>6, <3>7 DEF mem_issue_pkts, MemSelected
      <4>2. retire_vector(ready) = {}
        BY TrapBlocks DEF InFlight, trap_valid, Trapped, retire_vector
      <4> QED BY <4>1, <4>2 DEF MemAdmissible
    <3> QED BY <3>4, <3>6, <3>7
  <2> QED BY <2>2, <2>3, <2>4
<1>2. [][Final]_vars => TrapIsFinal
  BY DEF TrapIsFinal
<1> QED BY <1>1, <1>2, TypeCorrect, InFlightInvariant, PTL DEF Spec

-----------------------------------------------------------------------------
(***************************************************************************)
(* Stores.                                                                 *)
(***************************************************************************)

\* The SSC retires a store in exactly the cycles it gets the D-cache port.
THEOREM StoreCorrect == Spec => []StoreAtRetire
<1>1. TypeOK => StoreAtRetire
  <2> SUFFICES ASSUME TypeOK, NEW ready \in BOOLEAN, NEW i \in DrisIndices,
                      dris[i].instr.op = "store"
               PROVE  i \in retire_vector(ready) <=> i \in set_dispatched_mem(ready)
    BY DEF StoreAtRetire
  <2>1. ASSUME i \in retire_vector(ready) PROVE i \in set_dispatched_mem(ready)
    <3>1. PICK s \in 0 .. RETIRES_PER_CYCLE - 1 :
             i = retire_slot_index(s) /\ retire_ready(s, ready)
      BY <2>1 DEF retire_vector, RetireSlots
    <3>2. s = 0 /\ store_ready /\ ready
      BY <3>1, DrisSizeAssumption DEF retire_ready, entry_eligible
    <3>3. 0 \in Window /\ At(0) = dris[i] /\ retire_slot_index(0) = i
      BY <3>1, <3>2, DrisSizeAssumption DEF Window, At
    <3>4. MemAdmissible(0, ready)
      BY <2>1, <3>2, <3>3 DEF MemAdmissible, MemReady
    <3>5. \A t \in 0 .. 0 - 1 : ~MemAdmissible(t, ready)
      OBVIOUS
    <3>6. 0 \in MemSelected(ready)
      BY <3>3, <3>4, <3>5 DEF MemSelected
    <3> QED BY <3>3, <3>6 DEF set_dispatched_mem
  <2>2. ASSUME i \in set_dispatched_mem(ready) PROVE i \in retire_vector(ready)
    <3>1. PICK s \in Window : i = retire_slot_index(s) /\ MemAdmissible(s, ready)
      BY <2>2 DEF set_dispatched_mem, MemSelected
    <3> QED BY <3>1 DEF MemAdmissible, At
  <2> QED BY <2>1, <2>2
<1> QED BY <1>1, TypeCorrect, PTL

=============================================================================
