---------------------- MODULE LightningDataflowProofs ----------------------
(***************************************************************************)
(* Theorems about what flows through LightningCore: the packets of the     *)
(* execute ways, the order of memory accesses and register renaming, for   *)
(* every size of the DRIS and the widths, and any instruction mix.         *)
(***************************************************************************)
EXTENDS LightningCoreProofs

-----------------------------------------------------------------------------
(***************************************************************************)
(* One edge, field by field.                                               *)
(***************************************************************************)

\* The lockers of an entry and the registers they stand for, by number.
LockerOf(e, n) == IF n = 1 THEN e.locker_1 ELSE e.locker_2

SourceOf(instr, n) == IF n = 1 THEN instr.rs1 ELSE instr.rs2

\* The entries whose address, or whose result, the writebacks of a cycle bring,
\* the ids they publish, and whether all that land on an entry are its own.
AddressedNow(wbs, group) == Targets(AguPasses(wbs, fetch_write_mask(group, fetch_ptr)))

CompletedNow(wbs, group) == Targets(Completions(wbs, fetch_write_mask(group, fetch_ptr)))

PublishedNow(wbs, group) == {p.id : p \in Completions(wbs, fetch_write_mask(group, fetch_ptr))}

LiveNow(i, wbs, group) ==
    LET born == fetch_write_mask(group, fetch_ptr) IN
    \A p \in AguPasses(wbs, born) \cup Completions(wbs, born) : id_index(p.id) = i => p.live

\* What an edge leaves in an entry that keeps its occupant.
LEMMA EdgeKept ==
    ASSUME TypeOK, NEW group, NEW wbs, NEW accesses, NEW set, NEW clear,
           DrisNext(group, fetch_ptr, wbs, accesses, set, clear),
           NEW i \in DrisIndices, i \notin clear,
           i \notin fetch_write_mask(group, fetch_ptr)
    PROVE  /\ dris'[i].valid = dris[i].valid
           /\ dris'[i].id = dris[i].id
           /\ dris'[i].instr = dris[i].instr
           /\ dris'[i].mem_addr_ready
                <=> dris[i].mem_addr_ready \/ i \in AddressedNow(wbs, group)
           /\ dris'[i].addr
                = IF i \in AddressedNow(wbs, group) THEN accesses[i] ELSE dris[i].addr
           /\ dris'[i].executed <=> dris[i].executed \/ i \in CompletedNow(wbs, group)
           /\ dris'[i].result_valid <=> dris[i].result_valid \/ i \in CompletedNow(wbs, group)
           /\ dris'[i].dispatched
                <=> i \in set \/ (dris[i].dispatched /\ i \notin AddressedNow(wbs, group))
           /\ dris'[i].own <=> dris[i].own /\ LiveNow(i, wbs, group)
<1> DEFINE born == fetch_write_mask(group, fetch_ptr)
           agu  == AguPasses(wbs, born)
           done == Completions(wbs, born)
           pub  == {p.id : p \in done}
           gone == {dris[j].id : j \in clear}
           old  == dris[i]
           e    == AfterIntake(i, group, fetch_ptr, wbs, clear)
           here == {p \in agu \cup done : id_index(p.id) = i}
           acc  == IF i \in Targets(agu) THEN accesses[i] ELSE e.addr
           mem  == e.mem_addr_ready \/ i \in Targets(agu)
           exe  == e.executed \/ i \in Targets(done)
           res  == e.result_valid \/ i \in Targets(done)
           trap == e.trap \/ i \in Targets(Traps(agu \cup done))
           disp == i \in set \/ (e.dispatched /\ i \notin Targets(agu))
           own  == e.own /\ \A p \in here : p.live
           l1   == LockerNext(e.locker_1, old.locker_1, old.valid, i \in born, pub, gone)
           l2   == LockerNext(e.locker_2, old.locker_2, old.valid, i \in born, pub, gone)
<1>1. dris'[i] = EntryNext(i, group, fetch_ptr, wbs, accesses, set, clear)
  BY DEF DrisNext
<1>2. dris[i] \in Entry
  BY DEF TypeOK
<1>3. dris'[i] = [e EXCEPT !.mem_addr_ready = mem, !.addr = acc,
                           !.executed = exe, !.result_valid = res, !.trap = trap,
                           !.dispatched = disp, !.locker_1 = l1, !.locker_2 = l2,
                           !.own = own]
  BY <1>1, Zenon DEF EntryNext
<1>4. e = dris[i]
  BY DEF AfterIntake
<1> HIDE DEF e, acc, mem, exe, res, trap, disp, own, l1, l2
<1>5. /\ dris'[i].valid = e.valid
      /\ dris'[i].id = e.id
      /\ dris'[i].instr = e.instr
      /\ dris'[i].mem_addr_ready = mem
      /\ dris'[i].addr = acc
      /\ dris'[i].executed = exe
      /\ dris'[i].result_valid = res
      /\ dris'[i].dispatched = disp
      /\ dris'[i].own = own
  BY <1>2, <1>3, <1>4 DEF Entry
<1>6. own <=> dris[i].own /\ \A p \in agu \cup done : id_index(p.id) = i => p.live
  BY <1>4 DEF own
<1> QED BY <1>4, <1>5, <1>6 DEF acc, mem, exe, res, disp, AddressedNow, CompletedNow, LiveNow

\* And in its lockers.
LEMMA LockersKept ==
    ASSUME TypeOK, NEW group, NEW wbs, NEW accesses, NEW set, NEW clear,
           DrisNext(group, fetch_ptr, wbs, accesses, set, clear),
           NEW i \in DrisIndices, i \notin clear,
           i \notin fetch_write_mask(group, fetch_ptr), dris[i].valid,
           NEW n \in {1, 2}
    PROVE  LET old == LockerOf(dris[i], n)
               new == LockerOf(dris'[i], n)
           IN  /\ new.id = old.id
               /\ new.locked <=> old.locked /\ old.id \notin PublishedNow(wbs, group)
               /\ new.valid <=> old.valid /\ old.id \notin {dris[j].id : j \in clear}
<1> DEFINE born == fetch_write_mask(group, fetch_ptr)
           agu  == AguPasses(wbs, born)
           done == Completions(wbs, born)
           pub  == {p.id : p \in done}
           gone == {dris[j].id : j \in clear}
           old  == dris[i]
           e    == AfterIntake(i, group, fetch_ptr, wbs, clear)
           here == {p \in agu \cup done : id_index(p.id) = i}
           acc  == IF i \in Targets(agu) THEN accesses[i] ELSE e.addr
           mem  == e.mem_addr_ready \/ i \in Targets(agu)
           exe  == e.executed \/ i \in Targets(done)
           res  == e.result_valid \/ i \in Targets(done)
           trap == e.trap \/ i \in Targets(Traps(agu \cup done))
           disp == i \in set \/ (e.dispatched /\ i \notin Targets(agu))
           own  == e.own /\ \A p \in here : p.live
           l1   == LockerNext(e.locker_1, old.locker_1, old.valid, i \in born, pub, gone)
           l2   == LockerNext(e.locker_2, old.locker_2, old.valid, i \in born, pub, gone)
<1>1. dris'[i] = EntryNext(i, group, fetch_ptr, wbs, accesses, set, clear)
  BY DEF DrisNext
<1>2. dris[i] \in Entry
  BY DEF TypeOK
<1>3. dris'[i] = [e EXCEPT !.mem_addr_ready = mem, !.addr = acc,
                           !.executed = exe, !.result_valid = res, !.trap = trap,
                           !.dispatched = disp, !.locker_1 = l1, !.locker_2 = l2,
                           !.own = own]
  BY <1>1, Zenon DEF EntryNext
<1>4. e = dris[i]
  BY DEF AfterIntake
<1> HIDE DEF e, acc, mem, exe, res, trap, disp, own, l1, l2
<1>5. dris'[i].locker_1 = l1 /\ dris'[i].locker_2 = l2
  BY <1>2, <1>3, <1>4 DEF Entry
<1>6. (i \in born) = FALSE /\ old.valid = TRUE
  BY <1>2 DEF Entry
<1>7. e.locker_1 \in Locker /\ e.locker_2 \in Locker
  BY <1>2, <1>4 DEF Entry
<1>8. ASSUME NEW l \in Locker
      PROVE  LET x == LockerNext(l, l, TRUE, FALSE, pub, gone) IN
             /\ x.id = l.id
             /\ x.locked <=> l.locked /\ ~(TRUE /\ l.locked /\ l.id \in pub)
             /\ x.valid <=> l.valid /\ ~(~FALSE /\ l.valid /\ l.id \in gone)
  BY DEF LockerNext, Locker
<1>9. /\ l1 = LockerNext(e.locker_1, e.locker_1, TRUE, FALSE, pub, gone)
      /\ l2 = LockerNext(e.locker_2, e.locker_2, TRUE, FALSE, pub, gone)
  BY <1>4, <1>6, Zenon DEF l1, l2
<1> HIDE DEF pub, gone
<1>10. /\ l1.id = e.locker_1.id
       /\ l1.locked <=> e.locker_1.locked /\ e.locker_1.id \notin pub
       /\ l1.valid <=> e.locker_1.valid /\ e.locker_1.id \notin gone
  BY <1>7, <1>8, <1>9, Zenon
<1>11. /\ l2.id = e.locker_2.id
       /\ l2.locked <=> e.locker_2.locked /\ e.locker_2.id \notin pub
       /\ l2.valid <=> e.locker_2.valid /\ e.locker_2.id \notin gone
  BY <1>7, <1>8, <1>9, Zenon
<1> QED BY <1>4, <1>5, <1>10, <1>11 DEF LockerOf, PublishedNow, pub, gone

\* What it leaves in an entry that takes a way of the group.
LEMMA EdgeBorn ==
    ASSUME TypeOK, NEW group, NEW wbs, NEW accesses, NEW set, NEW clear,
           DrisNext(group, fetch_ptr, wbs, accesses, set, clear),
           NEW i \in DrisIndices, i \notin clear, ~dris[i].valid,
           i \in fetch_write_mask(group, fetch_ptr)
    PROVE  \E w \in DOMAIN group :
              /\ id_index(slot_id(fetch_ptr, w - 1)) = i
              /\ dris'[i].valid
              /\ dris'[i].id = slot_id(fetch_ptr, w - 1)
              /\ dris'[i].instr = group[w]
              /\ ~dris'[i].mem_addr_ready
              /\ ~dris'[i].executed
              /\ ~dris'[i].result_valid
              /\ dris'[i].dispatched <=> i \in set
              /\ dris'[i].own
<1> DEFINE born == fetch_write_mask(group, fetch_ptr)
           agu  == AguPasses(wbs, born)
           done == Completions(wbs, born)
           pub  == {p.id : p \in done}
           gone == {dris[j].id : j \in clear}
           old  == dris[i]
           e    == AfterIntake(i, group, fetch_ptr, wbs, clear)
           here == {p \in agu \cup done : id_index(p.id) = i}
           acc  == IF i \in Targets(agu) THEN accesses[i] ELSE e.addr
           mem  == e.mem_addr_ready \/ i \in Targets(agu)
           exe  == e.executed \/ i \in Targets(done)
           res  == e.result_valid \/ i \in Targets(done)
           trap == e.trap \/ i \in Targets(Traps(agu \cup done))
           disp == i \in set \/ (e.dispatched /\ i \notin Targets(agu))
           own  == e.own /\ \A p \in here : p.live
           l1   == LockerNext(e.locker_1, old.locker_1, old.valid, i \in born, pub, gone)
           l2   == LockerNext(e.locker_2, old.locker_2, old.valid, i \in born, pub, gone)
<1>1. dris'[i] = EntryNext(i, group, fetch_ptr, wbs, accesses, set, clear)
  BY DEF DrisNext
<1>2. PICK w : w = BornWay(i, group)
  OBVIOUS
<1>3. w \in DOMAIN group /\ id_index(slot_id(fetch_ptr, w - 1)) = i
  BY <1>2 DEF fetch_write_mask, BornWay
<1>4. dris'[i] = [e EXCEPT !.mem_addr_ready = mem, !.addr = acc,
                           !.executed = exe, !.result_valid = res, !.trap = trap,
                           !.dispatched = disp, !.locker_1 = l1, !.locker_2 = l2,
                           !.own = own]
  BY <1>1, Zenon DEF EntryNext
<1>5. e = Newborn(w, group, fetch_ptr, wbs, clear)
  BY <1>2 DEF AfterIntake, BornWay
<1>6. /\ \A p \in agu \cup done : id_index(p.id) # i
      /\ i \notin Targets(agu) /\ i \notin Targets(done)
  BY DEF AguPasses, Completions, wb_accepted, Targets
<1> DEFINE n1 == NewLocker(group[w].rs1, w, group, fetch_ptr, wbs, clear)
           n2 == NewLocker(group[w].rs2, w, group, fetch_ptr, wbs, clear)
<1>7. e = [EmptyEntry(0) EXCEPT !.instr = group[w], !.id = slot_id(fetch_ptr, w - 1),
                                !.valid = TRUE, !.locker_1 = n1, !.locker_2 = n2]
  BY <1>5 DEF Newborn
<1> HIDE DEF e, acc, mem, exe, res, trap, disp, own, l1, l2, n1, n2
<1>8. /\ e.valid = TRUE /\ e.id = slot_id(fetch_ptr, w - 1) /\ e.instr = group[w]
      /\ e.mem_addr_ready = FALSE /\ e.executed = FALSE /\ e.result_valid = FALSE
      /\ e.dispatched = FALSE /\ e.own = TRUE
      /\ e.locker_1 = n1 /\ e.locker_2 = n2
  BY <1>7 DEF EmptyEntry
<1>9. DOMAIN e = DOMAIN EmptyEntry(0)
  BY <1>7
<1>10. /\ dris'[i].valid = e.valid
       /\ dris'[i].id = e.id
       /\ dris'[i].instr = e.instr
       /\ dris'[i].mem_addr_ready = mem
       /\ dris'[i].executed = exe
       /\ dris'[i].result_valid = res
       /\ dris'[i].dispatched = disp
       /\ dris'[i].own = own
  BY <1>4, <1>9 DEF EmptyEntry
<1>11. ~mem /\ ~exe /\ ~res /\ (disp <=> i \in set) /\ own
  BY <1>6, <1>8 DEF mem, exe, res, disp, own
<1> QED BY <1>3, <1>8, <1>10, <1>11

\* And in its lockers.
LEMMA LockersBorn ==
    ASSUME TypeOK, NEW group \in FetchGroups, NEW wbs, NEW accesses, NEW set, NEW clear,
           DrisNext(group, fetch_ptr, wbs, accesses, set, clear),
           NEW i \in DrisIndices, i \notin clear, ~dris[i].valid,
           i \in fetch_write_mask(group, fetch_ptr), NEW n \in {1, 2}
    PROVE  \E w \in DOMAIN group :
              /\ id_index(slot_id(fetch_ptr, w - 1)) = i
              /\ dris'[i].id = slot_id(fetch_ptr, w - 1)
              /\ dris'[i].instr = group[w]
              /\ LET new  == LockerOf(dris'[i], n)
                     born == NewLocker(SourceOf(group[w], n), w, group, fetch_ptr, wbs, clear)
                 IN  /\ new.id = born.id
                     /\ new.locked <=> born.locked
                     /\ new.valid <=> born.valid
<1> DEFINE born == fetch_write_mask(group, fetch_ptr)
           agu  == AguPasses(wbs, born)
           done == Completions(wbs, born)
           pub  == {p.id : p \in done}
           gone == {dris[j].id : j \in clear}
           old  == dris[i]
           e    == AfterIntake(i, group, fetch_ptr, wbs, clear)
           here == {p \in agu \cup done : id_index(p.id) = i}
           acc  == IF i \in Targets(agu) THEN accesses[i] ELSE e.addr
           mem  == e.mem_addr_ready \/ i \in Targets(agu)
           exe  == e.executed \/ i \in Targets(done)
           res  == e.result_valid \/ i \in Targets(done)
           trap == e.trap \/ i \in Targets(Traps(agu \cup done))
           disp == i \in set \/ (e.dispatched /\ i \notin Targets(agu))
           own  == e.own /\ \A p \in here : p.live
           l1   == LockerNext(e.locker_1, old.locker_1, old.valid, i \in born, pub, gone)
           l2   == LockerNext(e.locker_2, old.locker_2, old.valid, i \in born, pub, gone)
<1>1. dris'[i] = EntryNext(i, group, fetch_ptr, wbs, accesses, set, clear)
  BY DEF DrisNext
<1>2. PICK w : w = BornWay(i, group)
  OBVIOUS
<1>3. w \in DOMAIN group /\ id_index(slot_id(fetch_ptr, w - 1)) = i
  BY <1>2 DEF fetch_write_mask, BornWay
<1>4. dris'[i] = [e EXCEPT !.mem_addr_ready = mem, !.addr = acc,
                           !.executed = exe, !.result_valid = res, !.trap = trap,
                           !.dispatched = disp, !.locker_1 = l1, !.locker_2 = l2,
                           !.own = own]
  BY <1>1, Zenon DEF EntryNext
<1>5. e = Newborn(w, group, fetch_ptr, wbs, clear)
  BY <1>2 DEF AfterIntake, BornWay
<1> DEFINE n1 == NewLocker(group[w].rs1, w, group, fetch_ptr, wbs, clear)
           n2 == NewLocker(group[w].rs2, w, group, fetch_ptr, wbs, clear)
<1>7. e = [EmptyEntry(0) EXCEPT !.instr = group[w], !.id = slot_id(fetch_ptr, w - 1),
                                !.valid = TRUE, !.locker_1 = n1, !.locker_2 = n2]
  BY <1>5 DEF Newborn
<1> HIDE DEF e, acc, mem, exe, res, trap, disp, own, l1, l2, n1, n2
<1>8. /\ e.valid = TRUE /\ e.id = slot_id(fetch_ptr, w - 1) /\ e.instr = group[w]
      /\ e.mem_addr_ready = FALSE /\ e.executed = FALSE /\ e.result_valid = FALSE
      /\ e.dispatched = FALSE /\ e.own = TRUE
      /\ e.locker_1 = n1 /\ e.locker_2 = n2
  BY <1>7 DEF EmptyEntry
<1>9. DOMAIN e = DOMAIN EmptyEntry(0)
  BY <1>7
<1>10. /\ dris'[i].id = e.id /\ dris'[i].instr = e.instr
       /\ dris'[i].locker_1 = l1 /\ dris'[i].locker_2 = l2
  BY <1>4, <1>9 DEF EmptyEntry
<1>11. (i \in born) = TRUE /\ old.valid = FALSE
  BY DEF TypeOK, Entry
<1>12. n1 \in Locker /\ n2 \in Locker
  BY <1>3, GroupType, NewLockerType, DrisSizeAssumption DEF n1, n2
<1>13. ASSUME NEW l \in Locker, NEW o \in Locker
       PROVE  LET x == LockerNext(l, o, FALSE, TRUE, pub, gone) IN
              /\ x.id = l.id
              /\ x.locked <=> l.locked /\ ~(FALSE /\ o.locked /\ o.id \in pub)
              /\ x.valid <=> l.valid /\ ~(~TRUE /\ o.valid /\ o.id \in gone)
  BY DEF LockerNext, Locker
<1>14. /\ l1 = LockerNext(n1, old.locker_1, FALSE, TRUE, pub, gone)
       /\ l2 = LockerNext(n2, old.locker_2, FALSE, TRUE, pub, gone)
  BY <1>8, <1>11, Zenon DEF l1, l2
<1>15. old.locker_1 \in Locker /\ old.locker_2 \in Locker
  BY DEF TypeOK, Entry
<1>16. /\ l1.id = n1.id /\ (l1.locked <=> n1.locked) /\ (l1.valid <=> n1.valid)
       /\ l2.id = n2.id /\ (l2.locked <=> n2.locked) /\ (l2.valid <=> n2.valid)
  BY <1>12, <1>13, <1>14, <1>15, Zenon
<1>17. /\ n1 = NewLocker(SourceOf(group[w], 1), w, group, fetch_ptr, wbs, clear)
       /\ n2 = NewLocker(SourceOf(group[w], 2), w, group, fetch_ptr, wbs, clear)
  BY DEF n1, n2, SourceOf
<1> QED BY <1>3, <1>8, <1>10, <1>16, <1>17 DEF LockerOf

-----------------------------------------------------------------------------
(***************************************************************************)
(* Packets.                                                                *)
(***************************************************************************)

\* What is in the execute ways is the doing of the instruction that still sits
\* in the entry it names, which waits for it; the D-cache returns only loads.
IssuedMatch ==
    /\ \A p \in issue_reg :
          LET e == dris[id_index(p.id)] IN
          /\ ~p.mem
          /\ e.valid => /\ e.id = p.id /\ e.instr.op = p.op /\ p.live
                        /\ e.dispatched /\ ~e.executed /\ ~e.mem_addr_ready
    /\ \A p \in probe \cup rsp : p.mem

\* Ids that agree in colour and index are one.
LEMMA SameId ==
    ASSUME NEW a \in DrisIds, NEW b \in DrisIds,
           id_index(a) = id_index(b), id_color(a) = id_color(b)
    PROVE  a = b
BY DrisSizeAssumption DEF DrisIds, id_index, id_color

\* What an accepted writeback says of the entry it lands on.
LEMMA Writeback ==
    ASSUME TypeOK, TrapsMatch, IssuedMatch, NEW born,
           NEW p \in AguPasses(writeback_pkts, born) \cup Completions(writeback_pkts, born)
    PROVE  LET i == id_index(p.id)
               e == dris[i]
           IN  /\ p \in writeback_pkts
               /\ i \in DrisIndices /\ i \notin born
               /\ e.valid /\ e.id = p.id /\ e.dispatched /\ ~e.executed
               /\ p \in issue_reg => ~e.mem_addr_ready /\ e.instr.op = p.op /\ p.live /\ ~p.mem
               /\ p \notin issue_reg => e.mem_addr_ready /\ e.instr.op = "load"
               /\ p \in AguPasses(writeback_pkts, born) <=> p \in issue_reg /\ IsMem(e.instr.op)
               /\ p \in Completions(writeback_pkts, born)
                     <=> ~(p \in issue_reg /\ IsMem(e.instr.op))
<1> DEFINE i == id_index(p.id)
<1>1. p \in writeback_pkts /\ wb_accepted(p, born)
  BY DEF AguPasses, Completions
<1>2. p \in Packet /\ i \in DrisIndices
  <2>1. p \in Packet
    BY <1>1 DEF TypeOK, writeback_pkts
  <2> QED BY <2>1, IndexType DEF Packet
<1>3. dris[i] \in Entry
  BY <1>2 DEF TypeOK
<1>4. dris[i].id = p.id
  <2>1. id_index(dris[i].id) = id_index(p.id)
    BY <1>2 DEF TrapsMatch
  <2>2. id_color(dris[i].id) = id_color(p.id)
    BY <1>1 DEF wb_accepted
  <2> QED BY <1>2, <1>3, <2>1, <2>2, SameId DEF Packet, Entry
<1>5. dris[i].valid /\ i \notin born
  BY <1>1 DEF wb_accepted
<1>6. CASE p \in issue_reg
  <2>1. /\ dris[i].instr.op = p.op /\ p.live /\ ~p.mem
        /\ dris[i].dispatched /\ ~dris[i].executed /\ ~dris[i].mem_addr_ready
    BY <1>5, <1>6 DEF IssuedMatch
  <2>2. wb_is_agu_pass(p) <=> IsMem(dris[i].instr.op)
    BY <2>1 DEF wb_is_agu_pass
  <2> QED BY <1>1, <1>2, <1>4, <1>5, <1>6, <2>1, <2>2 DEF AguPasses, Completions
<1>7. CASE p \notin issue_reg
  <2>1. p.mem
    BY <1>1, <1>7 DEF IssuedMatch, writeback_pkts
  <2>2. /\ dris[i].instr.op = "load" /\ dris[i].mem_addr_ready
        /\ dris[i].dispatched /\ ~dris[i].executed
    BY <1>1, <2>1 DEF wb_accepted
  <2>3. ~wb_is_agu_pass(p)
    BY <2>2 DEF wb_is_agu_pass
  <2> QED BY <1>1, <1>2, <1>4, <1>5, <1>7, <2>2, <2>3 DEF AguPasses, Completions
<1> QED BY <1>6, <1>7

\* Nothing is written back to an entry that was not dispatched.
LEMMA NoWriteback ==
    ASSUME TypeOK, TrapsMatch, IssuedMatch, NEW born, NEW i \in DrisIndices,
           ~dris[i].dispatched
    PROVE  /\ i \notin Targets(AguPasses(writeback_pkts, born))
           /\ i \notin Targets(Completions(writeback_pkts, born))
BY Writeback DEF Targets

\* Any edge that takes its group in behind the valid entries keeps it so.
LEMMA ClockIssued ==
    ASSUME TypeOK, TrapsMatch, IssuedMatch, NEW group \in FetchGroups, NEW done \in BOOLEAN,
           NEW global_flush, Clock(group, done, global_flush),
           \A i \in DrisIndices :
              dris[i].valid => i \notin fetch_write_mask(group, fetch_ptr)
    PROVE  IssuedMatch'
<1>0. PICK ready \in BOOLEAN : ready = (probe = {} \/ done)
  OBVIOUS
<1>1. PICK accesses, set, clear :
         /\ DrisNext(group, fetch_ptr, writeback_pkts, accesses, set, clear)
         /\ set_dispatched \subseteq set
         /\ issue_reg' = Outlive(issue_pkts, clear)
         /\ rsp' \in {{}, {p \in Outlive(probe, clear) : p.op = "load"}}
         /\ probe' \in {Outlive(mem_issue_pkts(ready), clear), Outlive(probe, clear)}
  BY <1>0 DEF Clock
<1>2. ASSUME NEW p \in probe' \cup rsp' PROVE p.mem
  <2>1. PICK q \in probe \cup mem_issue_pkts(ready) :
           p = [q EXCEPT !.live = @ /\ id_index(q.id) \notin clear]
    BY <1>1, <1>2 DEF Outlive
  <2>2. q.mem
    <3>1. CASE q \in probe
      BY <3>1 DEF IssuedMatch
    <3>2. CASE q \in mem_issue_pkts(ready)
      BY <3>2 DEF mem_issue_pkts
    <3> QED BY <3>1, <3>2
  <2>3. q \in Packet
    BY IssueType DEF TypeOK
  <2> QED BY <2>1, <2>2, <2>3 DEF Packet
<1>3. ASSUME NEW p \in issue_reg'
      PROVE  LET e == dris'[id_index(p.id)] IN
             /\ ~p.mem
             /\ e.valid => /\ e.id = p.id /\ e.instr.op = p.op /\ p.live
                           /\ e.dispatched /\ ~e.executed /\ ~e.mem_addr_ready
  <2>1. PICK s \in Selected :
           p = [id |-> At(s).id, op |-> At(s).instr.op, mem |-> FALSE,
                live |-> id_index(At(s).id) \notin clear]
    <3>1. PICK q \in issue_pkts : p = [q EXCEPT !.live = @ /\ id_index(q.id) \notin clear]
      BY <1>1, <1>3 DEF Outlive
    <3>2. PICK s \in Selected : q = [id |-> At(s).id, op |-> At(s).instr.op,
                                     mem |-> FALSE, live |-> TRUE]
      BY <3>1 DEF issue_pkts
    <3> QED BY <3>1, <3>2
  <2>2. PICK i \in DrisIndices : i = retire_slot_index(s) /\ At(s) = dris[i]
    BY WindowType DEF At, Selected
  <2>3. /\ dris[i].valid /\ ~dris[i].dispatched /\ ~dris[i].executed /\ ~dris[i].mem_addr_ready
        /\ i \in set
    BY <1>1, <2>1, <2>2 DEF Selected, ready_vector, set_dispatched
  <2>4. id_index(p.id) = i
    BY <2>1, <2>2 DEF TrapsMatch
  <2>5. ~p.mem
    BY <2>1
  <2>6. ASSUME dris'[i].valid
        PROVE  /\ dris'[i].id = p.id /\ dris'[i].instr.op = p.op /\ p.live
               /\ dris'[i].dispatched /\ ~dris'[i].executed /\ ~dris'[i].mem_addr_ready
    <3>1. i \notin clear
      BY <1>1, <2>6, EdgeEntries
    <3>2. i \notin fetch_write_mask(group, fetch_ptr)
      BY <2>3
    <3>3. /\ dris'[i].id = dris[i].id
          /\ dris'[i].instr = dris[i].instr
          /\ dris'[i].dispatched /\ ~dris'[i].executed /\ ~dris'[i].mem_addr_ready
      <4>1. i \notin AddressedNow(writeback_pkts, group) /\ i \notin CompletedNow(writeback_pkts, group)
        BY <2>3, NoWriteback DEF AddressedNow, CompletedNow
      <4> QED BY <1>1, <2>3, <3>1, <3>2, <4>1, EdgeKept
    <3> QED BY <2>1, <2>2, <2>4, <3>1, <3>3
  <2> QED BY <2>4, <2>5, <2>6
<1> QED BY <1>2, <1>3 DEF IssuedMatch

\* A step of the core is an edge whose group lands behind the valid entries.
LEMMA StepIsClock ==
    ASSUME TypeOK, InFlight, Next
    PROVE  \E group \in FetchGroups, done \in BOOLEAN, global_flush \in BOOLEAN :
              /\ Clock(group, done, global_flush)
              /\ \A i \in DrisIndices :
                    dris[i].valid => i \notin fetch_write_mask(group, fetch_ptr)
<1>1. ASSUME NEW done \in BOOLEAN, Advance(done)
      PROVE  \E group \in FetchGroups :
                /\ Clock(group, done, FALSE)
                /\ \A i \in DrisIndices :
                      dris[i].valid => i \notin fetch_write_mask(group, fetch_ptr)
  <2>1. WindowExact
    BY <1>1, WipedTraps DEF InFlight, Advance
  <2> QED BY <1>1, <2>1, RoomForGroup DEF Advance
<1>2. ASSUME NEW i, NEW ptr PROVE i \notin fetch_write_mask(<<>>, ptr)
  BY DEF fetch_write_mask
<1>3. ASSUME NEW done \in BOOLEAN, Repair(done) PROVE Clock(<<>>, done, FALSE)
  BY <1>3 DEF Repair
<1>4. ASSUME NEW done \in BOOLEAN, Trap(done) PROVE Clock(<<>>, done, TRUE)
  BY <1>4 DEF Trap
<1> QED BY <1>1, <1>2, <1>3, <1>4, EmptyGroup DEF Next, Tick

\* The execute ways never hold a packet of an instruction that is no longer there
\* and whose entry has been taken by another.
THEOREM IssuedInvariant == Spec => []IssuedMatch
<1>1. Init => IssuedMatch
  BY DEF Init, IssuedMatch
<1>2. TypeOK /\ InFlight /\ IssuedMatch /\ [Next]_vars => IssuedMatch'
  <2> SUFFICES ASSUME TypeOK, InFlight, IssuedMatch, [Next]_vars PROVE IssuedMatch'
    OBVIOUS
  <2>1. CASE Next
    BY <2>1, StepIsClock, ClockIssued DEF InFlight
  <2>2. CASE UNCHANGED vars
    BY <2>2 DEF vars, IssuedMatch
  <2> QED BY <2>1, <2>2
<1> QED BY <1>1, <1>2, TypeCorrect, InFlightInvariant, PTL DEF Spec

\* A result that is not a load's lands on an entry while its instruction is there.
LEMMA ClockOwn ==
    ASSUME TypeOK, TrapsMatch, IssuedMatch, OwnExecResults, NEW group \in FetchGroups,
           NEW done \in BOOLEAN, NEW global_flush, Clock(group, done, global_flush),
           \A i \in DrisIndices :
              dris[i].valid => i \notin fetch_write_mask(group, fetch_ptr)
    PROVE  OwnExecResults'
<1>1. PICK accesses, set, clear :
         DrisNext(group, fetch_ptr, writeback_pkts, accesses, set, clear)
  BY DEF Clock
<1>2. SUFFICES ASSUME NEW i \in DrisIndices, dris'[i].valid, dris'[i].instr.op # "load"
               PROVE  dris'[i].own
  BY DEF OwnExecResults
<1>3. i \notin clear
  BY <1>1, <1>2, EdgeEntries
<1>4. CASE i \in fetch_write_mask(group, fetch_ptr)
  BY <1>1, <1>3, <1>4, EdgeBorn
<1>5. CASE i \notin fetch_write_mask(group, fetch_ptr)
  <2>1. /\ dris'[i].valid = dris[i].valid
        /\ dris'[i].instr = dris[i].instr
        /\ dris'[i].own <=> dris[i].own /\ LiveNow(i, writeback_pkts, group)
    <3>1. i \notin clear
      BY <1>3
    <3>2. i \notin fetch_write_mask(group, fetch_ptr)
      BY <1>5
    <3> QED BY <1>1, <3>1, <3>2, EdgeKept
  <2>2. LiveNow(i, writeback_pkts, group)
    BY <1>2, <2>1, Writeback DEF LiveNow
  <2> QED BY <1>2, <2>1, <2>2 DEF OwnExecResults
<1> QED BY <1>4, <1>5

\* What an entry that is not a load holds was put there by its own instruction.
THEOREM OwnExecCorrect == Spec => []OwnExecResults
<1>1. Init => OwnExecResults
  BY DEF Init, DrisInit, EmptyEntry, OwnExecResults
<1>2. TypeOK /\ InFlight /\ IssuedMatch /\ OwnExecResults /\ [Next]_vars => OwnExecResults'
  <2> SUFFICES ASSUME TypeOK, InFlight, IssuedMatch, OwnExecResults, [Next]_vars
               PROVE  OwnExecResults'
    OBVIOUS
  <2>1. CASE Next
    BY <2>1, StepIsClock, ClockOwn DEF InFlight
  <2>2. CASE UNCHANGED vars
    BY <2>2 DEF vars, OwnExecResults
  <2> QED BY <2>1, <2>2
<1> QED BY <1>1, <1>2, TypeCorrect, InFlightInvariant, IssuedInvariant, PTL DEF Spec

-----------------------------------------------------------------------------
(***************************************************************************)
(* What is on its way.                                                     *)
(***************************************************************************)

\* A live request or response of the D-cache is that of a load which still sits in
\* the entry it names: a store leaves the DRIS as it goes out.
LoadsHeld ==
    \A p \in probe \cup rsp :
        LET e == dris[id_index(p.id)] IN
        p.live => /\ p.op = "load"
                  /\ e.valid /\ e.id = p.id /\ e.instr.op = "load" /\ e.mem_addr_ready

\* One edge: the entries it sends out, those it clears, and where the packets go.
Sends(group, done, ready, accesses, set, clear) ==
    /\ ready \in BOOLEAN
    /\ probe # {} => ready = done
    /\ set = set_dispatched \cup set_dispatched_mem(ready)
    /\ clear = retire_vector(ready) \cup flush_mask
    /\ DrisNext(group, fetch_ptr, writeback_pkts, accesses, set, clear)
    /\ issue_reg' = Outlive(issue_pkts, clear)
    /\ rsp' = IF done THEN {p \in Outlive(probe, clear) : p.op = "load"} ELSE {}
    /\ probe' = Outlive(IF ready THEN mem_issue_pkts(ready) ELSE probe, clear)

\* Every edge is of that form.
LEMMA ClockSends ==
    ASSUME NEW group, NEW done \in BOOLEAN, NEW global_flush, Clock(group, done, global_flush)
    PROVE  \E ready, accesses, set, clear : Sends(group, done, ready, accesses, set, clear)
<1> DEFINE ready == probe = {} \/ done
           clear == retire_vector(ready) \cup flush_mask
           set   == set_dispatched \cup set_dispatched_mem(ready)
<1>1. PICK accesses : DrisNext(group, fetch_ptr, writeback_pkts, accesses, set, clear)
  BY DEF Clock
<1>2. /\ issue_reg' = Outlive(issue_pkts, clear)
      /\ rsp' = IF done THEN {p \in Outlive(probe, clear) : p.op = "load"} ELSE {}
      /\ probe' = Outlive(IF ready THEN mem_issue_pkts(ready) ELSE probe, clear)
  BY DEF Clock
<1>3. ready \in BOOLEAN /\ (probe # {} => ready = done)
  OBVIOUS
<1>4. Sends(group, done, ready, accesses, set, clear)
  BY <1>1, <1>2, <1>3 DEF Sends
<1> HIDE DEF ready, set, clear
<1> QED BY <1>4

\* The schedulers send out what is there; with an address, a load, or the store that
\* retires in the same cycle, if the D-cache is ready.
LEMMA SentIs ==
    ASSUME TypeOK, TrapsMatch, NEW ready \in BOOLEAN, NEW s \in Window
    PROVE  LET i == retire_slot_index(s) IN
           /\ i \in DrisIndices /\ At(s) = dris[i] /\ id_index(At(s).id) = i
           /\ s \in Selected => dris[i].valid
           /\ s \in MemSelected(ready) =>
                 /\ ready /\ dris[i].valid /\ dris[i].mem_addr_ready
                 /\ dris[i].instr.op = "load" \/ i \in retire_vector(ready)
<1> DEFINE i == retire_slot_index(s)
<1>1. i \in DrisIndices /\ At(s) = dris[i]
  BY WindowType DEF At
<1>2. id_index(At(s).id) = i
  BY <1>1 DEF TrapsMatch
<1>3. s \in Selected => dris[i].valid
  BY <1>1 DEF Selected, ready_vector
<1>4. ASSUME s \in MemSelected(ready)
      PROVE  /\ ready /\ dris[i].valid /\ dris[i].mem_addr_ready
             /\ dris[i].instr.op = "load" \/ i \in retire_vector(ready)
  <2>1. MemAdmissible(s, ready)
    BY <1>4 DEF MemSelected
  <2>2. s = 0 => HeadEntry = dris[i]
    BY DEF HeadEntry
  <2> QED BY <1>1, <2>1, <2>2 DEF MemAdmissible, MemReady, store_ready
<1> QED BY <1>1, <1>2, <1>3, <1>4

\* What the D-cache holds for a load stays its own while the load is there.
LEMMA ClockHeld ==
    ASSUME TypeOK, TrapsMatch, IssuedMatch, LoadsHeld, NEW group, NEW done \in BOOLEAN,
           NEW ready, NEW accesses, NEW set, NEW clear,
           Sends(group, done, ready, accesses, set, clear),
           \A i \in DrisIndices :
              dris[i].valid => i \notin fetch_write_mask(group, fetch_ptr)
    PROVE  LoadsHeld'
<1>1. SUFFICES ASSUME NEW p \in probe' \cup rsp', p.live
               PROVE  /\ p.op = "load"
                      /\ dris'[id_index(p.id)].valid /\ dris'[id_index(p.id)].id = p.id
                      /\ dris'[id_index(p.id)].instr.op = "load"
                      /\ dris'[id_index(p.id)].mem_addr_ready
  BY DEF LoadsHeld
<1>2. PICK q \in probe \cup mem_issue_pkts(ready) :
         p = [q EXCEPT !.live = @ /\ id_index(q.id) \notin clear]
  BY DEF Sends, Outlive
<1>3. q \in Packet /\ ready \in BOOLEAN
  BY IssueType DEF TypeOK, Sends
<1>4. p.id = q.id /\ p.op = q.op /\ q.live /\ id_index(q.id) \notin clear
  BY <1>1, <1>2, <1>3 DEF Packet
<1> DEFINE i == id_index(q.id)
<1>5. i \in DrisIndices
  BY <1>3, IndexType DEF Packet
<1>6. /\ q.op = "load"
      /\ dris[i].valid /\ dris[i].id = q.id /\ dris[i].instr.op = "load"
      /\ dris[i].mem_addr_ready
  <2>1. CASE q \in probe
    BY <1>4, <2>1 DEF LoadsHeld
  <2>2. CASE q \in mem_issue_pkts(ready)
    <3>1. PICK s \in MemSelected(ready) :
             q = [id |-> At(s).id, op |-> At(s).instr.op, mem |-> TRUE, live |-> TRUE]
      BY <2>2 DEF mem_issue_pkts
    <3>2. s \in Window
      BY DEF MemSelected
    <3>3. i = retire_slot_index(s) /\ At(s) = dris[i]
      BY <1>3, <3>1, <3>2, SentIs
    <3>4. i \notin retire_vector(ready)
      BY <1>4 DEF Sends
    <3>5. dris[i].valid /\ dris[i].mem_addr_ready /\ dris[i].instr.op = "load"
      BY <1>3, <3>1, <3>2, <3>3, <3>4, SentIs
    <3> QED BY <3>1, <3>3, <3>5
  <2> QED BY <2>1, <2>2
<1>7. i \notin clear /\ i \notin fetch_write_mask(group, fetch_ptr)
  BY <1>4, <1>5, <1>6
<1>8. /\ dris'[i].valid = dris[i].valid /\ dris'[i].id = dris[i].id
      /\ dris'[i].instr = dris[i].instr
      /\ dris[i].mem_addr_ready => dris'[i].mem_addr_ready
  <2>1. DrisNext(group, fetch_ptr, writeback_pkts, accesses, set, clear)
    BY DEF Sends
  <2> HIDE DEF i
  <2> QED BY <1>5, <1>7, <2>1, EdgeKept
<1> QED BY <1>4, <1>6, <1>8

\* The packet of an entry that stays goes on, arrives, or waits for the D-cache.
LEMMA ClockUnderway ==
    ASSUME TypeOK, TrapsMatch, IssuedMatch, LoadsHeld, Underway, NEW group,
           NEW done \in BOOLEAN, NEW ready, NEW accesses, NEW set, NEW clear,
           Sends(group, done, ready, accesses, set, clear),
           \A i \in DrisIndices :
              dris[i].valid => i \notin fetch_write_mask(group, fetch_ptr)
    PROVE  Underway'
<1> DEFINE born == fetch_write_mask(group, fetch_ptr)
           Onward(q) == [q EXCEPT !.live = @ /\ id_index(q.id) \notin clear]
<1>1. SUFFICES ASSUME NEW i \in DrisIndices,
                      dris'[i].valid, dris'[i].dispatched, ~dris'[i].executed
               PROVE  \E p \in issue_reg' \cup probe' \cup rsp' :
                         p.id = dris'[i].id /\ p.live
  BY DEF Underway
<1>2. DrisNext(group, fetch_ptr, writeback_pkts, accesses, set, clear) /\ ready \in BOOLEAN
  BY DEF Sends
<1>3. i \notin clear
  BY <1>1, <1>2, EdgeEntries
<1>4. \A j \in set : dris[j].valid
  <2>1. ASSUME NEW j \in set_dispatched PROVE dris[j].valid
    BY <1>2, SentIs DEF set_dispatched, Selected
  <2>2. ASSUME NEW j \in set_dispatched_mem(ready) PROVE dris[j].valid
    BY <1>2, SentIs DEF set_dispatched_mem, MemSelected
  <2> QED BY <2>1, <2>2 DEF Sends
<1>5. i \notin born
  <2> SUFFICES ASSUME i \in born PROVE FALSE
    OBVIOUS
  <2>1. ~dris[i].valid
    OBVIOUS
  <2>2. i \in set
    BY <1>1, <1>2, <1>3, <2>1, EdgeBorn
  <2> QED BY <1>4, <2>1, <2>2
<1>6. /\ dris[i].valid /\ dris'[i].id = dris[i].id
      /\ ~dris[i].executed /\ i \notin CompletedNow(writeback_pkts, group)
      /\ i \in set \/ (dris[i].dispatched /\ i \notin AddressedNow(writeback_pkts, group))
  BY <1>1, <1>2, <1>3, <1>5, EdgeKept
<1>7. ASSUME NEW q \in Packet, q.id = dris[i].id, q.live
      PROVE  Onward(q).id = dris'[i].id /\ Onward(q).live /\ Onward(q).op = q.op
  <2>1. id_index(q.id) = i
    BY <1>7 DEF TrapsMatch
  <2> QED BY <1>3, <1>6, <1>7, <2>1 DEF Packet
<1>8. CASE i \in set_dispatched
  <2>1. PICK s \in Selected : i = retire_slot_index(s)
    BY <1>8 DEF set_dispatched
  <2> DEFINE q == [id |-> At(s).id, op |-> At(s).instr.op, mem |-> FALSE, live |-> TRUE]
  <2>2. q \in issue_pkts /\ q.id = At(s).id /\ q.live
    BY <2>1 DEF issue_pkts
  <2> HIDE DEF q
  <2>3. At(s) = dris[i] /\ q \in Packet
    BY <1>2, <2>1, <2>2, SentIs, IssueType DEF Selected
  <2>4. Onward(q) \in issue_reg'
    BY <2>2 DEF Sends, Outlive
  <2> QED BY <1>7, <2>2, <2>3, <2>4
<1>9. CASE i \in set_dispatched_mem(ready)
  <2>1. PICK s \in MemSelected(ready) : i = retire_slot_index(s)
    BY <1>9 DEF set_dispatched_mem
  <2> DEFINE q == [id |-> At(s).id, op |-> At(s).instr.op, mem |-> TRUE, live |-> TRUE]
  <2>2. q \in mem_issue_pkts(ready) /\ q.id = At(s).id /\ q.live
    BY <2>1 DEF mem_issue_pkts
  <2> HIDE DEF q
  <2>3. At(s) = dris[i] /\ q \in Packet /\ ready
    BY <1>2, <2>1, <2>2, SentIs, IssueType DEF MemSelected
  <2>4. Onward(q) \in probe'
    BY <2>2, <2>3 DEF Sends, Outlive
  <2> QED BY <1>7, <2>2, <2>3, <2>4
<1>10. CASE i \notin set
  <2>1. PICK p \in issue_reg \cup probe \cup rsp : p.id = dris[i].id /\ p.live
    BY <1>6, <1>10 DEF Underway
  <2>2. p \in Packet /\ id_index(p.id) = i
    BY <2>1 DEF TypeOK, TrapsMatch
  <2>3. p \in probe
    <3> SUFFICES ASSUME p \in issue_reg \cup rsp PROVE FALSE
      BY <2>1
    <3>1. CASE p \in issue_reg
      BY <1>5, <1>6, <1>10, <2>1, <2>2, <3>1
         DEF IssuedMatch, wb_accepted, AguPasses, Completions, writeback_pkts,
             AddressedNow, CompletedNow, Targets
    <3>2. CASE p \in rsp
      <4>1. p.op = "load" /\ dris[i].instr.op = "load" /\ dris[i].mem_addr_ready
        BY <2>1, <2>2, <3>2 DEF LoadsHeld
      <4>2. wb_accepted(p, born) /\ ~wb_is_agu_pass(p)
        BY <1>5, <1>6, <1>10, <2>1, <2>2, <4>1 DEF wb_accepted, wb_is_agu_pass
      <4>3. p \in Completions(writeback_pkts, born)
        BY <3>2, <4>2 DEF Completions, writeback_pkts
      <4> QED BY <1>6, <2>2, <4>3 DEF CompletedNow, Targets
    <3> QED BY <3>1, <3>2
  <2>4. p.op = "load"
    BY <2>1, <2>3 DEF LoadsHeld
  <2>5. Onward(p) \in Outlive(probe, clear) /\ ready = done
    BY <2>3 DEF Outlive, Sends
  <2>6. Onward(p).id = dris'[i].id /\ Onward(p).live /\ Onward(p).op = "load"
    BY <1>7, <2>1, <2>2, <2>4
  <2>7. CASE done
    <3>1. Onward(p) \in rsp'
      BY <2>5, <2>6, <2>7 DEF Sends
    <3> QED BY <2>6, <3>1
  <2>8. CASE ~done
    <3>1. Onward(p) \in probe'
      BY <2>5, <2>8 DEF Sends
    <3> QED BY <2>6, <3>1
  <2> QED BY <2>7, <2>8
<1> QED BY <1>8, <1>9, <1>10 DEF Sends

\* What the D-cache holds of a live load is that load's.
THEOREM HeldInvariant == Spec => []LoadsHeld
<1>1. Init => LoadsHeld
  BY DEF Init, LoadsHeld
<1>2. TypeOK /\ InFlight /\ IssuedMatch /\ LoadsHeld /\ [Next]_vars => LoadsHeld'
  <2> SUFFICES ASSUME TypeOK, InFlight, IssuedMatch, LoadsHeld, [Next]_vars
               PROVE  LoadsHeld'
    OBVIOUS
  <2>1. CASE Next
    BY <2>1, StepIsClock, ClockSends, ClockHeld DEF InFlight
  <2>2. CASE UNCHANGED vars
    BY <2>2 DEF vars, LoadsHeld
  <2> QED BY <2>1, <2>2
<1> QED BY <1>1, <1>2, TypeCorrect, InFlightInvariant, IssuedInvariant, PTL DEF Spec

\* No packet is lost on the way: what was dispatched and has no result is in the
\* execute ways, in the D-cache or coming back, across every flush and trap.
THEOREM UnderwayCorrect == Spec => []Underway
<1>1. Init => Underway
  BY DEF Init, DrisInit, EmptyEntry, Underway
<1>2. TypeOK /\ InFlight /\ IssuedMatch /\ LoadsHeld /\ Underway /\ [Next]_vars => Underway'
  <2> SUFFICES ASSUME TypeOK, InFlight, IssuedMatch, LoadsHeld, Underway, [Next]_vars
               PROVE  Underway'
    OBVIOUS
  <2>1. CASE Next
    BY <2>1, StepIsClock, ClockSends, ClockUnderway DEF InFlight
  <2>2. CASE UNCHANGED vars
    BY <2>2 DEF vars, Underway
  <2> QED BY <2>1, <2>2
<1> QED
  BY <1>1, <1>2, TypeCorrect, InFlightInvariant, IssuedInvariant, HeldInvariant, PTL DEF Spec

-----------------------------------------------------------------------------
(***************************************************************************)
(* Loads and stores.                                                       *)
(***************************************************************************)

\* A valid entry stands at the position of the window its id names.
LEMMA ValidPosition ==
    ASSUME TypeOK, WindowExact, NEW i \in DrisIndices, dris[i].valid
    PROVE  \E s \in Window : /\ s \in DrisIndices
                             /\ s < occupancy
                             /\ i = retire_slot_index(s)
                             /\ dris[i].id = slot_id(retire_ptr, s)
<1>1. retire_ptr \in DrisIds
  BY DEF TypeOK
<1>2. PICK s \in DrisIndices : i = id_index(slot_id(retire_ptr, s))
  BY <1>1, IndexSurjective
<1>3. s \in Window /\ i = retire_slot_index(s) /\ At(s) = dris[i]
  BY <1>2 DEF Window, DrisIndices, retire_slot_index, At
<1> QED BY <1>3, <1>2 DEF WindowExact

\* A newborn stands behind all of them.
LEMMA NewbornPosition ==
    ASSUME TypeOK, WindowExact, NEW group \in FetchGroups, NEW w \in DOMAIN group
    PROVE  /\ w \in 1 .. Len(group) /\ Len(group) \in Nat
           /\ occupancy \in Nat
           /\ occupancy + (w - 1) \in DrisIndices
           /\ slot_id(fetch_ptr, w - 1) = slot_id(retire_ptr, occupancy + (w - 1))
<1>1. /\ occupancy \in 0 .. DRIS_NUM_ENTRIES
      /\ fetch_ptr = slot_id(retire_ptr, occupancy)
      /\ retire_ptr \in DrisIds
      /\ DRIS_NUM_ENTRIES \in Nat \ {0}
  BY OccupancyType, DrisSizeAssumption DEF TypeOK
<1>2. group # <<>> /\ w \in 1 .. Len(group) /\ Len(group) \in 0 .. FETCH_WAYS
  BY GroupType
<1>3. ~dris_full
  BY <1>2 DEF FetchGroups
<1>4. w - 1 \in Nat /\ occupancy + (w - 1) < DRIS_NUM_ENTRIES
  BY <1>1, <1>2, <1>3, DrisSizeAssumption DEF dris_full
<1>5. slot_id(fetch_ptr, w - 1) = slot_id(retire_ptr, occupancy + (w - 1))
  BY <1>1, <1>4, SlotIdAdd
<1> QED BY <1>1, <1>2, <1>4, <1>5 DEF DrisIndices

\* So it is younger than every valid entry.
LEMMA NewbornYounger ==
    ASSUME TypeOK, WindowExact, NEW group \in FetchGroups, NEW w \in DOMAIN group,
           NEW i \in DrisIndices, dris[i].valid
    PROVE  /\ is_older(dris[i].id, slot_id(fetch_ptr, w - 1))
           /\ ~is_older(slot_id(fetch_ptr, w - 1), dris[i].id)
<1>1. PICK s \in DrisIndices : s < occupancy /\ dris[i].id = slot_id(retire_ptr, s)
  BY ValidPosition
<1>2. /\ occupancy \in Nat /\ w \in 1 .. Len(group) /\ Len(group) \in Nat
      /\ occupancy + (w - 1) \in DrisIndices
      /\ slot_id(fetch_ptr, w - 1) = slot_id(retire_ptr, occupancy + (w - 1))
  BY NewbornPosition
<1>3. s < occupancy + (w - 1) /\ ~(occupancy + (w - 1) < s)
  BY <1>1, <1>2 DEF DrisIndices
<1>4. retire_ptr \in DrisIds
  BY DEF TypeOK
<1> QED BY <1>1, <1>2, <1>3, <1>4, OlderInWindow

\* The DRIS's part of an edge.
LEMMA ClockDris ==
    ASSUME NEW group, NEW done \in BOOLEAN, NEW global_flush,
           Clock(group, done, global_flush)
    PROVE  \E ready \in BOOLEAN :
           \E accesses \in [AddressedNow(writeback_pkts, group) -> Accesses] :
              /\ ready = (probe = {} \/ done)
              /\ DrisNext(group, fetch_ptr, writeback_pkts, accesses,
                          set_dispatched \cup set_dispatched_mem(ready),
                          retire_vector(ready) \cup flush_mask)
<1>1. PICK ready \in BOOLEAN : ready = (probe = {} \/ done)
  OBVIOUS
<1> QED BY <1>1 DEF Clock, AddressedNow

\* A step is a trap, which leaves the shelf wiped, or an edge from a window and
\* a shelf that agree; a redirect takes nothing in.
LEMMA StepInWindow ==
    ASSUME TypeOK, InFlight, Next
    PROVE  \/ ShelfWiped'
           \/ /\ WindowExact /\ ShelfInWindow
              /\ ~trap_valid
              /\ \E group \in FetchGroups, done \in BOOLEAN :
                    /\ Clock(group, done, FALSE)
                    /\ mispredict_valid => group = <<>>
<1>1. ASSUME NEW done \in BOOLEAN, Advance(done) \/ Repair(done)
      PROVE  /\ WindowExact /\ ShelfInWindow
             /\ ~trap_valid
             /\ \E group \in FetchGroups :
                   /\ Clock(group, done, FALSE)
                   /\ mispredict_valid => group = <<>>
  <2>1. ~trap_valid /\ WindowExact /\ ShelfInWindow
    BY <1>1, WipedTraps DEF InFlight, Advance, Repair
  <2> QED BY <1>1, <2>1, EmptyGroup DEF Advance, Repair
<1>2. ASSUME NEW done \in BOOLEAN, Trap(done) PROVE ShelfWiped'
  BY <1>2, TrapKeeps
<1> QED BY <1>1, <1>2 DEF Next, Tick

\* The same in terms of positions.
LEMMA StepEdge ==
    ASSUME TypeOK, InFlight, Next
    PROVE  \/ ShelfWiped'
           \/ /\ WindowExact /\ ShelfInWindow
              /\ ~trap_valid
              /\ \E group \in FetchGroups : \E accesses, set, clear, wrong, n, keep :
                    CoreEdge(group, accesses, set, clear, wrong, n, keep)
<1>1. ASSUME NEW done \in BOOLEAN, Advance(done) \/ Repair(done)
      PROVE  /\ WindowExact /\ ShelfInWindow
             /\ ~trap_valid
             /\ \E group \in FetchGroups : \E accesses, set, clear, wrong, n, keep :
                   CoreEdge(group, accesses, set, clear, wrong, n, keep)
  <2>1. ~trap_valid /\ WindowExact /\ ShelfInWindow
    BY <1>1, WipedTraps DEF InFlight, Advance, Repair
  <2> QED BY <1>1, <2>1, AdvanceEdge, RepairEdge
<1>2. ASSUME NEW done \in BOOLEAN, Trap(done) PROVE ShelfWiped'
  BY <1>2, TrapKeeps
<1> QED BY <1>1, <1>2 DEF Next, Tick

\* A load that has been sent out was compared with every older store that is
\* still there, and an entry's address is one an address calculation yields.
LoadChecked ==
    \A i, j \in DrisIndices :
        /\ dris[i].valid
        /\ dris[i].instr.op = "load"
        /\ dris[i].mem_addr_ready
        /\ dris[i].dispatched \/ dris[i].executed
        /\ dris[j].valid
        /\ dris[j].instr.op = "store"
        /\ is_older(dris[j].id, dris[i].id)
        => dris[j].mem_addr_ready /\ dris[j].addr.addr # dris[i].addr.addr

AddressesKnown ==
    \A i \in DrisIndices : dris[i].valid /\ dris[i].mem_addr_ready => dris[i].addr \in Accesses

\* What the two schedulers dispatch had not been dispatched; an entry that has its
\* address goes out as a load checked against the older stores, or as a store.
LEMMA SetWaits ==
    ASSUME TypeOK, NEW ready \in BOOLEAN,
           NEW i \in set_dispatched \cup set_dispatched_mem(ready)
    PROVE  /\ dris[i].instr.op = "load" => ~dris[i].dispatched /\ ~dris[i].executed
           /\ dris[i].instr.op = "load" /\ dris[i].mem_addr_ready => check_older_writes(dris[i])
<1>1. CASE i \in set_dispatched
  BY <1>1 DEF set_dispatched, Selected, ready_vector, At
<1>2. CASE i \in set_dispatched_mem(ready)
  <2>1. PICK s \in Window : i = retire_slot_index(s) /\ MemAdmissible(s, ready)
    BY <1>2 DEF set_dispatched_mem, MemSelected
  <2>2. At(s) = dris[i] /\ MemReady(s)
        /\ (dris[i].instr.op = "load" => check_older_writes(dris[i]))
    BY <2>1 DEF At, MemAdmissible
  <2>3. s = 0 => At(s) = HeadEntry
    BY DEF At, HeadEntry
  <2> QED BY <2>2, <2>3 DEF MemReady, store_ready
<1> QED BY <1>1, <1>2

\* No edge sends a load past an older store to its address.
LEMMA ClockLoads ==
    ASSUME TypeOK, TrapsMatch, IssuedMatch, WindowExact, LoadChecked,
           NEW group \in FetchGroups, NEW done \in BOOLEAN, Clock(group, done, FALSE)
    PROVE  LoadChecked'
<1>0. PICK ready \in BOOLEAN : \E accesses, set, clear :
         /\ set = set_dispatched \cup set_dispatched_mem(ready)
         /\ DrisNext(group, fetch_ptr, writeback_pkts, accesses, set, clear)
  BY ClockDris
<1>1. PICK accesses, set, clear :
         /\ set = set_dispatched \cup set_dispatched_mem(ready)
         /\ DrisNext(group, fetch_ptr, writeback_pkts, accesses, set, clear)
  BY <1>0
<1>2. SUFFICES ASSUME NEW i \in DrisIndices, NEW j \in DrisIndices,
                      dris'[i].valid,
                      dris'[i].instr.op = "load",
                      dris'[i].mem_addr_ready,
                      dris'[i].dispatched \/ dris'[i].executed,
                      dris'[j].valid,
                      dris'[j].instr.op = "store",
                      is_older(dris'[j].id, dris'[i].id)
               PROVE  dris'[j].mem_addr_ready /\ dris'[j].addr.addr # dris'[i].addr.addr
  BY DEF LoadChecked
<1>3. i \notin clear /\ j \notin clear
  BY <1>1, <1>2, EdgeEntries
<1>4. \A k \in DrisIndices : dris[k].valid => k \notin fetch_write_mask(group, fetch_ptr)
  BY RoomForGroup
<1>5. i \notin fetch_write_mask(group, fetch_ptr)
  BY <1>1, <1>2, <1>3, <1>4, EdgeBorn
<1>6. /\ dris[i].valid
      /\ dris'[i].id = dris[i].id
      /\ dris[i].instr.op = "load"
  BY <1>1, <1>2, <1>3, <1>5, EdgeKept
<1>7. j \notin fetch_write_mask(group, fetch_ptr)
  <2> SUFFICES ASSUME j \in fetch_write_mask(group, fetch_ptr) PROVE FALSE
    OBVIOUS
  <2>1. PICK w \in DOMAIN group : dris'[j].id = slot_id(fetch_ptr, w - 1)
    BY <1>1, <1>3, <1>4, EdgeBorn
  <2> QED BY <1>2, <1>6, <2>1, NewbornYounger
<1>8. /\ dris[j].valid
      /\ dris'[j].id = dris[j].id
      /\ dris[j].instr.op = "store"
  BY <1>1, <1>2, <1>3, <1>7, EdgeKept
<1>9. i \notin AddressedNow(writeback_pkts, group)
  <2> SUFFICES ASSUME i \in AddressedNow(writeback_pkts, group) PROVE FALSE
    OBVIOUS
  <2>1. dris[i].dispatched /\ ~dris[i].executed /\ ~dris[i].mem_addr_ready
    BY Writeback DEF AddressedNow, Targets
  <2>2. i \notin CompletedNow(writeback_pkts, group)
    BY <1>6, <2>1, Writeback DEF CompletedNow, Targets, IsMem
  <2>3. i \notin set
    BY <1>1, <1>6, <2>1, SetWaits
  <2> QED BY <1>1, <1>2, <1>3, <1>5, <2>1, <2>2, <2>3, EdgeKept
<1>10. dris[i].mem_addr_ready /\ dris'[i].addr = dris[i].addr
  BY <1>1, <1>2, <1>3, <1>5, <1>9, EdgeKept
<1>11. dris[j].mem_addr_ready /\ dris[j].addr.addr # dris[i].addr.addr
  <2>1. CASE dris[i].dispatched \/ dris[i].executed
    BY <1>2, <1>6, <1>8, <1>10, <2>1 DEF LoadChecked
  <2>2. CASE ~(dris[i].dispatched \/ dris[i].executed)
    <3>1. i \notin CompletedNow(writeback_pkts, group)
      BY <2>2, NoWriteback DEF CompletedNow
    <3>2. i \in set
      BY <1>1, <1>2, <1>3, <1>5, <2>2, <3>1, EdgeKept
    <3>3. check_older_writes(dris[i])
      BY <1>1, <1>6, <1>10, <3>2, SetWaits
    <3> QED BY <1>2, <1>6, <1>8, <3>3 DEF check_older_writes
  <2> QED BY <2>1, <2>2
<1>12. j \notin AddressedNow(writeback_pkts, group)
  BY <1>11, Writeback DEF AddressedNow, Targets
<1> QED BY <1>1, <1>3, <1>7, <1>10, <1>11, <1>12, EdgeKept

\* A clock edge keeps the addresses of the accesses those their operands give.
LEMMA ClockAddresses ==
    ASSUME TypeOK, AddressesKnown, NEW group \in FetchGroups, NEW done \in BOOLEAN,
           NEW global_flush, Clock(group, done, global_flush),
           \A i \in DrisIndices :
              dris[i].valid => i \notin fetch_write_mask(group, fetch_ptr)
    PROVE  AddressesKnown'
<1>0. PICK accesses \in [AddressedNow(writeback_pkts, group) -> Accesses] :
         \E set, clear : DrisNext(group, fetch_ptr, writeback_pkts, accesses, set, clear)
  BY ClockDris
<1>1. PICK set, clear : DrisNext(group, fetch_ptr, writeback_pkts, accesses, set, clear)
  BY <1>0
<1>2. SUFFICES ASSUME NEW i \in DrisIndices, dris'[i].valid, dris'[i].mem_addr_ready
               PROVE  dris'[i].addr \in Accesses
  BY DEF AddressesKnown
<1>3. i \notin clear
  BY <1>1, <1>2, EdgeEntries
<1>4. i \notin fetch_write_mask(group, fetch_ptr)
  BY <1>1, <1>2, <1>3, EdgeBorn
<1>5. CASE i \in AddressedNow(writeback_pkts, group)
  BY <1>1, <1>3, <1>4, <1>5, EdgeKept
<1>6. CASE i \notin AddressedNow(writeback_pkts, group)
  BY <1>1, <1>2, <1>3, <1>4, <1>6, EdgeKept DEF AddressesKnown
<1> QED BY <1>5, <1>6

\* Every address in the DRIS came out of an address calculation.
THEOREM AddressInvariant == Spec => []AddressesKnown
<1>1. Init => AddressesKnown
  BY DEF Init, DrisInit, EmptyEntry, AddressesKnown
<1>2. TypeOK /\ InFlight /\ AddressesKnown /\ [Next]_vars => AddressesKnown'
  <2> SUFFICES ASSUME TypeOK, InFlight, AddressesKnown, [Next]_vars PROVE AddressesKnown'
    OBVIOUS
  <2>1. CASE Next
    BY <2>1, StepIsClock, ClockAddresses
  <2>2. CASE UNCHANGED vars
    BY <2>2 DEF vars, AddressesKnown
  <2> QED BY <2>1, <2>2
<1> QED BY <1>1, <1>2, TypeCorrect, InFlightInvariant, PTL DEF Spec

\* Until a trap wipes the shelf, a load that has been sent out has been compared
\* with every older store that is still waiting.
THEOREM LoadsChecked == Spec => [](ShelfWiped \/ LoadChecked)
<1>1. Init => LoadChecked
  BY DEF Init, DrisInit, EmptyEntry, LoadChecked
<1>2. ASSUME TypeOK, InFlight, IssuedMatch, ShelfWiped \/ LoadChecked, [Next]_vars
      PROVE  (ShelfWiped \/ LoadChecked)'
  <2>1. CASE Next
    <3>1. SUFFICES ASSUME ~ShelfWiped' PROVE LoadChecked'
      OBVIOUS
    <3>2. PICK group \in FetchGroups, done \in BOOLEAN : Clock(group, done, FALSE)
      BY <1>2, <2>1, <3>1, StepInWindow
    <3>3. WindowExact /\ ~trap_valid
      BY <1>2, <2>1, <3>1, StepInWindow
    <3>4. LoadChecked
      BY <1>2, <3>3, WipedTraps
    <3> QED BY <1>2, <3>2, <3>3, <3>4, ClockLoads DEF InFlight
  <2>2. CASE UNCHANGED vars
    BY <1>2, <2>2 DEF vars, LoadChecked, ShelfWiped, Trapped, HeadEntry,
                      retire_slot_index, InStatus
  <2> QED BY <1>2, <2>1, <2>2
<1> QED BY <1>1, <1>2, TypeCorrect, InFlightInvariant, IssuedInvariant, PTL DEF Spec

\* If accesses that touch a common byte have one address (as whole words have, and
\* a byte within a word has not), no load that was sent out reads a byte an older
\* store has still to write.
THEOREM LoadsOrdered ==
    ASSUME \A a, b \in Accesses : Overlap(a, b) => a.addr = b.addr
    PROVE  Spec => []LoadAfterStore
<1>1. TypeOK /\ InFlight /\ (ShelfWiped \/ LoadChecked) /\ AddressesKnown => LoadAfterStore
  <2> SUFFICES ASSUME TypeOK, InFlight, ShelfWiped \/ LoadChecked, AddressesKnown, ~Trapped,
                      NEW s \in Window, NEW t \in 0 .. s - 1, s < occupancy,
                      At(s).instr.op = "load", At(s).mem_addr_ready,
                      At(s).dispatched \/ At(s).executed,
                      At(t).instr.op = "store", At(t).mem_addr_ready
               PROVE  ~Overlap(At(s).addr, At(t).addr)
    BY DEF LoadAfterStore
  <2>1. WindowExact /\ LoadChecked
    BY DEF InFlight, ShelfWiped
  <2>2. s \in DrisIndices /\ t \in DrisIndices /\ t \in Window /\ t < s /\ t < occupancy
    BY <2>1, OccupancyType, DrisSizeAssumption DEF Window, DrisIndices
  <2>3. /\ At(s).valid /\ At(s).id = slot_id(retire_ptr, s)
        /\ At(t).valid /\ At(t).id = slot_id(retire_ptr, t)
    BY <2>1, <2>2 DEF WindowExact
  <2>4. is_older(At(t).id, At(s).id)
    BY <2>2, <2>3, OlderInWindow DEF TypeOK
  <2>5. /\ retire_slot_index(s) \in DrisIndices
        /\ retire_slot_index(t) \in DrisIndices
    BY <2>2, WindowType
  <2>6. At(t).addr.addr # At(s).addr.addr
    BY <2>1, <2>3, <2>4, <2>5 DEF LoadChecked, At
  <2>7. At(s).addr \in Accesses /\ At(t).addr \in Accesses
    BY <2>3, <2>5 DEF AddressesKnown, At
  <2> QED BY <2>6, <2>7
<1> QED BY <1>1, TypeCorrect, InFlightInvariant, LoadsChecked, AddressInvariant, PTL

=============================================================================
