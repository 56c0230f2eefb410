---------------------- MODULE LightningRenamingProofs ----------------------
(***************************************************************************)
(* Register renaming: every operand waits for the instruction program      *)
(* order says, for every size of the DRIS and any instruction mix.         *)
(***************************************************************************)
EXTENDS LightningDataflowProofs, WellFoundedInduction

-----------------------------------------------------------------------------
(***************************************************************************)
(* Positions.                                                              *)
(***************************************************************************)

\* A non-empty set of positions has a greatest one.
LEMMA GreatestPosition ==
    ASSUME NEW bound \in Nat, NEW S \in SUBSET (0 .. bound), S # {}
    PROVE  \E t \in S : \A u \in S : u <= t
<1> DEFINE T == {bound - t : t \in S}
<1>1. T \subseteq Nat /\ T # {}
  <2>1. \A t \in S : bound - t \in Nat
    OBVIOUS
  <2> QED BY <2>1
<1>0. PICK R : R = {ss \in Nat \X Nat : ss[1] < ss[2]} /\ IsWellFoundedOn(R, Nat)
  <2>1. IsWellFoundedOn({ss \in Nat \X Nat : ss[1] < ss[2]}, Nat)
    BY NatLessThanWellFounded, Zenon DEF OpToRel
  <2> QED BY <2>1
<1>2. PICK x \in T : \A y \in T : ~(<<y, x>> \in R)
  BY <1>0, <1>1, WFMin
<1>3. PICK t \in S : x = bound - t
  OBVIOUS
<1>4. \A u \in S : u <= t
  <2> SUFFICES ASSUME NEW u \in S PROVE u <= t
    OBVIOUS
  <2>1. bound - u \in T /\ bound - u \in Nat /\ x \in Nat
    BY <1>1
  <2>2. ~(bound - u < x)
    BY <1>0, <1>2, <2>1
  <2> QED BY <1>3, <2>2
<1> QED BY <1>4

\* An edge frees exactly the ids of the entries it clears.
LEMMA ClearedIds ==
    ASSUME TrapsMatch, NEW clear \in SUBSET DrisIndices, NEW i \in DrisIndices
    PROVE  dris[i].id \in {dris[j].id : j \in clear} <=> i \in clear
BY DEF TrapsMatch

\* A completion publishes the id of the entry it lands on.
LEMMA PublishedIds ==
    ASSUME TypeOK, TrapsMatch, IssuedMatch, NEW group, NEW i \in DrisIndices
    PROVE  dris[i].id \in PublishedNow(writeback_pkts, group)
              <=> i \in CompletedNow(writeback_pkts, group)
<1> DEFINE done == Completions(writeback_pkts, fetch_write_mask(group, fetch_ptr))
<1>1. \A p \in done : id_index(p.id) \in DrisIndices /\ dris[id_index(p.id)].id = p.id
  BY Writeback
<1>2. id_index(dris[i].id) = i
  BY DEF TrapsMatch
<1> QED BY <1>1, <1>2 DEF PublishedNow, CompletedNow, Targets

-----------------------------------------------------------------------------
(***************************************************************************)
(* What every locker holds, stated over a window of entries laid out by    *)
(* position: the instructions from position lo on are in flight.           *)
(***************************************************************************)

\* The positions before s that write src.
WritersOf(entries, lo, s, src) ==
    {t \in lo .. s - 1 : src # X0 /\ entries[t].instr.rd = src}

\* The locker names the last of the writers and is locked until it has a result;
\* without a writer it is free.
LockerRight(l, entries, writers) ==
    \/ writers = {} /\ ~l.valid /\ ~l.locked
    \/ \E t \in writers : /\ \A u \in writers : u <= t
                          /\ l.valid
                          /\ l.id = entries[t].id
                          /\ l.locked <=> ~entries[t].result_valid

Lockers(entries, lo, hi) ==
    \A s \in lo .. hi - 1 : \A k \in {1, 2} :
        LockerRight(LockerOf(entries[s], k), entries,
                    WritersOf(entries, lo, s, SourceOf(entries[s].instr, k)))

WindowEntries == [s \in Window |-> At(s)]

\* The inductive invariant behind LockersExact.
LockersRight == Lockers(WindowEntries, 0, occupancy)

\* A valid entry holds an instruction fetch delivered, and has its result when it
\* has executed.
EntriesFetched ==
    \A i \in DrisIndices :
        dris[i].valid => /\ dris[i].instr \in Instrs
                         /\ dris[i].executed => dris[i].result_valid

\* An operand of an instruction that stays: the unlock broadcast and the cleanup
\* of lockers keep up with what completes and what retires.
LEMMA KeptOperand ==
    ASSUME NEW old, NEW new, NEW lo \in Nat, NEW hi \in Nat, NEW s \in lo .. hi - 1,
           NEW src, NEW l, NEW m, NEW published, NEW gone,
           LockerRight(l, old, WritersOf(old, 0, s, src)),
           m.id = l.id,
           m.locked <=> l.locked /\ l.id \notin published,
           m.valid <=> l.valid /\ l.id \notin gone,
           \A t \in 0 .. hi - 1 : old[t].id \in gone <=> t < lo,
           \A t \in 0 .. lo - 1 : old[t].instr.rd # X0 => old[t].result_valid,
           \A t \in lo .. hi - 1 :
              /\ new[t].instr = old[t].instr
              /\ new[t].id = old[t].id
              /\ new[t].result_valid <=> old[t].result_valid \/ old[t].id \in published
    PROVE  LockerRight(m, new, WritersOf(new, lo, s, src))
<1> DEFINE before == WritersOf(old, 0, s, src)
           after == WritersOf(new, lo, s, src)
<1>1. after = {t \in before : lo <= t}
  BY DEF WritersOf
<1>2. before \subseteq 0 .. s - 1
  BY DEF WritersOf
<1>3. CASE before = {} /\ ~l.valid /\ ~l.locked
  BY <1>1, <1>3 DEF LockerRight
<1>4. CASE \E t \in before : /\ \A u \in before : u <= t
                             /\ l.valid
                             /\ l.id = old[t].id
                             /\ l.locked <=> ~old[t].result_valid
  <2>1. PICK t \in before : /\ \A u \in before : u <= t
                            /\ l.valid
                            /\ l.id = old[t].id
                            /\ l.locked <=> ~old[t].result_valid
    BY <1>4
  <2>2. t \in 0 .. hi - 1 /\ s \in Nat
    BY <1>2
  <2>3. CASE lo <= t
    <3>1. t \in after /\ \A u \in after : u <= t
      BY <1>1, <2>1, <2>3
    <3>2. m.valid /\ m.id = new[t].id /\ (m.locked <=> ~new[t].result_valid)
      BY <2>1, <2>2, <2>3
    <3> QED BY <3>1, <3>2 DEF LockerRight
  <2>4. CASE t < lo
    <3>1. after = {}
      BY <1>1, <1>2, <2>1, <2>2, <2>4
    <3>2. old[t].instr.rd # X0
      BY <2>1 DEF WritersOf
    <3>3. ~m.valid /\ ~m.locked
      BY <2>1, <2>2, <2>4, <3>2
    <3> QED BY <3>1, <3>3 DEF LockerRight
  <2> QED BY <2>2, <2>3, <2>4
<1> QED BY <1>3, <1>4 DEF LockerRight

\* Two valid positions are in the order of their ids.
LEMMA PositionOrder ==
    ASSUME TypeOK, WindowExact, NEW s \in 0 .. occupancy - 1, NEW t \in 0 .. occupancy - 1
    PROVE  /\ s \in Window /\ retire_slot_index(s) \in DrisIndices
           /\ At(s) = dris[retire_slot_index(s)] /\ At(s).valid
           /\ is_older(At(s).id, At(t).id) <=> s < t
           /\ retire_slot_index(s) = retire_slot_index(t) => s = t
<1>1. occupancy \in 0 .. DRIS_NUM_ENTRIES /\ retire_ptr \in DrisIds
  BY OccupancyType DEF TypeOK
<1>2. s \in Window /\ t \in Window /\ s \in DrisIndices /\ t \in DrisIndices
  BY <1>1, DrisSizeAssumption DEF Window, DrisIndices
<1>3. At(s).valid /\ At(s).id = slot_id(retire_ptr, s) /\ At(t).id = slot_id(retire_ptr, t)
  BY <1>1, <1>2 DEF WindowExact
<1>4. is_older(At(s).id, At(t).id) <=> s < t
  BY <1>1, <1>2, <1>3, OlderInWindow
<1>5. retire_slot_index(s) = retire_slot_index(t) => s = t
  BY <1>1, <1>2, IndexInjective DEF retire_slot_index
<1>6. retire_slot_index(s) \in DrisIndices
  BY <1>2, WindowType
<1> QED BY <1>2, <1>3, <1>4, <1>5, <1>6 DEF At

\* A dependency names the last of the writers, if there is one.
DependsOn(dep, writers) ==
    /\ writers = {} => dep.valid = FALSE
    /\ writers # {} => \E t \in writers : /\ \A u \in writers : u <= t
                                          /\ dep.valid = TRUE
                                          /\ dep.id = At(t).id

\* Renaming finds the last instruction in the window that writes the source.
LEMMA DependencyIs ==
    ASSUME TypeOK, WindowExact, NEW group \in FetchGroups, NEW w \in DOMAIN group,
           NEW src, src # X0
    PROVE  DependsOn(dependency_in_dris(src, slot_id(fetch_ptr, w - 1)),
                     WritersOf(WindowEntries, 0, occupancy, src))
<1> DEFINE new_id == slot_id(fetch_ptr, w - 1)
           older == OlderWriters(src, new_id)
           writers == WritersOf(WindowEntries, 0, occupancy, src)
<1>0. writers = {t \in 0 .. occupancy - 1 : At(t).instr.rd = src}
  <2>1. \A t \in 0 .. occupancy - 1 : WindowEntries[t] = At(t)
    BY PositionOrder DEF WindowEntries
  <2> QED BY <2>1 DEF WritersOf
<1> HIDE DEF writers
<1>1. \A i \in DrisIndices : i \in older <=> \E t \in writers : i = retire_slot_index(t)
  <2>1. ASSUME NEW i \in older PROVE \E t \in writers : i = retire_slot_index(t)
    <3>1. i \in DrisIndices /\ dris[i].valid /\ dris[i].instr.rd = src
      BY <2>1 DEF OlderWriters
    <3>2. PICK t \in Window : t < occupancy /\ i = retire_slot_index(t)
      BY <3>1, ValidPosition
    <3>3. t \in 0 .. occupancy - 1
      BY <3>2, OccupancyType DEF Window
    <3> QED BY <1>0, <3>1, <3>2, <3>3 DEF At
  <2>2. ASSUME NEW t \in writers PROVE retire_slot_index(t) \in older
    <3>1. PICK i \in DrisIndices : i = retire_slot_index(t) /\ dris[i].valid
      BY <1>0, PositionOrder
    <3>2. dris[i].instr.rd = src
      BY <1>0, <3>1 DEF At
    <3>3. is_older(dris[i].id, new_id)
      BY <3>1, NewbornYounger
    <3> QED BY <3>1, <3>2, <3>3 DEF OlderWriters
  <2> QED BY <2>1, <2>2
<1>2. CASE writers = {}
  <2>1. older = {}
    BY <1>1, <1>2 DEF OlderWriters
  <2>2. YoungestOf(older) = {}
    BY <2>1 DEF YoungestOf
  <2>3. dependency_in_dris(src, new_id).valid = FALSE
    BY <2>2 DEF dependency_in_dris, NoDependency
  <2> QED BY <1>2, <2>3 DEF DependsOn, writers
<1>3. CASE writers # {}
  <2>1. occupancy \in Nat /\ writers \in SUBSET (0 .. occupancy)
    BY <1>0, OccupancyType
  <2>2. PICK t \in writers : \A u \in writers : u <= t
    BY <1>3, <2>1, GreatestPosition
  <2>3. PICK i \in older : i = retire_slot_index(t) /\ i \in DrisIndices /\ At(t) = dris[i]
    BY <1>0, <1>1, <2>2, PositionOrder
  <2>4. \A j \in older : \E u \in writers :
           j = retire_slot_index(u) /\ j \in DrisIndices /\ At(u) = dris[j]
    BY <1>1 DEF OlderWriters, At
  <2>5. \A j \in older \ {i} : is_older(dris[j].id, dris[i].id) /\ ~is_older(dris[i].id, dris[j].id)
    <3>1. SUFFICES ASSUME NEW j \in older \ {i}
                   PROVE  /\ is_older(dris[j].id, dris[i].id)
                          /\ ~is_older(dris[i].id, dris[j].id)
      OBVIOUS
    <3>2. PICK u \in writers : j = retire_slot_index(u) /\ At(u) = dris[j]
      BY <2>4
    <3>3. u < t
      <4>1. u # t /\ u <= t
        BY <2>2, <2>3, <3>1, <3>2
      <4>2. u \in Int /\ t \in Int
        BY <1>0
      <4> QED BY <4>1, <4>2
    <3>4. t \in 0 .. occupancy - 1 /\ u \in 0 .. occupancy - 1 /\ u \in Int /\ t \in Int
      BY <1>0, <2>1
    <3>5. is_older(At(u).id, At(t).id) /\ ~is_older(At(t).id, At(u).id)
      BY <3>3, <3>4, PositionOrder
    <3> QED BY <2>3, <3>2, <3>5
  <2>6. YoungestOf(older) = {i}
    BY <2>5 DEF YoungestOf
  <2>7. dependency_in_dris(src, new_id) = [valid |-> TRUE, id |-> dris[i].id]
    BY <2>6 DEF dependency_in_dris
  <2> QED BY <1>3, <2>2, <2>3, <2>7 DEF DependsOn, writers
<1> QED BY <1>2, <1>3 DEF writers

\* The earlier ways of a group that write src.
EarlyWriters(src, w, group) == {v \in 1 .. w - 1 : src # X0 /\ group[v].rd = src}

\* The one an operand depends on, if any, is the last.
LEMMA GroupWriterIs ==
    ASSUME NEW src, NEW w \in Nat \ {0}, NEW group
    PROVE  LET early == EarlyWriters(src, w, group) IN
           /\ early = {} => GroupWriter(src, w, group) = {}
           /\ early # {} => \E v \in early : /\ \A u \in early : u <= v
                                             /\ GroupWriter(src, w, group) = {v}
<1> DEFINE early == EarlyWriters(src, w, group)
<1>0. early = {v \in 1 .. w - 1 : src # X0 /\ group[v].rd = src}
  BY DEF EarlyWriters
<1>1. CASE early = {}
  BY <1>0, <1>1 DEF GroupWriter
<1>2. CASE early # {}
  <2>1. PICK v \in early : \A u \in early : u <= v
    <3>1. w \in Nat /\ early \in SUBSET (0 .. w)
      BY <1>0
    <3> QED BY <1>2, <3>1, GreatestPosition
  <2>2. v \in 1 .. w - 1 /\ src # X0 /\ group[v].rd = src
    BY <1>0
  <2>3. \A x \in v + 1 .. w - 1 : group[x].rd # src
    BY <1>0, <2>1, <2>2
  <2>4. v \in GroupWriter(src, w, group)
    BY <2>2, <2>3 DEF GroupWriter
  <2>5. ASSUME NEW x \in GroupWriter(src, w, group) PROVE x = v
    <3>1. x \in 1 .. w - 1 /\ group[x].rd = src /\ \A y \in x + 1 .. w - 1 : group[y].rd # src
      BY DEF GroupWriter
    <3>2. x \in early
      BY <1>0, <2>2, <3>1
    <3> QED BY <2>1, <2>2, <3>1, <3>2
  <2>6. GroupWriter(src, w, group) = {v}
    BY <2>4, <2>5 DEF GroupWriter
  <2> QED BY <1>2, <2>1, <2>6
<1> QED BY <1>1, <1>2

BornBehind(after, old, inGroup, occ, lo) ==
    /\ inGroup = {} => after = {t \in old : lo <= t}
    /\ \A v \in inGroup : /\ v \in Nat \ {0}
                          /\ inGroup = {v}
                          /\ occ + (v - 1) \in after
                          /\ \A u \in after : u <= occ + (v - 1)

\* The writers before a newborn: those that stay, and earlier ways of its group.
LEMMA BornWriters ==
    ASSUME NEW occ \in Nat, NEW lo \in 0 .. occ, NEW w \in Nat \ {0}, NEW src,
           NEW old, NEW new, NEW group,
           \A t \in lo .. occ - 1 : new[t].instr = old[t].instr,
           \A v \in 1 .. w - 1 : new[occ + (v - 1)].instr = group[v]
    PROVE  BornBehind(WritersOf(new, lo, occ + (w - 1), src), WritersOf(old, 0, occ, src),
                      GroupWriter(src, w, group), occ, lo)
<1> DEFINE after == WritersOf(new, lo, occ + (w - 1), src)
<1> DEFINE early == EarlyWriters(src, w, group)
<1>1. early = {v \in 1 .. w - 1 : src # X0 /\ group[v].rd = src}
  BY DEF EarlyWriters
<1>2. \A t : t \in after <=> /\ t \in lo .. occ + (w - 1) - 1
                             /\ src # X0 /\ new[t].instr.rd = src
  BY DEF WritersOf
<1>3. \A t : t \in WritersOf(old, 0, occ, src) <=> /\ t \in 0 .. occ - 1
                                                   /\ src # X0 /\ old[t].instr.rd = src
  BY DEF WritersOf
<1> HIDE DEF after, early
<1>4. \A t \in after : t < occ \/ (t - occ + 1 \in early)
  <2>1. SUFFICES ASSUME NEW t \in after, ~(t < occ) PROVE t - occ + 1 \in early
    OBVIOUS
  <2>2. t \in lo .. occ + (w - 1) - 1 /\ src # X0 /\ new[t].instr.rd = src
    BY <1>2
  <2>3. PICK v \in 1 .. w - 1 : v = t - occ + 1 /\ t = occ + (v - 1)
    BY <2>1, <2>2
  <2>4. group[v].rd = src
    BY <2>2, <2>3
  <2> QED BY <1>1, <2>2, <2>3, <2>4
<1>5. CASE early = {}
  <2>1. GroupWriter(src, w, group) = {}
    BY <1>5, GroupWriterIs DEF early
  <2>2. after = {t \in WritersOf(old, 0, occ, src) : lo <= t}
    <3>1. ASSUME NEW t \in after PROVE t \in WritersOf(old, 0, occ, src) /\ lo <= t
      <4>1. t \in lo .. occ + (w - 1) - 1 /\ src # X0 /\ new[t].instr.rd = src
        BY <1>2
      <4>2. t \in lo .. occ - 1
        BY <1>4, <1>5, <4>1
      <4> QED BY <1>3, <4>1, <4>2
    <3>2. ASSUME NEW t \in WritersOf(old, 0, occ, src), lo <= t PROVE t \in after
      <4>1. t \in 0 .. occ - 1 /\ src # X0 /\ old[t].instr.rd = src
        BY <1>3
      <4>2. t \in lo .. occ - 1 /\ t \in lo .. occ + (w - 1) - 1
        BY <3>2, <4>1
      <4> QED BY <1>2, <4>1, <4>2
    <3> QED BY <3>1, <3>2
  <2> QED BY <2>1, <2>2 DEF BornBehind, after
<1>6. CASE early # {}
  <2>1. PICK v \in early : /\ \A u \in early : u <= v
                           /\ GroupWriter(src, w, group) = {v}
    BY <1>6, GroupWriterIs DEF early
  <2>2. v \in 1 .. w - 1 /\ src # X0 /\ group[v].rd = src
    BY <1>1
  <2>3. occ + (v - 1) \in after
    BY <1>2, <2>2
  <2>4. ASSUME NEW u \in after PROVE u <= occ + (v - 1)
    <3>1. u \in lo .. occ + (w - 1) - 1
      BY <1>2
    <3> QED BY <1>4, <2>1, <2>2, <3>1
  <2>5. GroupWriter(src, w, group) # {}
    BY <2>1
  <2> QED BY <2>1, <2>2, <2>3, <2>4, <2>5 DEF BornBehind, after
<1> QED BY <1>5, <1>6

\* An operand of a newborn: the lockers intake sets allow for what completes and
\* what retires in the same cycle, and for the earlier ways of the group.
LEMMA BornOperand ==
    ASSUME TypeOK, TrapsMatch, WindowExact,
           NEW group \in FetchGroups, NEW w \in DOMAIN group, NEW src, NEW new,
           NEW clear, NEW lo \in 0 .. occupancy,
           \A t \in 0 .. occupancy - 1 : retire_slot_index(t) \in clear <=> t < lo,
           \A t \in 0 .. lo - 1 : At(t).instr.rd # X0 => At(t).result_valid,
           \A t \in lo .. occupancy - 1 :
              /\ new[t].instr = At(t).instr
              /\ new[t].id = At(t).id
              /\ new[t].result_valid
                    <=> At(t).result_valid \/ At(t).id \in PublishedNow(writeback_pkts, group),
           \A v \in 1 .. w - 1 :
              /\ new[occupancy + (v - 1)].instr = group[v]
              /\ new[occupancy + (v - 1)].id = slot_id(fetch_ptr, v - 1)
              /\ ~new[occupancy + (v - 1)].result_valid
    PROVE  LockerRight(NewLocker(src, w, group, fetch_ptr, writeback_pkts, clear), new,
                       WritersOf(new, lo, occupancy + (w - 1), src))
<1> DEFINE l == NewLocker(src, w, group, fetch_ptr, writeback_pkts, clear)
           inGroup == GroupWriter(src, w, group)
           dep == dependency_in_dris(src, slot_id(fetch_ptr, w - 1))
           source == dris[id_index(dep.id)]
           born == fetch_write_mask(group, fetch_ptr)
           after == WritersOf(new, lo, occupancy + (w - 1), src)
           old == WritersOf(WindowEntries, 0, occupancy, src)
<1>1. occupancy \in Nat /\ w \in Nat \ {0} /\ lo \in Nat
  <2>1. occupancy \in Nat /\ w \in 1 .. Len(group) /\ Len(group) \in Nat
    BY NewbornPosition
  <2> QED BY <2>1
<1>2. \A t \in 0 .. occupancy - 1 : WindowEntries[t] = At(t)
  BY PositionOrder DEF WindowEntries
<1>3. BornBehind(after, old, inGroup, occupancy, lo)
  <2>1. \A t \in lo .. occupancy - 1 : new[t].instr = WindowEntries[t].instr
    BY <1>1, <1>2
  <2>2. \A v \in 1 .. w - 1 : new[occupancy + (v - 1)].instr = group[v]
    OBVIOUS
  <2> QED BY <1>1, <2>1, <2>2, BornWriters
<1>4. \A t : t \in old <=> t \in 0 .. occupancy - 1 /\ src # X0 /\ At(t).instr.rd = src
  BY <1>2 DEF WritersOf
<1>7. ASSUME src # X0
      PROVE  DependsOn(dep, old)
  BY <1>7, DependencyIs
<1> HIDE DEF inGroup, after, old
<1>5. CASE inGroup # {}
  <2>1. PICK v \in inGroup : inGroup = {v} /\ v \in 1 .. w - 1
    <3>0. PICK v : v \in inGroup
      BY <1>5
    <3>1. inGroup = {v}
      BY <1>3, <3>0, Zenon DEF BornBehind
    <3>2. v \in 1 .. w - 1
      BY <3>0 DEF GroupWriter, inGroup
    <3> QED BY <3>0, <3>1, <3>2
  <2>2. l = [locked |-> TRUE, valid |-> TRUE, id |-> slot_id(fetch_ptr, v - 1)]
    BY <2>1 DEF NewLocker, inGroup
  <2>3. PICK t \in after : t = occupancy + (v - 1) /\ \A u \in after : u <= t
    BY <1>3, Zenon DEF BornBehind
  <2>4. l.id = new[t].id /\ l.valid /\ l.locked /\ ~new[t].result_valid
    BY <2>1, <2>2, <2>3
  <2> QED BY <2>3, <2>4 DEF LockerRight, after
<1>6. CASE inGroup = {}
  <2> DEFINE waits == /\ dep.valid
                      /\ source.valid
                      /\ ~source.result_valid
                      /\ ~completing_wb(dep, writeback_pkts, born)
             stays == dep.valid /\ ~retiring_now(dep, clear)
  <2>1. l = [locked |-> waits, valid |-> stays, id |-> dep.id]
    BY <1>6, Zenon DEF NewLocker, inGroup
  <2> HIDE DEF l, waits, stays
  <2>5. l.locked = waits /\ l.valid = stays /\ l.id = dep.id
    BY <2>1
  <2>2. /\ l.locked <=> /\ dep.valid
                        /\ source.valid
                        /\ ~source.result_valid
                        /\ ~completing_wb(dep, writeback_pkts, born)
        /\ l.valid <=> dep.valid /\ ~retiring_now(dep, clear)
        /\ l.id = dep.id
    BY <2>5, Zenon DEF waits, stays
  <2> HIDE DEF dep
  <2>3. CASE src = X0 \/ old = {}
    <3>1. dep.valid = FALSE
      <4>1. CASE src = X0
        BY <4>1 DEF dep, dependency_in_dris, NoDependency
      <4>2. CASE src # X0 /\ old = {}
        BY <1>7, <4>2 DEF DependsOn
      <4> QED BY <2>3, <4>1, <4>2
    <3>2. after = {}
      BY <1>3, <1>4, <1>6, <2>3 DEF BornBehind
    <3> QED BY <2>2, <3>1, <3>2 DEF LockerRight, l, after
  <2>4. CASE src # X0 /\ old # {}
    <3>1. PICK t \in old : /\ \A u \in old : u <= t
                           /\ dep.valid = TRUE
                           /\ dep.id = At(t).id
      BY <1>7, <2>4 DEF DependsOn
    <3>2. t \in 0 .. occupancy - 1 /\ At(t).instr.rd = src
      BY <1>4
    <3>3. PICK i \in DrisIndices : i = retire_slot_index(t) /\ At(t) = dris[i] /\ dris[i].valid
      BY <3>2, PositionOrder
    <3>4. id_index(dep.id) = i /\ source = At(t)
      BY <3>1, <3>3 DEF TrapsMatch
    <3>5. completing_wb(dep, writeback_pkts, born)
             <=> At(t).id \in PublishedNow(writeback_pkts, group)
      BY <3>1 DEF completing_wb, PublishedNow
    <3>6. retiring_now(dep, clear) <=> t < lo
      BY <3>1, <3>2, <3>3, <3>4 DEF retiring_now
    <3>7. l.id = At(t).id /\ (l.valid <=> ~(t < lo))
      BY <2>2, <3>1, <3>6
    <3>8. l.locked <=> /\ ~At(t).result_valid
                       /\ At(t).id \notin PublishedNow(writeback_pkts, group)
      BY <2>2, <3>1, <3>3, <3>4, <3>5
    <3>9. CASE ~(t < lo)
      <4>1. t \in lo .. occupancy - 1
        BY <1>1, <3>2, <3>9
      <4>2. t \in after /\ \A u \in after : u <= t
        <5>1. lo <= t
          BY <1>1, <4>1
        <5> QED BY <1>3, <1>6, <3>1, <5>1, Zenon DEF BornBehind
      <4>3. new[t].id = At(t).id /\ (l.locked <=> ~new[t].result_valid)
        BY <3>8, <4>1
      <4> QED BY <3>7, <3>9, <4>2, <4>3 DEF LockerRight, l, after
    <3>10. CASE t < lo
      <4>1. after = {}
        <5>1. \A u \in old : u <= t /\ u \in Int
          BY <1>4, <3>1
        <5>2. ASSUME NEW u \in old PROVE ~(lo <= u)
          <6>1. u \in Int /\ u <= t /\ t \in Int /\ lo \in Int
            BY <1>1, <3>2, <5>1
          <6> QED BY <3>10, <6>1
        <5> QED BY <1>3, <1>6, <5>2, Zenon DEF BornBehind
      <4>2. ~l.valid /\ ~l.locked
        BY <1>1, <2>4, <3>2, <3>7, <3>8, <3>10
      <4> QED BY <4>1, <4>2 DEF LockerRight, l, after
    <3> QED BY <3>9, <3>10
  <2> QED BY <2>3, <2>4
<1> QED BY <1>5, <1>6

-----------------------------------------------------------------------------
(***************************************************************************)
(* One edge, position by position.                                         *)
(***************************************************************************)

\* What the entries of the window become, before the pointers move.
NextEntries == [t \in Window |-> dris'[retire_slot_index(t)]]

\* An instruction that stays.
LEMMA StaysAt ==
    ASSUME TypeOK, TrapsMatch, IssuedMatch, WindowExact, NEW group \in FetchGroups,
           NEW accesses, NEW set, NEW clear, NEW wrong, NEW n, NEW keep,
           CoreEdge(group, accesses, set, clear, wrong, n, keep),
           NEW t \in n .. keep - 1
    PROVE  /\ t \in Window
           /\ NextEntries[t].instr = At(t).instr
           /\ NextEntries[t].id = At(t).id
           /\ NextEntries[t].result_valid
                 <=> \/ At(t).result_valid
                     \/ At(t).id \in PublishedNow(writeback_pkts, group)
           /\ \A k \in {1, 2} :
                 LET old == LockerOf(At(t), k)
                     new == LockerOf(NextEntries[t], k)
                 IN  /\ new.id = old.id
                     /\ new.locked <=> /\ old.locked
                                       /\ old.id \notin PublishedNow(writeback_pkts, group)
                     /\ new.valid <=> old.valid /\ old.id \notin {dris[j].id : j \in clear}
<1>1. n \in Nat /\ keep \in Nat /\ occupancy \in Nat /\ t \in 0 .. occupancy - 1 /\ n <= t /\ t < keep
  BY OccupancyType DEF CoreEdge
<1>2. PICK i \in DrisIndices : i = retire_slot_index(t) /\ At(t) = dris[i] /\ dris[i].valid
  BY <1>1, PositionOrder
<1>3. t \in Window /\ i \notin clear
  BY <1>1, <1>2, PositionOrder DEF CoreEdge
<1>4. i \notin fetch_write_mask(group, fetch_ptr)
  BY <1>2, RoomForGroup
<1>5. DrisNext(group, fetch_ptr, writeback_pkts, accesses, set, clear)
  BY DEF CoreEdge
<1>6. NextEntries[t] = dris'[i]
  BY <1>2, <1>3 DEF NextEntries
<1>7. /\ dris'[i].instr = dris[i].instr
      /\ dris'[i].id = dris[i].id
      /\ dris'[i].result_valid
            <=> dris[i].result_valid \/ i \in CompletedNow(writeback_pkts, group)
  BY <1>3, <1>4, <1>5, EdgeKept
<1>8. i \in CompletedNow(writeback_pkts, group)
         <=> dris[i].id \in PublishedNow(writeback_pkts, group)
  BY PublishedIds
<1>9. ASSUME NEW k \in {1, 2}
      PROVE  LET old == LockerOf(dris[i], k)
                 new == LockerOf(dris'[i], k)
             IN  /\ new.id = old.id
                 /\ new.locked <=> /\ old.locked
                                   /\ old.id \notin PublishedNow(writeback_pkts, group)
                 /\ new.valid <=> old.valid /\ old.id \notin {dris[j].id : j \in clear}
  BY <1>2, <1>3, <1>4, <1>5, LockersKept
<1> QED BY <1>2, <1>3, <1>6, <1>7, <1>8, <1>9

\* A newborn.
LEMMA BornAt ==
    ASSUME TypeOK, WindowExact, NEW group \in FetchGroups,
           NEW accesses, NEW set, NEW clear, NEW wrong, NEW n, NEW keep,
           CoreEdge(group, accesses, set, clear, wrong, n, keep),
           NEW w \in DOMAIN group
    PROVE  /\ occupancy + (w - 1) \in Window
           /\ NextEntries[occupancy + (w - 1)].instr = group[w]
           /\ NextEntries[occupancy + (w - 1)].id = slot_id(fetch_ptr, w - 1)
           /\ ~NextEntries[occupancy + (w - 1)].result_valid
           /\ \A k \in {1, 2} :
                 LET new  == LockerOf(NextEntries[occupancy + (w - 1)], k)
                     born == NewLocker(SourceOf(group[w], k), w, group, fetch_ptr,
                                       writeback_pkts, clear)
                 IN  /\ new.id = born.id
                     /\ new.locked <=> born.locked
                     /\ new.valid <=> born.valid
<1>1. /\ w \in 1 .. Len(group) /\ Len(group) \in Nat
      /\ occupancy \in Nat
      /\ occupancy + (w - 1) \in DrisIndices
      /\ slot_id(fetch_ptr, w - 1) = slot_id(retire_ptr, occupancy + (w - 1))
  BY NewbornPosition
<1>2. PICK t \in Window : t = occupancy + (w - 1) /\ t \in DrisIndices
  BY <1>1 DEF Window, DrisIndices
<1>3. PICK i \in DrisIndices : i = retire_slot_index(t)
  BY <1>2, WindowType
<1>4. i = id_index(slot_id(fetch_ptr, w - 1)) /\ i \in fetch_write_mask(group, fetch_ptr)
  BY <1>1, <1>2, <1>3 DEF retire_slot_index, fetch_write_mask
<1>5. ~dris[i].valid
  BY <1>4, RoomForGroup
<1>6. i \notin clear
  <2>1. keep = occupancy
    BY <1>1 DEF CoreEdge
  <2>2. keep <= t /\ t < keep + Len(group)
    BY <1>1, <1>2, <2>1
  <2> QED BY <1>3, <2>2 DEF CoreEdge
<1>7. DrisNext(group, fetch_ptr, writeback_pkts, accesses, set, clear)
  BY DEF CoreEdge
<1>8. ASSUME NEW v \in DOMAIN group, id_index(slot_id(fetch_ptr, v - 1)) = i
      PROVE  v = w
  <2>1. /\ v \in 1 .. Len(group)
        /\ occupancy + (v - 1) \in DrisIndices
        /\ slot_id(fetch_ptr, v - 1) = slot_id(retire_ptr, occupancy + (v - 1))
    BY NewbornPosition
  <2>2. occupancy + (v - 1) = occupancy + (w - 1)
    BY <1>1, <1>4, <1>8, <2>1, IndexInjective DEF TypeOK
  <2> QED BY <1>1, <2>1, <2>2
<1>9. /\ dris'[i].instr = group[w]
      /\ dris'[i].id = slot_id(fetch_ptr, w - 1)
      /\ ~dris'[i].result_valid
  <2>1. PICK v \in DOMAIN group : /\ id_index(slot_id(fetch_ptr, v - 1)) = i
                                  /\ dris'[i].instr = group[v]
                                  /\ dris'[i].id = slot_id(fetch_ptr, v - 1)
                                  /\ ~dris'[i].result_valid
    BY <1>4, <1>5, <1>6, <1>7, EdgeBorn
  <2> QED BY <1>8, <2>1
<1>10. ASSUME NEW k \in {1, 2}
       PROVE  LET new  == LockerOf(dris'[i], k)
                  born == NewLocker(SourceOf(group[w], k), w, group, fetch_ptr,
                                    writeback_pkts, clear)
              IN  /\ new.id = born.id
                  /\ new.locked <=> born.locked
                  /\ new.valid <=> born.valid
  <2>1. PICK v \in DOMAIN group :
           /\ id_index(slot_id(fetch_ptr, v - 1)) = i
           /\ LET new  == LockerOf(dris'[i], k)
                  born == NewLocker(SourceOf(group[v], k), v, group, fetch_ptr,
                                    writeback_pkts, clear)
              IN  /\ new.id = born.id
                  /\ new.locked <=> born.locked
                  /\ new.valid <=> born.valid
    BY <1>4, <1>5, <1>6, <1>7, LockersBorn
  <2> QED BY <1>8, <2>1
<1>11. NextEntries[t] = dris'[i]
  BY <1>3 DEF NextEntries
<1> QED BY <1>2, <1>9, <1>10, <1>11

\* What leaves: the positions before n, each with its result if it writes one.
LEMMA GoneAt ==
    ASSUME TypeOK, TrapsMatch, WindowExact, EntriesFetched, NEW group \in FetchGroups,
           NEW accesses, NEW set, NEW clear, NEW wrong, NEW n, NEW keep,
           CoreEdge(group, accesses, set, clear, wrong, n, keep)
    PROVE  /\ \A t \in 0 .. keep - 1 : retire_slot_index(t) \in clear <=> t < n
           /\ \A t \in 0 .. keep - 1 : At(t).id \in {dris[j].id : j \in clear} <=> t < n
           /\ \A t \in 0 .. n - 1 : At(t).instr.rd # X0 => At(t).result_valid
<1>1. /\ n \in Nat /\ keep \in Nat /\ occupancy \in Nat /\ n <= keep /\ keep <= occupancy
      /\ clear \in SUBSET DrisIndices
  BY OccupancyType DEF CoreEdge
<1>2. ASSUME NEW t \in 0 .. keep - 1 PROVE retire_slot_index(t) \in clear <=> t < n
  <2>1. t \in 0 .. occupancy - 1
    BY <1>1
  <2>2. t \in Window
    BY <2>1, PositionOrder
  <2> QED BY <1>1, <2>2 DEF CoreEdge
<1>3. ASSUME NEW t \in 0 .. keep - 1 PROVE At(t).id \in {dris[j].id : j \in clear} <=> t < n
  <2>1. t \in 0 .. occupancy - 1
    BY <1>1
  <2>2. PICK i \in DrisIndices : i = retire_slot_index(t) /\ At(t) = dris[i]
    BY <2>1, PositionOrder
  <2> QED BY <1>1, <1>2, <2>2, ClearedIds
<1>4. ASSUME NEW t \in 0 .. n - 1, At(t).instr.rd # X0 PROVE At(t).result_valid
  <2>1. t \in 0 .. occupancy - 1
    BY <1>1
  <2>2. PICK i \in DrisIndices : i = retire_slot_index(t) /\ At(t) = dris[i] /\ dris[i].valid
    BY <2>1, PositionOrder
  <2>3. dris[i].instr \in Instrs /\ (dris[i].executed => dris[i].result_valid)
    BY <2>2 DEF EntriesFetched
  <2>4. entry_eligible(i) \/ (t = 0 /\ store_ready)
    BY <2>2 DEF CoreEdge
  <2>5. dris[i].instr.op # "store"
    BY <1>4, <2>2, <2>3, InstrAssumption
  <2> QED BY <2>2, <2>3, <2>4, <2>5 DEF entry_eligible, store_ready, HeadEntry
<1> QED BY <1>2, <1>3, <1>4

\* An edge leaves every locker of every instruction that is then in flight right.
LEMMA EdgeLockers ==
    ASSUME TypeOK, TrapsMatch, IssuedMatch, WindowExact, EntriesFetched, LockersRight,
           NEW group \in FetchGroups,
           NEW accesses, NEW set, NEW clear, NEW wrong, NEW n, NEW keep,
           CoreEdge(group, accesses, set, clear, wrong, n, keep)
    PROVE  Lockers(NextEntries, n, keep + Len(group))
<1>1. /\ n \in Nat /\ keep \in Nat /\ occupancy \in Nat /\ n <= keep /\ keep <= occupancy
      /\ Len(group) = 0 \/ keep = occupancy
  BY OccupancyType DEF CoreEdge
<1>2. Len(group) \in Nat /\ DOMAIN group = 1 .. Len(group)
  BY GroupType
<1>3. /\ \A t \in 0 .. keep - 1 : retire_slot_index(t) \in clear <=> t < n
      /\ \A t \in 0 .. keep - 1 : At(t).id \in {dris[j].id : j \in clear} <=> t < n
      /\ \A t \in 0 .. n - 1 : At(t).instr.rd # X0 => At(t).result_valid
  BY GoneAt
<1>4. \A t \in 0 .. occupancy - 1 : WindowEntries[t] = At(t)
  BY PositionOrder DEF WindowEntries
<1>5. \A t \in n .. keep - 1 :
         /\ NextEntries[t].instr = At(t).instr
         /\ NextEntries[t].id = At(t).id
         /\ NextEntries[t].result_valid
               <=> \/ At(t).result_valid
                   \/ At(t).id \in PublishedNow(writeback_pkts, group)
  BY StaysAt
<1>6. ASSUME NEW s \in n .. keep - 1, NEW k \in {1, 2}
      PROVE  LockerRight(LockerOf(NextEntries[s], k), NextEntries,
                         WritersOf(NextEntries, n, s, SourceOf(NextEntries[s].instr, k)))
  <2> DEFINE src == SourceOf(At(s).instr, k)
             old == LockerOf(At(s), k)
             new == LockerOf(NextEntries[s], k)
             gone == {dris[j].id : j \in clear}
  <2>1. s \in 0 .. occupancy - 1
    BY <1>1
  <2>2. LockerRight(old, WindowEntries, WritersOf(WindowEntries, 0, s, src))
    BY <1>4, <2>1 DEF LockersRight, Lockers
  <2>3. /\ new.id = old.id
        /\ new.locked <=> old.locked /\ old.id \notin PublishedNow(writeback_pkts, group)
        /\ new.valid <=> old.valid /\ old.id \notin gone
    BY StaysAt
  <2>4. SourceOf(NextEntries[s].instr, k) = src
    BY <1>5
  <2>5. \A t \in 0 .. keep - 1 : WindowEntries[t].id \in gone <=> t < n
    BY <1>1, <1>3, <1>4
  <2>6. \A t \in 0 .. n - 1 : WindowEntries[t].instr.rd # X0 => WindowEntries[t].result_valid
    BY <1>1, <1>3, <1>4
  <2>7. \A t \in n .. keep - 1 :
           /\ NextEntries[t].instr = WindowEntries[t].instr
           /\ NextEntries[t].id = WindowEntries[t].id
           /\ NextEntries[t].result_valid
                 <=> \/ WindowEntries[t].result_valid
                     \/ WindowEntries[t].id \in PublishedNow(writeback_pkts, group)
    BY <1>1, <1>4, <1>5
  <2> HIDE DEF src, old, new, gone
  <2>8. LockerRight(new, NextEntries, WritersOf(NextEntries, n, s, src))
    BY <1>1, <2>2, <2>3, <2>5, <2>6, <2>7, KeptOperand
  <2> QED BY <2>4, <2>8 DEF new
<1>7. ASSUME NEW w \in DOMAIN group, NEW k \in {1, 2}
      PROVE  LET s == occupancy + (w - 1) IN
             LockerRight(LockerOf(NextEntries[s], k), NextEntries,
                         WritersOf(NextEntries, n, s, SourceOf(NextEntries[s].instr, k)))
  <2> DEFINE s == occupancy + (w - 1)
             src == SourceOf(group[w], k)
             born == NewLocker(src, w, group, fetch_ptr, writeback_pkts, clear)
             new == LockerOf(NextEntries[s], k)
  <2>1. keep = occupancy /\ n \in 0 .. occupancy
    BY <1>1, <1>2
  <2>2. \A v \in 1 .. w - 1 :
           /\ NextEntries[occupancy + (v - 1)].instr = group[v]
           /\ NextEntries[occupancy + (v - 1)].id = slot_id(fetch_ptr, v - 1)
           /\ ~NextEntries[occupancy + (v - 1)].result_valid
    BY <1>2, BornAt
  <2>3. /\ \A t \in 0 .. occupancy - 1 : retire_slot_index(t) \in clear <=> t < n
        /\ \A t \in n .. occupancy - 1 :
              /\ NextEntries[t].instr = At(t).instr
              /\ NextEntries[t].id = At(t).id
              /\ NextEntries[t].result_valid
                    <=> \/ At(t).result_valid
                        \/ At(t).id \in PublishedNow(writeback_pkts, group)
    BY <1>3, <1>5, <2>1
  <2>4. LockerRight(born, NextEntries, WritersOf(NextEntries, n, s, src))
    BY <1>3, <2>1, <2>2, <2>3, BornOperand
  <2>5. /\ NextEntries[s].instr = group[w]
        /\ new.id = born.id
        /\ new.locked <=> born.locked
        /\ new.valid <=> born.valid
    BY BornAt
  <2> HIDE DEF s, born, new
  <2>6. LockerRight(new, NextEntries, WritersOf(NextEntries, n, s, src))
    BY <2>4, <2>5 DEF LockerRight
  <2> QED BY <2>5, <2>6 DEF s, new
<1>8. PICK hi : hi = keep + Len(group)
  OBVIOUS
<1>9. ASSUME NEW s \in n .. hi - 1, NEW k \in {1, 2}
      PROVE  LockerRight(LockerOf(NextEntries[s], k), NextEntries,
                         WritersOf(NextEntries, n, s, SourceOf(NextEntries[s].instr, k)))
  <2>1. CASE s < keep
    BY <1>1, <1>2, <1>6, <1>8, <2>1
  <2>2. CASE ~(s < keep)
    <3>1. s - occupancy + 1 \in DOMAIN group /\ s = occupancy + ((s - occupancy + 1) - 1)
      BY <1>1, <1>2, <1>8, <2>2
    <3>2. PICK w \in DOMAIN group : s = occupancy + (w - 1)
      BY <3>1
    <3> QED BY <1>7, <3>2
  <2> QED BY <2>1, <2>2
<1>10. Lockers(NextEntries, n, hi)
  BY <1>9 DEF Lockers
<1> QED BY <1>8, <1>10

\* Counting positions from another base changes nothing.
LEMMA ShiftLockers ==
    ASSUME NEW old, NEW new, NEW n \in Nat, NEW m \in Nat,
           \A t \in n .. m - 1 : new[t - n] = old[t],
           Lockers(old, n, m)
    PROVE  Lockers(new, 0, m - n)
<1>1. SUFFICES ASSUME NEW s \in 0 .. (m - n) - 1, NEW k \in {1, 2}
               PROVE  LockerRight(LockerOf(new[s], k), new,
                                  WritersOf(new, 0, s, SourceOf(new[s].instr, k)))
  BY DEF Lockers
<1>2. PICK p \in n .. m - 1 : p = s + n /\ new[s] = old[p]
  <2>1. s + n \in n .. m - 1 /\ (s + n) - n = s
    OBVIOUS
  <2> QED BY <2>1
<1> DEFINE src == SourceOf(new[s].instr, k)
           l == LockerOf(new[s], k)
           before == WritersOf(old, n, p, src)
           after == WritersOf(new, 0, s, src)
<1>3. LockerRight(l, old, before)
  BY <1>2 DEF Lockers
<1>4. \A t : t \in before <=> t \in n .. p - 1 /\ src # X0 /\ old[t].instr.rd = src
  BY DEF WritersOf
<1>5. \A t : t \in after <=> t \in 0 .. s - 1 /\ src # X0 /\ new[t].instr.rd = src
  BY DEF WritersOf
<1> HIDE DEF src, l, before, after
<1>6. ASSUME NEW t \in after PROVE t + n \in before /\ t \in Nat
  <2>1. t \in 0 .. s - 1 /\ t + n \in n .. p - 1 /\ (t + n) - n = t
    BY <1>2, <1>5
  <2>2. new[t] = old[t + n]
    BY <1>2, <2>1
  <2> QED BY <1>4, <1>5, <2>1, <2>2
<1>7. ASSUME NEW t \in before PROVE t - n \in after /\ new[t - n] = old[t] /\ t \in Nat
  <2>1. t \in n .. p - 1 /\ t - n \in 0 .. s - 1 /\ t \in n .. m - 1
    BY <1>2, <1>4
  <2> QED BY <1>4, <1>5, <2>1
<1>8. CASE before = {} /\ ~l.valid /\ ~l.locked
  <2>1. after = {}
    BY <1>6, <1>8
  <2> QED BY <1>8, <2>1 DEF LockerRight, src, l, after
<1>9. CASE \E t \in before : /\ \A u \in before : u <= t
                             /\ l.valid
                             /\ l.id = old[t].id
                             /\ l.locked <=> ~old[t].result_valid
  <2>1. PICK t \in before : /\ \A u \in before : u <= t
                            /\ l.valid
                            /\ l.id = old[t].id
                            /\ l.locked <=> ~old[t].result_valid
    BY <1>9
  <2>2. \A u \in after : u <= t - n
    BY <1>6, <1>7, <2>1
  <2>3. t - n \in after /\ new[t - n] = old[t]
    BY <1>7
  <2> QED BY <2>1, <2>2, <2>3 DEF LockerRight, src, l, after
<1> QED BY <1>3, <1>8, <1>9 DEF LockerRight

-----------------------------------------------------------------------------
(***************************************************************************)
(* The invariant.                                                          *)
(***************************************************************************)

\* Where an edge leaves the entries it keeps.
LEMMA CoreEdgeShift ==
    ASSUME TypeOK, WindowExact, NEW group \in FetchGroups,
           NEW accesses, NEW set, NEW clear, NEW wrong, NEW n, NEW keep,
           CoreEdge(group, accesses, set, clear, wrong, n, keep)
    PROVE  /\ occupancy' = keep + Len(group) - n
           /\ \A s \in Window : n <= s => At(s - n)' = dris'[retire_slot_index(s)]
<1>1. \A s \in Window :
         LET e == dris'[retire_slot_index(s)] IN
         /\ e.valid <=> n <= s /\ s < keep + Len(group)
         /\ e.valid => e.id = slot_id(retire_ptr, s)
  BY EdgeWindow DEF CoreEdge
<1>2. PICK m : m = keep + Len(group)
  OBVIOUS
<1>3. n \in DrisIndices \cup {DRIS_NUM_ENTRIES} /\ m \in n .. DRIS_NUM_ENTRIES
  BY <1>2, GroupType, OccupancyType, DrisSizeAssumption DEF DrisIndices, CoreEdge
<1>4. retire_ptr' = slot_id(retire_ptr, n) /\ fetch_ptr' = slot_id(retire_ptr, m)
  BY <1>2 DEF CoreEdge
<1>5. /\ occupancy' = m - n
      /\ \A s \in Window : n <= s => At(s - n)' = dris'[retire_slot_index(s)]
  BY <1>1, <1>2, <1>3, <1>4, WindowShift
<1>6. occupancy' = keep + Len(group) - n
  <2>1. keep \in Nat /\ Len(group) \in Nat /\ n \in Nat
    BY OccupancyType, GroupType DEF CoreEdge
  <2> QED BY <1>2, <1>5, <2>1
<1> QED BY <1>5, <1>6

\* An edge of the core keeps the lockers the youngest older writers of their registers.
LEMMA LockersStep ==
    ASSUME TypeOK, TrapsMatch, IssuedMatch, WindowExact, EntriesFetched, LockersRight,
           NEW group \in FetchGroups,
           NEW accesses, NEW set, NEW clear, NEW wrong, NEW n, NEW keep,
           CoreEdge(group, accesses, set, clear, wrong, n, keep)
    PROVE  LockersRight'
<1>1. PICK m : m = keep + Len(group)
  OBVIOUS
<1>2. n \in Nat /\ m \in Nat /\ n <= m /\ m <= DRIS_NUM_ENTRIES
  BY <1>1, GroupType, OccupancyType DEF CoreEdge
<1>3. Lockers(NextEntries, n, m)
  BY <1>1, EdgeLockers
<1>4. /\ occupancy' = keep + Len(group) - n
      /\ \A s \in Window : n <= s => At(s - n)' = dris'[retire_slot_index(s)]
  BY CoreEdgeShift
<1>5. PICK new : new = [s \in Window |-> At(s)']
  OBVIOUS
<1>6. \A t \in n .. m - 1 : new[t - n] = NextEntries[t]
  <2>1. SUFFICES ASSUME NEW t \in n .. m - 1 PROVE new[t - n] = NextEntries[t]
    OBVIOUS
  <2>2. t \in Window /\ n <= t /\ t - n \in Window
    BY <1>2, DrisSizeAssumption DEF Window
  <2>3. At(t - n)' = dris'[retire_slot_index(t)]
    BY <1>4, <2>2
  <2>4. NextEntries[t] = dris'[retire_slot_index(t)]
    BY <2>2 DEF NextEntries
  <2>5. PICK u \in Window : u = t - n
    BY <2>2
  <2>6. new[u] = At(u)'
    BY <1>5
  <2>7. At(u)' = At(t - n)'
    BY <2>5 DEF At, retire_slot_index
  <2> QED BY <2>3, <2>4, <2>5, <2>6, <2>7
<1>7. Lockers(new, 0, m - n)
  BY <1>2, <1>3, <1>6, ShiftLockers
<1>8. new = WindowEntries'
  BY <1>5 DEF WindowEntries
<1>9. occupancy' = m - n
  <2>1. keep \in Nat /\ Len(group) \in Nat
    BY OccupancyType, GroupType DEF CoreEdge
  <2> QED BY <1>1, <1>2, <1>4, <2>1
<1> QED BY <1>7, <1>8, <1>9 DEF LockersRight

\* A clock edge keeps every entry one that was fetched.
LEMMA ClockFetched ==
    ASSUME TypeOK, EntriesFetched, NEW group \in FetchGroups, NEW done \in BOOLEAN,
           NEW global_flush, Clock(group, done, global_flush),
           \A i \in DrisIndices :
              dris[i].valid => i \notin fetch_write_mask(group, fetch_ptr)
    PROVE  EntriesFetched'
<1>1. PICK accesses, set, clear :
         DrisNext(group, fetch_ptr, writeback_pkts, accesses, set, clear)
  BY ClockDris
<1>2. SUFFICES ASSUME NEW i \in DrisIndices, dris'[i].valid
               PROVE  /\ dris'[i].instr \in Instrs
                      /\ dris'[i].executed => dris'[i].result_valid
  BY DEF EntriesFetched
<1>3. i \notin clear
  BY <1>1, <1>2, EdgeEntries
<1>4. CASE i \in fetch_write_mask(group, fetch_ptr)
  <2>1. PICK w \in DOMAIN group : dris'[i].instr = group[w] /\ ~dris'[i].executed
    BY <1>1, <1>3, <1>4, EdgeBorn
  <2>2. group[w] \in Instrs
    BY GroupType
  <2> QED BY <2>1, <2>2
<1>5. CASE i \notin fetch_write_mask(group, fetch_ptr)
  BY <1>1, <1>2, <1>3, <1>5, EdgeKept DEF EntriesFetched
<1> QED BY <1>4, <1>5

\* A valid entry holds what fetch delivered, and its result once it has executed.
THEOREM FetchedInvariant == Spec => []EntriesFetched
<1>1. Init => EntriesFetched
  BY DEF Init, DrisInit, EmptyEntry, EntriesFetched
<1>2. TypeOK /\ InFlight /\ EntriesFetched /\ [Next]_vars => EntriesFetched'
  <2> SUFFICES ASSUME TypeOK, InFlight, EntriesFetched, [Next]_vars PROVE EntriesFetched'
    OBVIOUS
  <2>1. CASE Next
    BY <2>1, StepIsClock, ClockFetched
  <2>2. CASE UNCHANGED vars
    BY <2>2 DEF vars, EntriesFetched
  <2> QED BY <2>1, <2>2
<1> QED BY <1>1, <1>2, TypeCorrect, InFlightInvariant, PTL DEF Spec

\* Until a trap wipes the shelf, every operand of every instruction in flight
\* waits for the last instruction before it that writes its register.
THEOREM RenamingInvariant == Spec => [](ShelfWiped \/ LockersRight)
<1>1. Init => LockersRight
  <2>1. ASSUME Init PROVE occupancy = 0
    BY <2>1, DrisSizeAssumption DEF Init, occupancy, Distance
  <2> QED BY <2>1 DEF LockersRight, Lockers
<1>2. ASSUME TypeOK, InFlight, IssuedMatch, EntriesFetched, ShelfWiped \/ LockersRight,
             [Next]_vars
      PROVE  (ShelfWiped \/ LockersRight)'
  <2>1. CASE Next
    <3>1. SUFFICES ASSUME ~ShelfWiped' PROVE LockersRight'
      OBVIOUS
    <3>2a. PICK group \in FetchGroups : \E accesses, set, clear, wrong, n, keep :
             CoreEdge(group, accesses, set, clear, wrong, n, keep)
      BY <1>2, <2>1, <3>1, StepEdge
    <3>2. PICK accesses, set, clear, wrong, n, keep :
             CoreEdge(group, accesses, set, clear, wrong, n, keep)
      BY <3>2a
    <3>3. WindowExact /\ ~trap_valid
      BY <1>2, <2>1, <3>1, StepEdge
    <3>4. LockersRight
      BY <1>2, <3>3, WipedTraps
    <3> QED BY <1>2, <3>2, <3>3, <3>4, LockersStep DEF InFlight
  <2>2. CASE UNCHANGED vars
    <3>1. /\ WindowEntries' = WindowEntries /\ occupancy' = occupancy
          /\ ShelfWiped' <=> ShelfWiped
      BY <2>2 DEF vars, WindowEntries, At, occupancy, ShelfWiped, Trapped, HeadEntry,
                  retire_slot_index, InStatus
    <3> QED BY <1>2, <3>1 DEF LockersRight
  <2> QED BY <1>2, <2>1, <2>2
<1> QED BY <1>1, <1>2, TypeCorrect, InFlightInvariant, IssuedInvariant, FetchedInvariant,
           PTL DEF Spec

\* A right locker is the exact one.
LEMMA ExactOperand ==
    ASSUME TypeOK, WindowExact, NEW s \in 0 .. occupancy - 1, NEW src, NEW l,
           LockerRight(l, WindowEntries, WritersOf(WindowEntries, 0, s, src))
    PROVE  LockerExact(l, s, src)
<1> DEFINE writers == WritersOf(WindowEntries, 0, s, src)
<1>1. s \in Nat /\ \A t \in 0 .. s - 1 : WindowEntries[t] = At(t) /\ t \in Nat
  BY OccupancyType, PositionOrder DEF WindowEntries
<1>2. writers = {t \in 0 .. s - 1 : src # X0 /\ At(t).instr.rd = src}
  BY <1>1 DEF WritersOf
<1>4. \A t \in writers : t \in Nat /\ WindowEntries[t] = At(t)
  BY <1>1, <1>2
<1> HIDE DEF writers
<1>5. CASE writers = {} /\ ~l.valid /\ ~l.locked
  <2>1. ProducerOf(s, src) = -1
    BY <1>2, <1>5 DEF ProducerOf
  <2> QED BY <1>5, <2>1 DEF LockerExact
<1>6. CASE \E t \in writers : /\ \A u \in writers : u <= t
                              /\ l.valid
                              /\ l.id = WindowEntries[t].id
                              /\ l.locked <=> ~WindowEntries[t].result_valid
  <2>1. PICK t \in writers : /\ \A u \in writers : u <= t
                             /\ l.valid
                             /\ l.id = WindowEntries[t].id
                             /\ l.locked <=> ~WindowEntries[t].result_valid
    BY <1>6
  <2>2. ProducerOf(s, src) \in writers /\ \A u \in writers : u <= ProducerOf(s, src)
    <3>1. \E x \in writers : \A u \in writers : u <= x
      BY <2>1
    <3>2. writers # {}
      BY <2>1
    <3> QED BY <1>2, <3>1, <3>2, Zenon DEF ProducerOf
  <2>3. ProducerOf(s, src) = t
    BY <1>4, <2>1, <2>2
  <2>5. ProducerOf(s, src) = t /\ t \in Nat /\ WindowEntries[t] = At(t)
    BY <1>4, <2>3
  <2> QED BY <2>1, <2>5 DEF LockerExact
<1> QED BY <1>5, <1>6 DEF LockerRight, writers

\* Register renaming: every locker names the last older writer still in flight, is
\* locked exactly while that has no result, and is free when there is none.
THEOREM LockersCorrect == Spec => []LockersExact
<1>1. TypeOK /\ InFlight /\ (ShelfWiped \/ LockersRight) => LockersExact
  <2> SUFFICES ASSUME TypeOK, InFlight, ShelfWiped \/ LockersRight, ~Trapped,
                      NEW s \in Window, s < occupancy
               PROVE  /\ LockerExact(At(s).locker_1, s, At(s).instr.rs1)
                      /\ LockerExact(At(s).locker_2, s, At(s).instr.rs2)
    BY DEF LockersExact
  <2>1. WindowExact /\ LockersRight
    BY DEF InFlight, ShelfWiped
  <2>2. s \in 0 .. occupancy - 1
    BY <2>1, OccupancyType DEF Window
  <2>3. WindowEntries[s] = At(s)
    BY DEF WindowEntries
  <2>4. \A k \in {1, 2} :
           LockerRight(LockerOf(At(s), k), WindowEntries,
                       WritersOf(WindowEntries, 0, s, SourceOf(At(s).instr, k)))
    BY <2>1, <2>2, <2>3 DEF LockersRight, Lockers
  <2>5. /\ LockerOf(At(s), 1) = At(s).locker_1 /\ LockerOf(At(s), 2) = At(s).locker_2
        /\ SourceOf(At(s).instr, 1) = At(s).instr.rs1
        /\ SourceOf(At(s).instr, 2) = At(s).instr.rs2
    BY DEF LockerOf, SourceOf
  <2>6. /\ LockerRight(At(s).locker_1, WindowEntries,
                       WritersOf(WindowEntries, 0, s, At(s).instr.rs1))
        /\ LockerRight(At(s).locker_2, WindowEntries,
                       WritersOf(WindowEntries, 0, s, At(s).instr.rs2))
    BY <2>4, <2>5
  <2> QED BY <2>1, <2>2, <2>6, ExactOperand
<1> QED BY <1>1, TypeCorrect, InFlightInvariant, RenamingInvariant, PTL

-----------------------------------------------------------------------------
(***************************************************************************)
(* Programs without loads.                                                 *)
(***************************************************************************)

\* When fetch delivers no load, every entry holds the doing of its own instruction.
\* With loads it need not: a run shows the answer to a flushed load taken by the load
\* that has its slot.
THEOREM OwnCorrect ==
    ASSUME \A x \in Instrs : x.op # "load"
    PROVE  Spec => []OwnResults
<1>1. EntriesFetched /\ OwnExecResults => OwnResults
  BY DEF EntriesFetched, OwnExecResults, OwnResults
<1> QED BY <1>1, FetchedInvariant, OwnExecCorrect, PTL

=============================================================================
