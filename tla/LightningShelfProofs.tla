------------------------ MODULE LightningShelfProofs ------------------------
(***************************************************************************)
(* The branch shelf against the DRIS: no branch without a verdict is       *)
(* missed, and no room for a fetch group is lost but to one.               *)
(***************************************************************************)
EXTENDS LightningDataflowProofs, FiniteSetTheorems, WellFoundedInduction

-----------------------------------------------------------------------------
(***************************************************************************)
(* Counting slots and ways.                                                *)
(***************************************************************************)

\* A non-empty set of naturals has a least one.
LEMMA LeastNatural ==
    ASSUME NEW S \in SUBSET Nat, S # {}
    PROVE  \E x \in S : \A y \in S : x <= y
<1>1. PICK R : R = {ss \in Nat \X Nat : ss[1] < ss[2]} /\ IsWellFoundedOn(R, Nat)
  <2>1. IsWellFoundedOn({ss \in Nat \X Nat : ss[1] < ss[2]}, Nat)
    BY NatLessThanWellFounded, Zenon DEF OpToRel
  <2> QED BY <2>1
<1>2. PICK x \in S : \A y \in S : ~(<<y, x>> \in R)
  BY <1>1, WFMin
<1>3. ASSUME NEW y \in S PROVE x <= y
  <2>1. x \in Nat /\ y \in Nat
    OBVIOUS
  <2>2. ~(y < x)
    BY <1>1, <1>2, <2>1
  <2> QED BY <2>1, <2>2
<1> QED BY <1>3

\* The members of S up to k; k adds itself if it is one.
UpTo(S, k) == {j \in S : j <= k}

\* One more candidate adds one to the count of members up to it, if it is one.
LEMMA UpToNext ==
    ASSUME NEW S \in SUBSET Nat, IsFiniteSet(S), NEW k \in Nat \ {0}
    PROVE  /\ Cardinality(UpTo(S, k)) \in Nat /\ Cardinality(UpTo(S, k - 1)) \in Nat
           /\ k \notin S => Cardinality(UpTo(S, k)) = Cardinality(UpTo(S, k - 1))
           /\ k \in S => Cardinality(UpTo(S, k)) = Cardinality(UpTo(S, k - 1)) + 1
<1>1. UpTo(S, k) \in SUBSET S /\ UpTo(S, k - 1) \in SUBSET S
  BY DEF UpTo
<1>2. IsFiniteSet(UpTo(S, k)) /\ IsFiniteSet(UpTo(S, k - 1))
  BY <1>1, FS_Subset
<1>3. Cardinality(UpTo(S, k)) \in Nat /\ Cardinality(UpTo(S, k - 1)) \in Nat
  BY <1>2, FS_CardinalityType
<1>0. \A j \in S : j <= k <=> j <= k - 1 \/ j = k
  OBVIOUS
<1>4. ASSUME k \notin S PROVE UpTo(S, k) = UpTo(S, k - 1)
  <2>1. \A j \in S : j <= k <=> j <= k - 1
    BY <1>0, <1>4
  <2> QED BY <2>1, Zenon DEF UpTo
<1>5. ASSUME k \in S PROVE Cardinality(UpTo(S, k)) = Cardinality(UpTo(S, k - 1)) + 1
  <2>1. \A j : j \in UpTo(S, k) <=> j \in UpTo(S, k - 1) \/ j = k
    BY <1>0, <1>5, Zenon DEF UpTo
  <2>2. UpTo(S, k) = UpTo(S, k - 1) \cup {k}
    BY <2>1
  <2>3. k \notin UpTo(S, k - 1)
    <3>1. ~(k <= k - 1)
      OBVIOUS
    <3> QED BY <3>1, Zenon DEF UpTo
  <2> QED BY <1>2, <2>2, <2>3, FS_AddElement
<1> QED BY <1>3, <1>4, <1>5

\* In a set of more than c numbers there is one with exactly c below it.
LEMMA RankedMember ==
    ASSUME NEW bound \in Nat, NEW S \in SUBSET (1 .. bound), NEW c \in Nat, c < Cardinality(S)
    PROVE  \E k \in S : Cardinality({j \in S : j < k}) = c
<1> DEFINE many == {k \in Nat : c < Cardinality(UpTo(S, k))}
<1>1. IsFiniteSet(S) /\ S \in SUBSET Nat
  <2>1. IsFiniteSet(1 .. bound)
    BY FS_Interval
  <2>2. IsFiniteSet(S)
    BY <2>1, FS_Subset
  <2> QED BY <2>2
<1>2. bound \in many
  <2>0. \A j \in S : j <= bound
    OBVIOUS
  <2>1. UpTo(S, bound) = S
    BY <2>0, Zenon DEF UpTo
  <2> QED BY <2>1
<1>3. PICK k \in Nat : k \in many /\ \A y \in many : k <= y
  <2>1. many \in SUBSET Nat /\ many # {}
    BY <1>2
  <2> HIDE DEF many
  <2>2. \E x \in many : \A y \in many : x <= y
    BY <2>1, LeastNatural
  <2> QED BY <2>1, <2>2
<1>4. c < Cardinality(UpTo(S, k)) /\ (k # 0 => ~(c < Cardinality(UpTo(S, k - 1))))
  <2>1. k # 0 => k - 1 \in Nat /\ k - 1 \notin many
    BY <1>3
  <2> QED BY <1>3, <2>1
<1>5. k # 0
  <2> SUFFICES ASSUME k = 0 PROVE FALSE
    OBVIOUS
  <2>0. \A j \in S : ~(j <= k)
    OBVIOUS
  <2>1. UpTo(S, k) = {}
    BY <2>0, Zenon DEF UpTo
  <2>2. Cardinality(UpTo(S, k)) = 0
    BY <2>1, FS_EmptySet
  <2> QED BY <1>4, <2>2
<1> HIDE DEF many
<1>6. k \in S /\ Cardinality(UpTo(S, k - 1)) = c
  <2>1. k \in Nat \ {0}
    BY <1>5
  <2> QED BY <1>1, <1>4, <2>1, UpToNext
<1>7. UpTo(S, k - 1) = {j \in S : j < k}
  <2>1. \A j \in S : j <= k - 1 <=> j < k
    BY <1>1
  <2> QED BY <2>1, Zenon DEF UpTo
<1> QED BY <1>6, <1>7

\* The transfers of a group are finitely many, and fewer than w come before way w.
LEMMA TransferCount ==
    ASSUME NEW group \in FetchGroups, NEW w \in DOMAIN group
    PROVE  LET before == {v \in Transfers(group) : v < w} IN
           IsFiniteSet(before) /\ Cardinality(before) \in Nat /\ Cardinality(before) < w
<1> DEFINE before == {v \in Transfers(group) : v < w}
<1>1. w \in 1 .. Len(group) /\ Len(group) \in Nat /\ DOMAIN group = 1 .. Len(group)
  BY GroupType
<1>2. before \in SUBSET (1 .. w - 1)
  BY <1>1 DEF Transfers
<1>3. IsFiniteSet(1 .. w - 1) /\ Cardinality(1 .. w - 1) = w - 1
  <2>1. 1 \in Int /\ w - 1 \in Int
    BY <1>1
  <2>2. /\ IsFiniteSet(1 .. w - 1)
        /\ Cardinality(1 .. w - 1) = IF 1 > w - 1 THEN 0 ELSE w - 1 - 1 + 1
    BY <2>1, FS_Interval
  <2> QED BY <1>1, <2>2
<1>4. IsFiniteSet(before) /\ Cardinality(before) <= w - 1
  BY <1>2, <1>3, FS_Subset
<1>5. Cardinality(before) \in Nat
  BY <1>4, FS_CardinalityType
<1> QED BY <1>1, <1>4, <1>5

\* A slot takes at most one way ...
LEMMA TakesOnce ==
    ASSUME NEW group \in FetchGroups, NEW k, NEW v \in DOMAIN group, NEW w \in DOMAIN group,
           Takes(k, v, group), Takes(k, w, group), v < w
    PROVE  FALSE
<1> DEFINE below(x) == {u \in Transfers(group) : u < x}
<1>1. v \in Nat /\ w \in Nat /\ \A u \in Transfers(group) : u \in Nat
  BY GroupType DEF Transfers
<1>2. IsFiniteSet(below(w)) /\ Cardinality(below(v)) = Cardinality(below(w))
  BY TransferCount DEF Takes
<1>3. below(v) \in SUBSET below(w)
  BY <1>1
<1>4. v \in below(w) /\ v \notin below(v)
  BY <1>1 DEF Takes
<1> QED BY <1>2, <1>3, <1>4, FS_Subset

\* ... and every transfer of a group that may come in finds one.
LEMMA TakesSlot ==
    ASSUME TypeOK, NEW group \in FetchGroups, NEW w \in Transfers(group)
    PROVE  \E k \in InStatus("EMPTY") : Takes(k, w, group)
<1> DEFINE before == {v \in Transfers(group) : v < w}
           free == InStatus("EMPTY")
<1>1. w \in DOMAIN group /\ w \in 1 .. Len(group) /\ Len(group) \in 0 .. FETCH_WAYS
  BY GroupType DEF Transfers
<1>2. group # <<>>
  BY <1>1
<1>3. ~(Cardinality(free) < FETCH_WAYS)
  BY <1>2 DEF FetchGroups, shelf_full, shelf_free_count
<1>4. NUM_SHELF_ENTRIES \in Nat /\ free \in SUBSET (1 .. NUM_SHELF_ENTRIES)
  BY ShelfSizeAssumption DEF InStatus, ShelfSlots
<1>5. Cardinality(free) \in Nat
  <2>1. IsFiniteSet(1 .. NUM_SHELF_ENTRIES)
    BY <1>4, FS_Interval
  <2> QED BY <1>4, <2>1, FS_Subset, FS_CardinalityType
<1>6. Cardinality(before) \in Nat /\ Cardinality(before) < w
  BY <1>1, TransferCount
<1>7. Cardinality(before) < Cardinality(free)
  BY <1>1, <1>3, <1>5, <1>6, DrisSizeAssumption
<1>8. PICK k \in free : Cardinality({j \in free : j < k}) = Cardinality(before)
  BY <1>4, <1>6, <1>7, RankedMember
<1> QED BY <1>8 DEF Takes

-----------------------------------------------------------------------------
(***************************************************************************)
(* Branches without a verdict.                                             *)
(***************************************************************************)

\* The inductive invariant behind ShelfMatchesDris: a branch that has not executed
\* has a slot that is still waiting for what it will compute.
Unresolved ==
    \A i \in DrisIndices :
        dris[i].valid /\ dris[i].instr.op = "branch" /\ ~dris[i].executed
            => \E k \in InStatus("UNDET") : /\ shelf[k].branch_id = dris[i].id
                                            /\ ~shelf[k].correct_pc_valid

\* A slot that waits for a branch which neither leaves nor completes goes on so.
LEMMA SlotWaits ==
    ASSUME TypeOK, TrapsMatch, IssuedMatch, NEW group \in FetchGroups, NEW wrong,
           ShelfNext(group, fetch_ptr, writeback_pkts, wrong, FALSE),
           NEW i \in DrisIndices, dris[i].valid, dris[i].instr.op = "branch",
           i \notin flush_mask, i \notin fetch_write_mask(group, fetch_ptr),
           i \notin CompletedNow(writeback_pkts, group),
           NEW k \in InStatus("UNDET"), shelf[k].branch_id = dris[i].id,
           ~shelf[k].correct_pc_valid
    PROVE  /\ shelf'[k].status = "UNDET"
           /\ shelf'[k].branch_id = shelf[k].branch_id
           /\ ~shelf'[k].correct_pc_valid
<1>1. k \in ShelfSlots /\ shelf[k].status = "UNDET" /\ shelf[k] \in ShelfEntry
  BY DEF InStatus, TypeOK
<1>2. k \notin Leaving
  <2>1. \A m \in mispredict_branch :
           /\ k # m
           /\ ~is_older(shelf[m].branch_id, shelf[k].branch_id)
    <3>1. \A m \in mispredict_branch : shelf[m].status = "WRONG"
      BY DEF mispredict_branch, OldestOf, InStatus
    <3> QED BY <1>1, <3>1 DEF flush_mask
  <2> QED BY <1>1, <2>1 DEF Leaving
<1>3. {w \in DOMAIN group : Takes(k, w, group)} = {}
  BY <1>1 DEF Takes, InStatus
<1>4. k \notin Snooped(writeback_pkts)
  <2> SUFFICES ASSUME k \in Snooped(writeback_pkts) PROVE FALSE
    OBVIOUS
  <2>1. PICK p \in writeback_pkts : ~p.mem /\ p.id = dris[i].id
    BY DEF Snooped
  <2>2. id_index(p.id) = i
    BY <2>1 DEF TrapsMatch
  <2>3. p \in issue_reg /\ p.op = "branch"
    BY <2>1, <2>2 DEF IssuedMatch, writeback_pkts
  <2>4. wb_accepted(p, fetch_write_mask(group, fetch_ptr))
    BY <2>1, <2>2 DEF wb_accepted
  <2>5. p \in Completions(writeback_pkts, fetch_write_mask(group, fetch_ptr))
    BY <2>1, <2>3, <2>4 DEF Completions, wb_is_agu_pass, IsMem
  <2> QED BY <2>2, <2>5 DEF CompletedNow, Targets
<1>5. k \notin OldestOf(ReadyToResolve)
  BY DEF OldestOf, ReadyToResolve
<1>6. shelf'[k] = SlotNext(k, group, fetch_ptr, writeback_pkts, wrong, FALSE)
  BY <1>1 DEF ShelfNext
<1>7. shelf'[k] = [shelf[k] EXCEPT
                     !.correct_pc_valid = @ \/ k \in Snooped(writeback_pkts),
                     !.wrong  = IF k \in Snooped(writeback_pkts) THEN k \in wrong ELSE @,
                     !.status = IF k \notin OldestOf(ReadyToResolve) THEN @
                                ELSE IF shelf[k].wrong THEN "WRONG" ELSE "OK"]
  BY <1>2, <1>3, <1>6, Zenon DEF SlotNext
<1> QED BY <1>1, <1>4, <1>5, <1>7 DEF ShelfEntry

\* A branch that is taken in gets a slot of its own.
LEMMA SlotTaken ==
    ASSUME TypeOK, NEW group \in FetchGroups, NEW wbs, NEW wrong,
           ShelfNext(group, fetch_ptr, wbs, wrong, FALSE),
           NEW w \in DOMAIN group, group[w].op = "branch"
    PROVE  \E k \in ShelfSlots : /\ shelf'[k].status = "UNDET"
                                 /\ shelf'[k].branch_id = slot_id(fetch_ptr, w - 1)
                                 /\ shelf'[k].correct_pc_valid = FALSE
<1>1. PICK k \in InStatus("EMPTY") : Takes(k, w, group)
  BY TakesSlot DEF Transfers
<1>2. k \in ShelfSlots /\ k \notin Leaving
  BY DEF Leaving, InStatus
<1> DEFINE taken == {v \in DOMAIN group : Takes(k, v, group)}
<1>3. PICK c : c = CHOOSE v \in taken : TRUE
  OBVIOUS
<1>4. c \in taken /\ taken # {}
  BY <1>1, <1>3
<1>5. c = w
  <2>1. c \in Int /\ w \in Int /\ c \in DOMAIN group
    BY <1>4, GroupType
  <2>2. ~(c < w) /\ ~(w < c)
    BY <1>1, <1>4, <2>1, TakesOnce
  <2> QED BY <2>1, <2>2
<1>6. shelf'[k] = SlotNext(k, group, fetch_ptr, wbs, wrong, FALSE)
  BY <1>2 DEF ShelfNext
<1>7. shelf'[k] = [EmptySlot EXCEPT !.status = "UNDET",
                                    !.branch_id = slot_id(fetch_ptr, c - 1)]
  BY <1>2, <1>3, <1>4, <1>6, Zenon DEF SlotNext
<1> QED BY <1>2, <1>5, <1>7 DEF EmptySlot

\* So no edge leaves a branch without one.
LEMMA ClockUnresolved ==
    ASSUME TypeOK, TrapsMatch, IssuedMatch, WindowExact, Unresolved,
           NEW group \in FetchGroups, NEW done \in BOOLEAN, Clock(group, done, FALSE)
    PROVE  Unresolved'
<1>0. PICK ready \in BOOLEAN : \E accesses, set, clear :
         /\ clear = retire_vector(ready) \cup flush_mask
         /\ DrisNext(group, fetch_ptr, writeback_pkts, accesses, set, clear)
  BY ClockDris
<1>1. PICK accesses, set, clear :
         /\ clear = retire_vector(ready) \cup flush_mask
         /\ DrisNext(group, fetch_ptr, writeback_pkts, accesses, set, clear)
  BY <1>0
<1>2. PICK wrong : ShelfNext(group, fetch_ptr, writeback_pkts, wrong, FALSE)
  BY DEF Clock
<1>3. SUFFICES ASSUME NEW i \in DrisIndices, dris'[i].valid,
                      dris'[i].instr.op = "branch", ~dris'[i].executed
               PROVE  \E k \in ShelfSlots : /\ shelf'[k].status = "UNDET"
                                            /\ shelf'[k].branch_id = dris'[i].id
                                            /\ ~shelf'[k].correct_pc_valid
  BY DEF Unresolved, InStatus
<1>4. i \notin clear /\ i \notin flush_mask
  <2>1. DrisNext(group, fetch_ptr, writeback_pkts, accesses, set, clear)
    BY <1>1
  <2>2. i \notin clear
    BY <1>3, <2>1, EdgeEntries
  <2> QED BY <1>1, <2>2
<1>5. CASE i \in fetch_write_mask(group, fetch_ptr)
  <2>1. ~dris[i].valid
    BY <1>5, RoomForGroup
  <2>2. PICK w \in DOMAIN group : /\ dris'[i].id = slot_id(fetch_ptr, w - 1)
                                  /\ dris'[i].instr = group[w]
    BY <1>1, <1>4, <1>5, <2>1, EdgeBorn
  <2>3. PICK k \in ShelfSlots : /\ shelf'[k].status = "UNDET"
                                /\ shelf'[k].branch_id = slot_id(fetch_ptr, w - 1)
                                /\ shelf'[k].correct_pc_valid = FALSE
    BY <1>2, <1>3, <2>2, SlotTaken
  <2> QED BY <2>2, <2>3
<1>6. CASE i \notin fetch_write_mask(group, fetch_ptr)
  <2>1. /\ dris[i].valid
        /\ dris'[i].id = dris[i].id
        /\ dris[i].instr.op = "branch"
        /\ ~dris[i].executed
        /\ i \notin CompletedNow(writeback_pkts, group)
    BY <1>1, <1>3, <1>4, <1>6, EdgeKept
  <2>2. PICK k \in InStatus("UNDET") : /\ shelf[k].branch_id = dris[i].id
                                       /\ ~shelf[k].correct_pc_valid
    BY <2>1 DEF Unresolved
  <2>3. /\ shelf'[k].status = "UNDET"
        /\ shelf'[k].branch_id = shelf[k].branch_id
        /\ ~shelf'[k].correct_pc_valid
    BY <1>2, <1>4, <1>6, <2>1, <2>2, SlotWaits
  <2> QED BY <2>1, <2>2, <2>3 DEF InStatus
<1> QED BY <1>5, <1>6

\* Until a trap wipes the shelf, every branch that has not executed is on it.
THEOREM BranchesShelved == Spec => [](ShelfWiped \/ Unresolved)
<1>1. Init => Unresolved
  <2>1. ASSUME Init PROVE \A i \in DrisIndices : dris[i].valid = FALSE
    BY <2>1 DEF Init, DrisInit, EmptyEntry
  <2> QED BY <2>1 DEF Unresolved
<1>2. ASSUME TypeOK, InFlight, IssuedMatch, ShelfWiped \/ Unresolved, [Next]_vars
      PROVE  (ShelfWiped \/ Unresolved)'
  <2>1. CASE Next
    <3>1. SUFFICES ASSUME ~ShelfWiped' PROVE Unresolved'
      OBVIOUS
    <3>2. PICK group \in FetchGroups, done \in BOOLEAN : Clock(group, done, FALSE)
      BY <1>2, <2>1, <3>1, StepInWindow
    <3>3. WindowExact /\ ~trap_valid
      BY <1>2, <2>1, <3>1, StepInWindow
    <3>4. Unresolved
      BY <1>2, <3>3, WipedTraps
    <3> QED BY <1>2, <3>2, <3>3, <3>4, ClockUnresolved DEF InFlight
  <2>2. CASE UNCHANGED vars
    BY <1>2, <2>2 DEF vars, Unresolved, ShelfWiped, Trapped, HeadEntry,
                      retire_slot_index, InStatus
  <2> QED BY <1>2, <2>1, <2>2
<1> QED BY <1>1, <1>2, TypeCorrect, InFlightInvariant, IssuedInvariant, PTL DEF Spec

\* The shelf and the DRIS tell the same story: every branch without a verdict has
\* an UNDET slot, and every slot in use stands for a branch still in the DRIS.
THEOREM ShelfCorrect == Spec => []ShelfMatchesDris
<1>1. TypeOK /\ InFlight /\ (ShelfWiped \/ Unresolved) => ShelfMatchesDris
  <2> SUFFICES ASSUME TypeOK, InFlight, ShelfWiped \/ Unresolved, ~Trapped
               PROVE  /\ \A i \in DrisIndices :
                            dris[i].valid /\ dris[i].instr.op = "branch" /\ ~dris[i].executed
                              => \E k \in InStatus("UNDET") : shelf[k].branch_id = dris[i].id
                      /\ \A k \in ShelfSlots \ InStatus("EMPTY") :
                            LET e == dris[id_index(shelf[k].branch_id)] IN
                            e.valid /\ e.id = shelf[k].branch_id /\ e.instr.op = "branch"
    BY DEF ShelfMatchesDris
  <2>1. WindowExact /\ ShelfInWindow /\ Unresolved
    BY DEF InFlight, ShelfWiped
  <2>2. ASSUME NEW k \in ShelfSlots \ InStatus("EMPTY")
        PROVE  LET e == dris[id_index(shelf[k].branch_id)] IN
               e.valid /\ e.id = shelf[k].branch_id /\ e.instr.op = "branch"
    <3>1. PICK s \in Window : /\ At(s).valid
                              /\ At(s).instr.op = "branch"
                              /\ At(s).id = shelf[k].branch_id
      BY <2>1, BranchInWindow DEF InUse
    <3>2. PICK i \in DrisIndices : At(s) = dris[i]
      BY WindowType DEF At
    <3>3. id_index(shelf[k].branch_id) = i
      BY <3>1, <3>2 DEF InFlight, TrapsMatch
    <3> QED BY <3>1, <3>2, <3>3
  <2> QED BY <2>1, <2>2 DEF Unresolved
<1> QED BY <1>1, TypeCorrect, InFlightInvariant, BranchesShelved, PTL

-----------------------------------------------------------------------------
(***************************************************************************)
(* Room for a fetch group.                                                 *)
(***************************************************************************)

\* The shelf's slots can be counted.
LEMMA FreeCount ==
    ASSUME NEW free \in SUBSET ShelfSlots
    PROVE  /\ IsFiniteSet(ShelfSlots) /\ Cardinality(ShelfSlots) = NUM_SHELF_ENTRIES
           /\ IsFiniteSet(free) /\ Cardinality(free) \in Nat
<1>1. NUM_SHELF_ENTRIES \in Nat
  BY ShelfSizeAssumption
<1>2. /\ IsFiniteSet(1 .. NUM_SHELF_ENTRIES)
      /\ Cardinality(1 .. NUM_SHELF_ENTRIES)
            = IF 1 > NUM_SHELF_ENTRIES THEN 0 ELSE NUM_SHELF_ENTRIES - 1 + 1
  BY <1>1, FS_Interval
<1>3. IsFiniteSet(free)
  BY <1>2, FS_Subset DEF ShelfSlots
<1>4. Cardinality(free) \in Nat
  BY <1>3, FS_CardinalityType
<1> QED BY <1>1, <1>2, <1>3, <1>4 DEF ShelfSlots

\* Without a group, no slot is taken and none that is free is lost.
LEMMA FreeKept ==
    ASSUME TypeOK, NEW wbs, NEW wrong, ShelfNext(<<>>, fetch_ptr, wbs, wrong, FALSE), ~shelf_full
    PROVE  ~shelf_full'
<1> DEFINE free == {k \in ShelfSlots : shelf[k].status = "EMPTY"}
           left == {k \in ShelfSlots : shelf'[k].status = "EMPTY"}
<1>1. ASSUME NEW k \in ShelfSlots, shelf[k].status = "EMPTY"
      PROVE  shelf'[k].status = "EMPTY"
  <2>1. shelf'[k] = SlotNext(k, <<>>, fetch_ptr, wbs, wrong, FALSE)
    BY DEF ShelfNext
  <2>2. k \notin Leaving
    BY <1>1 DEF Leaving, InStatus
  <2>3. {w \in DOMAIN <<>> : Takes(k, w, <<>>)} = {}
    OBVIOUS
  <2>4. k \notin OldestOf(ReadyToResolve)
    BY <1>1 DEF OldestOf, ReadyToResolve, InStatus
  <2>5. shelf'[k] = [shelf[k] EXCEPT
                       !.correct_pc_valid = @ \/ k \in Snooped(wbs),
                       !.wrong  = IF k \in Snooped(wbs) THEN k \in wrong ELSE @,
                       !.status = IF k \notin OldestOf(ReadyToResolve) THEN @
                                  ELSE IF shelf[k].wrong THEN "WRONG" ELSE "OK"]
    BY <2>1, <2>2, <2>3, Zenon DEF SlotNext
  <2>6. shelf[k] \in ShelfEntry
    BY DEF TypeOK
  <2> QED BY <1>1, <2>4, <2>5, <2>6 DEF ShelfEntry
<1>2. free \in SUBSET left /\ left \in SUBSET ShelfSlots /\ free \in SUBSET ShelfSlots
  BY <1>1
<1>3. free = InStatus("EMPTY") /\ left = InStatus("EMPTY")'
  BY DEF InStatus
<1> HIDE DEF free, left
<1>4. /\ IsFiniteSet(left) /\ Cardinality(left) \in Nat /\ Cardinality(free) \in Nat
  BY <1>2, FreeCount
<1>5. Cardinality(free) <= Cardinality(left)
  BY <1>2, <1>4, FS_Subset
<1>6. ~(Cardinality(left) < FETCH_WAYS)
  BY <1>3, <1>4, <1>5, DrisSizeAssumption DEF shelf_full, shelf_free_count
<1> QED BY <1>3, <1>6 DEF shelf_full, shelf_free_count

\* Nor is any room in the DRIS.
LEMMA EdgeRoom ==
    ASSUME TypeOK, WindowExact, ShelfInWindow, NEW group \in FetchGroups,
           NEW accesses, NEW set, NEW clear, NEW wrong, NEW n, NEW keep,
           CoreEdge(group, accesses, set, clear, wrong, n, keep), group = <<>>,
           ~dris_full, ~shelf_full
    PROVE  ~dris_full' /\ ~shelf_full'
<1>1. ShelfNext(<<>>, fetch_ptr, writeback_pkts, wrong, FALSE)
  BY DEF CoreEdge
<1>2. ~shelf_full'
  BY <1>1, FreeKept
<1>3. /\ n \in 0 .. occupancy /\ keep \in n .. occupancy /\ Len(group) = 0
      /\ retire_ptr' = slot_id(retire_ptr, n)
      /\ fetch_ptr' = slot_id(retire_ptr, keep)
  <2>1. Len(group) = 0
    OBVIOUS
  <2>2. /\ n \in 0 .. occupancy /\ keep \in n .. occupancy
        /\ retire_ptr' = slot_id(retire_ptr, n)
        /\ fetch_ptr' = slot_id(retire_ptr, keep + Len(group))
    BY DEF CoreEdge
  <2>3. keep \in Nat
    BY <2>2, OccupancyType
  <2> QED BY <2>1, <2>2, <2>3
<1>4. /\ occupancy \in 0 .. DRIS_NUM_ENTRIES /\ retire_ptr \in DrisIds
      /\ DRIS_NUM_ENTRIES \in Nat \ {0}
  BY OccupancyType, DrisSizeAssumption DEF TypeOK
<1>5. occupancy' = keep - n
  <2>1. /\ n \in Nat /\ keep - n \in Nat /\ n + (keep - n) = keep
        /\ keep - n <= DRIS_NUM_ENTRIES /\ keep <= DRIS_NUM_ENTRIES
    BY <1>3, <1>4
  <2>2. slot_id(slot_id(retire_ptr, n), keep - n) = slot_id(retire_ptr, keep)
    BY <1>4, <2>1, SlotIdAdd
  <2>3. slot_id(retire_ptr, n) \in DrisIds
    BY <1>3, <1>4, SlotIdType
  <2> QED BY <1>3, <1>4, <2>1, <2>2, <2>3, DistanceOfSlot DEF occupancy
<1>6. ~dris_full'
  BY <1>3, <1>4, <1>5, DrisSizeAssumption DEF dris_full
<1> QED BY <1>2, <1>6

\* A group that is not empty moves the fetch pointer.
LEMMA GroupMoves ==
    ASSUME TypeOK, WindowExact, NEW group \in FetchGroups, group # <<>>,
           fetch_ptr' = slot_id(fetch_ptr, Len(group))
    PROVE  fetch_ptr' # fetch_ptr
<1>1. fetch_ptr \in DrisIds /\ Len(group) \in 1 .. FETCH_WAYS
  <2>1. Len(group) \in 0 .. FETCH_WAYS /\ group \in Seq(Instrs)
    BY GroupType
  <2>2. Len(group) # 0
    BY <2>1
  <2> QED BY <2>1, <2>2, DrisSizeAssumption DEF TypeOK
<1> QED BY <1>1, DrisSizeAssumption DEF DrisIds, slot_id, Wrap

\* After a trap there is all the room there can be.
LEMMA TrapRoom ==
    ASSUME TypeOK, InFlight, NEW done \in BOOLEAN, Trap(done)
    PROVE  ~dris_full' /\ ~shelf_full'
<1>1. ShelfWiped' /\ retire_ptr' = retire_ptr
  BY TrapKeeps
<1>2. occupancy' = 0
  BY <1>1, DrisSizeAssumption DEF Trap, occupancy, Distance, TypeOK, DrisIds
<1>3. ~dris_full'
  BY <1>2, DrisSizeAssumption DEF dris_full
<1>4. Cardinality(InStatus("EMPTY")') = NUM_SHELF_ENTRIES
  <2>1. InStatus("EMPTY")' = ShelfSlots
    BY <1>1 DEF ShelfWiped, ShelfSlots
  <2>2. Cardinality(ShelfSlots) = NUM_SHELF_ENTRIES
    BY FreeCount
  <2> QED BY <2>1, <2>2
<1>5. ~shelf_full'
  BY <1>4, DrisSizeAssumption, ShelfSizeAssumption DEF shelf_full, shelf_free_count
<1> QED BY <1>3, <1>5

\* Room for a group is only ever lost to a group that was taken in.
THEOREM RoomKept == Spec => RoomLostByIntake
<1> DEFINE Lost == ~dris_full /\ ~shelf_full /\ (dris_full' \/ shelf_full')
           Taken == ~trap_valid /\ ~mispredict_valid /\ fetch_ptr' # fetch_ptr
<1>1. ASSUME TypeOK, InFlight, NEW done \in BOOLEAN, Advance(done), Lost PROVE Taken
  <2>1. ~trap_valid /\ ~mispredict_valid /\ WindowExact /\ ShelfInWindow
    BY <1>1, WipedTraps DEF InFlight, Advance
  <2>2a. PICK group \in FetchGroups : \E accesses, set, clear, wrong, n, keep :
           CoreEdge(group, accesses, set, clear, wrong, n, keep)
    BY <1>1, <2>1, AdvanceEdge
  <2>2. PICK accesses, set, clear, wrong, n, keep :
           CoreEdge(group, accesses, set, clear, wrong, n, keep)
    BY <2>2a
  <2>3. group # <<>>
    BY <1>1, <2>1, <2>2, EdgeRoom
  <2>4. fetch_ptr' = slot_id(fetch_ptr, Len(group))
    <3>1. /\ occupancy \in 0 .. DRIS_NUM_ENTRIES /\ retire_ptr \in DrisIds
          /\ fetch_ptr = slot_id(retire_ptr, occupancy)
          /\ DRIS_NUM_ENTRIES \in Nat \ {0}
      BY <1>1, <2>1, OccupancyType, DrisSizeAssumption DEF TypeOK
    <3>2. Len(group) \in Nat /\ Len(group) # 0
      <4>1. Len(group) \in 0 .. FETCH_WAYS /\ group \in Seq(Instrs)
        BY GroupType
      <4> QED BY <2>3, <4>1
    <3>3. /\ keep = occupancy /\ keep + Len(group) <= DRIS_NUM_ENTRIES
          /\ fetch_ptr' = slot_id(retire_ptr, keep + Len(group))
      BY <2>2, <3>2 DEF CoreEdge
    <3>4. occupancy \in Nat /\ occupancy + Len(group) < 2 * DRIS_NUM_ENTRIES
      BY <3>1, <3>2, <3>3
    <3>5. slot_id(slot_id(retire_ptr, occupancy), Len(group))
            = slot_id(retire_ptr, occupancy + Len(group))
      BY <3>1, <3>2, <3>4, SlotIdAdd
    <3> QED BY <3>1, <3>3, <3>5
  <2> QED BY <1>1, <2>1, <2>3, <2>4, GroupMoves
<1>2. ASSUME TypeOK, InFlight, NEW done \in BOOLEAN, Repair(done), Lost PROVE FALSE
  <2>1. WindowExact /\ ShelfInWindow
    BY <1>2, WipedTraps DEF InFlight, Repair
  <2>2a. PICK group \in FetchGroups : \E accesses, set, clear, wrong, n, keep :
           CoreEdge(group, accesses, set, clear, wrong, n, keep) /\ group = <<>>
    BY <1>2, <2>1, RepairEdge
  <2>2. PICK accesses, set, clear, wrong, n, keep :
           CoreEdge(group, accesses, set, clear, wrong, n, keep) /\ group = <<>>
    BY <2>2a
  <2> QED BY <1>2, <2>1, <2>2, EdgeRoom
<1>3. ASSUME TypeOK, InFlight, NEW done \in BOOLEAN, Trap(done), Lost PROVE FALSE
  BY <1>3, TrapRoom
<1> HIDE DEF Lost, Taken
<1>4. TypeOK /\ InFlight /\ Next => (Lost => Taken)
  BY <1>1, <1>2, <1>3 DEF Next, Tick
<1>5. TypeOK /\ InFlight /\ [Next]_vars => [Lost => Taken]_vars
  BY <1>4
<1> QED BY <1>5, TypeCorrect, InFlightInvariant, PTL DEF Spec, RoomLostByIntake, Lost, Taken

=============================================================================
