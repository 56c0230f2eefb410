--------------------------- MODULE DrisDefsProofs ---------------------------
(***************************************************************************)
(* Facts about DRIS ids, for every size of the DRIS: positions counted     *)
(* from a pointer, the indices they fall on and the age order is_older     *)
(* gives them.                                                             *)
(***************************************************************************)
EXTENDS DrisDefs, TLAPS

\* Pointer arithmetic stays within the pointer's width.
LEMMA SlotIdType ==
    ASSUME NEW base \in DrisIds, NEW s \in Nat, s < 2 * DRIS_NUM_ENTRIES
    PROVE  slot_id(base, s) \in DrisIds
BY DrisSizeAssumption DEF DrisIds, slot_id, Wrap

\* An id's low part is an index of the DRIS.
LEMMA IndexType ==
    ASSUME NEW id \in DrisIds
    PROVE  id_index(id) \in DrisIndices
BY DrisSizeAssumption DEF DrisIds, DrisIndices, id_index, id_color

\* Two steps from a pointer are one.
LEMMA SlotIdAdd ==
    ASSUME NEW base \in DrisIds, NEW s \in Nat, NEW t \in Nat,
           s + t < 2 * DRIS_NUM_ENTRIES
    PROVE  slot_id(slot_id(base, s), t) = slot_id(base, s + t)
BY DrisSizeAssumption DEF DrisIds, slot_id, Wrap

\* Distance undoes slot_id ...
LEMMA DistanceOfSlot ==
    ASSUME NEW base \in DrisIds, NEW s \in Nat, s < 2 * DRIS_NUM_ENTRIES
    PROVE  Distance(base, slot_id(base, s)) = s
BY DrisSizeAssumption DEF DrisIds, slot_id, Wrap, Distance

\* ... and slot_id undoes Distance.
LEMMA SlotOfDistance ==
    ASSUME NEW base \in DrisIds, NEW id \in DrisIds
    PROVE  /\ Distance(base, id) \in 0 .. 2 * DRIS_NUM_ENTRIES - 1
           /\ slot_id(base, Distance(base, id)) = id
BY DrisSizeAssumption DEF DrisIds, slot_id, Wrap, Distance

\* Within one window of DRIS_NUM_ENTRIES positions, is_older is program order:
\* the lap colour is enough to order ids that wrapped.
LEMMA OlderInWindow ==
    ASSUME NEW base \in DrisIds, NEW s \in DrisIndices, NEW t \in DrisIndices
    PROVE  is_older(slot_id(base, s), slot_id(base, t)) <=> s < t
BY DrisSizeAssumption
   DEF DrisIds, DrisIndices, slot_id, Wrap, is_older, id_color, id_index

\* Positions of one window fall on different indices ...
LEMMA IndexInjective ==
    ASSUME NEW base \in DrisIds, NEW s \in DrisIndices, NEW t \in DrisIndices,
           id_index(slot_id(base, s)) = id_index(slot_id(base, t))
    PROVE  s = t
BY DrisSizeAssumption DEF DrisIds, DrisIndices, slot_id, Wrap, id_color, id_index

\* ... on every index ...
LEMMA IndexSurjective ==
    ASSUME NEW base \in DrisIds, NEW i \in DrisIndices
    PROVE  \E s \in DrisIndices : id_index(slot_id(base, s)) = i
<1>1. CASE i >= id_index(base)
  <2>1. /\ i - id_index(base) \in DrisIndices
        /\ id_index(slot_id(base, i - id_index(base))) = i
    BY <1>1, DrisSizeAssumption
    DEF DrisIds, DrisIndices, slot_id, Wrap, id_color, id_index
  <2> QED BY <2>1
<1>2. CASE ~(i >= id_index(base))
  <2>1. /\ i - id_index(base) + DRIS_NUM_ENTRIES \in DrisIndices
        /\ id_index(slot_id(base, i - id_index(base) + DRIS_NUM_ENTRIES)) = i
    BY <1>2, DrisSizeAssumption
    DEF DrisIds, DrisIndices, slot_id, Wrap, id_color, id_index
  <2> QED BY <2>1
<1> QED BY <1>1, <1>2

\* ... and one window further they come round.
LEMMA IndexPeriod ==
    ASSUME NEW base \in DrisIds, NEW s \in DrisIndices
    PROVE  id_index(slot_id(base, s + DRIS_NUM_ENTRIES)) = id_index(slot_id(base, s))
BY DrisSizeAssumption DEF DrisIds, DrisIndices, slot_id, Wrap, id_color, id_index

=============================================================================
