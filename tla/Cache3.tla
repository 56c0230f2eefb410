------------------------------- MODULE Cache3 -------------------------------
(***************************************************************************)
(* rtl/mem/cache3.sv: the array behind a cache controller, as operators of *)
(* `c`, the request in flight (curr_inflight), and the signals of a cycle. *)
(* The set a request works on is copied out of the array when the request  *)
(* enters (c.set); the array is written back from that copy.               *)
(*                                                                         *)
(* A word of a line is whatever the user of the module says a word is.     *)
(***************************************************************************)
EXTENDS Integers, FiniteSets

CONSTANTS
    WAYS, POLICY,       \* ways of a set, and the policy that picks a victim
    Tags, Indexes, Offsets,
    Words               \* what a line may hold at an offset

Ways == 0 .. WAYS - 1

Address == [tag : Tags, index : Indexes, offset : Offsets]

Block == [tag : Tags, index : Indexes]

block(a) == [tag |-> a.tag, index |-> a.index]

Line == [Offsets -> Words]

\* One way; `valid` is the set of the words that are there.
CacheBlock == [dirty : BOOLEAN, valid : SUBSET Offsets, tag : Tags, line : Line]

Metadata == [Ways -> 0 .. WAYS]

CacheSet == [metadata : Metadata, blocks : [Ways -> CacheBlock]]

\* A set after reset.
EmptySet(zero) ==
    [metadata |-> [w \in Ways |-> 0],
     blocks   |-> [w \in Ways |->
        [dirty |-> FALSE, valid |-> {}, tag |-> 0, line |-> [o \in Offsets |-> zero]]]]

NoMetadata(metadata) == \A w \in Ways : metadata[w] = 0
-----------------------------------------------------------------------------
(***************************************************************************)
(* Replacement.                                                            *)
(***************************************************************************)

\* Fault: the ways are never numbered.
lru_unnumbered(metadata, used) ==
    LET age == metadata[CHOOSE w \in used : TRUE]
    IN  [w \in Ways |-> IF metadata[w] < age THEN metadata[w] + 1
                        ELSE IF metadata[w] > age THEN metadata[w]
                        ELSE 0]

\* Fault: every way but the used one ages.
lru_all_age(metadata, used) ==
    IF NoMetadata(metadata)
    THEN [w \in Ways |-> w]
    ELSE [w \in Ways |-> IF w \in used THEN 0 ELSE metadata[w] + 1]

\* The first use numbers the ways in order; from then on the used way becomes
\* the youngest, and those that were younger age by one.
calculate_metadata_lru(metadata, used) ==
    IF NoMetadata(metadata)
    THEN [w \in Ways |-> w]
    ELSE LET age == metadata[CHOOSE w \in used : TRUE]
         IN  [w \in Ways |-> IF metadata[w] < age THEN metadata[w] + 1
                             ELSE IF metadata[w] > age THEN metadata[w]
                             ELSE 0]

calculate_metadata(metadata, used) ==
    CASE POLICY = "DIRECT" -> [w \in Ways |-> 1]
      [] POLICY = "MRU"    -> [w \in Ways |-> IF w \in used THEN 1 ELSE 0]
      [] POLICY = "LRU"    -> calculate_metadata_lru(metadata, used)

select_eviction_target(metadata) ==
    CASE POLICY = "DIRECT" -> Ways
      [] POLICY = "MRU"    -> {w \in Ways : metadata[w] = 1}
      [] POLICY = "LRU"    -> {w \in Ways : metadata[w] = WAYS - 1}
-----------------------------------------------------------------------------
(***************************************************************************)
(* The request in flight.                                                  *)
(***************************************************************************)

Inflight ==
    [type : {"IDLE", "LOAD", "MISS_UPDATE", "STORE"},
     set : CacheSet, addr : Address, data : Words]

NoRequest(zero) ==
    [type |-> "IDLE", set |-> EmptySet(zero), data |-> zero,
     addr |-> [tag |-> 0, index |-> 0, offset |-> 0]]

way_hit(c) ==
    {w \in Ways : c.set.blocks[w].valid # {} /\ c.set.blocks[w].tag = c.addr.tag}

way_block_hit(c) ==
    {w \in Ways : c.addr.offset \in c.set.blocks[w].valid /\ c.set.blocks[w].tag = c.addr.tag}

free_ways(c) == {w \in Ways : c.set.blocks[w].valid = {}}

read_hit(c) == c.type = "LOAD" /\ way_block_hit(c) # {}

read_miss(c) == c.type = "LOAD" /\ way_block_hit(c) = {}

\* The word the probe finds.
read_data(c) == c.set.blocks[CHOOSE w \in way_block_hit(c) : TRUE].line[c.addr.offset]

write(c, ud_en) == c.type = "STORE" \/ (c.type = "MISS_UPDATE" /\ ud_en)

eviction_cond(c, ud_en) ==
    /\ write(c, ud_en)
    /\ way_hit(c) = {}
    /\ free_ways(c) = {}
    /\ ~NoMetadata(c.set.metadata)

\* The ways a write goes to: the one that holds the block, the first free one,
\* or the victim.
way_write_enable(c, ud_en) ==
    IF ~write(c, ud_en) THEN {}
    ELSE IF way_hit(c) # {} THEN way_hit(c)
    ELSE IF free_ways(c) = {}
         THEN IF NoMetadata(c.set.metadata) THEN {0} ELSE select_eviction_target(c.set.metadata)
    ELSE {CHOOSE w \in free_ways(c) : \A v \in free_ways(c) : w <= v}

\* evicted_line, evicted_addr and evicted_dirty.
Victim(c, ud_en) == c.set.blocks[CHOOSE w \in way_write_enable(c, ud_en) : TRUE]

evicted_dirty(c, ud_en) == eviction_cond(c, ud_en) /\ Victim(c, ud_en).dirty

evicted_addr(c, ud_en) == [tag |-> Victim(c, ud_en).tag, index |-> c.addr.index]

evicted_line(c, ud_en) == Victim(c, ud_en).line

\* Fault: a store leaves the dirty bit as it was.
WrittenClean(c, b, ud_en, there, line) ==
    [tag   |-> c.addr.tag,
     valid |-> IF eviction_cond(c, ud_en) THEN there ELSE b.valid \cup there,
     line  |-> [o \in Offsets |-> IF o \in there THEN line[o] ELSE b.line[o]],
     dirty |-> ~eviction_cond(c, ud_en) /\ b.valid # {} /\ b.dirty]

\* One way after a write of the words `there` of `line`: a victim is replaced,
\* a free way or the block itself is merged into.
WrittenBlock(c, b, ud_en, there, line) ==
    [tag   |-> c.addr.tag,
     valid |-> IF eviction_cond(c, ud_en) THEN there ELSE b.valid \cup there,
     line  |-> [o \in Offsets |-> IF o \in there THEN line[o] ELSE b.line[o]],
     dirty |-> \/ c.type = "STORE"
               \/ ~eviction_cond(c, ud_en) /\ b.valid # {} /\ b.dirty]

\* What a write carries: the stored word, or the whole fill.
WrittenWords(c) == IF c.type = "STORE" THEN {c.addr.offset} ELSE Offsets

WrittenLine(c, fill) == IF c.type = "STORE" THEN [o \in Offsets |-> c.data] ELSE fill

\* The set as the array takes it back this cycle.
next_set_data(c, ud_en, fill) ==
    LET targets == way_write_enable(c, ud_en) IN
    IF write(c, ud_en)
    THEN [metadata |-> calculate_metadata(c.set.metadata, targets),
          blocks   |-> [w \in Ways |->
              IF w \in targets
              THEN WrittenBlock(c, c.set.blocks[w], ud_en, WrittenWords(c), WrittenLine(c, fill))
              ELSE c.set.blocks[w]]]
    ELSE IF read_hit(c)
    THEN [c.set EXCEPT !.metadata = calculate_metadata(@, way_block_hit(c))]
    ELSE c.set

cache_we(c, ud_en, stall) ==
    write(c, ud_en) \/ (read_hit(c) /\ ~stall)

can_accept_new(c, ud_en) ==
    /\ ~(c.type = "MISS_UPDATE" /\ ~ud_en)
    /\ ~read_miss(c)

\* The set a new request starts from: the one being written, or the array's.
forwarded_set(c, array, index, ud_en, fill) ==
    IF index = c.addr.index /\ c.type # "IDLE"
    THEN next_set_data(c, ud_en, fill)
    ELSE array[index]

=============================================================================
