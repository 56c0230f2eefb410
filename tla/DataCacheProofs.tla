--------------------------- MODULE DataCacheProofs ---------------------------
(***************************************************************************)
(* The data cache: the controller and the array stay in step, every set    *)
(* stays one a victim can be picked from, and no word the program stored   *)
(* is lost or hidden by an older copy.                                     *)
(***************************************************************************)
EXTENDS DataCache, FiniteSetTheorems, WellFoundedInduction, SequenceTheorems, TLAPS

-----------------------------------------------------------------------------
(***************************************************************************)
(* Replacement.                                                            *)
(***************************************************************************)

Ways == Cache!Ways

\* There is at least one way, way 0.
LEMMA WaysAre == WAYS \in Nat \ {0} /\ Ways = 0 .. WAYS - 1 /\ 0 \in Ways
BY DataCacheAssumption DEF Ways, Cache!Ways

\* The ages of an LRU set: every way has one of its own, from 0 up.
Numbered(m) ==
    /\ \A w \in Ways : m[w] \in Ways
    /\ \A a \in Ways : \E w \in Ways : m[w] = a
    /\ \A w, v \in Ways : m[w] = m[v] => w = v

\* The mark of an MRU or a direct-mapped set is on one way.
Marked(m) == \E w \in Ways : m[w] = 1 /\ \A v \in Ways : v # w => m[v] = 0

\* What the replacement bits of a set may be, and whether it has been used.
MetaOK(m) ==
    \/ Cache!NoMetadata(m)
    \/ POLICY = "LRU" /\ Numbered(m)
    \/ POLICY # "LRU" /\ Marked(m)

\* The numbers of the ways in order are a correct LRU state.
LEMMA InOrder ==
    ASSUME POLICY = "LRU"
    PROVE  LET n == [w \in Ways |-> w] IN Numbered(n) /\ ~Cache!NoMetadata(n)
<1>1. 1 \in Ways
  BY WaysAre, DataCacheAssumption
<1> QED BY <1>1 DEF Numbered, Cache!NoMetadata, Ways

\* Making one way the youngest renumbers the ways without a gap or a tie.
LEMMA Younger ==
    ASSUME POLICY = "LRU", NEW m, m \in Cache!Metadata, Numbered(m), NEW u \in Ways
    PROVE  LET n == [w \in Ways |-> IF m[w] < m[u] THEN m[w] + 1
                                    ELSE IF m[w] > m[u] THEN m[w]
                                    ELSE 0]
           IN  Numbered(n) /\ ~Cache!NoMetadata(n)
<1> DEFINE n == [w \in Ways |-> IF m[w] < m[u] THEN m[w] + 1
                                ELSE IF m[w] > m[u] THEN m[w]
                                ELSE 0]
<1>1. 1 \in Ways /\ WAYS \in Nat /\ Ways = 0 .. WAYS - 1
  BY WaysAre, DataCacheAssumption
<1>2. \A w \in Ways : m[w] \in Nat /\ m[w] < WAYS
  <2>1. \A w \in Ways : m[w] \in Ways
    BY DEF Numbered
  <2>2. \A a \in Ways : a \in Nat /\ a < WAYS
    BY <1>1
  <2> QED BY <2>1, <2>2
<1>3. \A w \in Ways : n[w] \in Ways
  BY <1>1, <1>2
<1>4. ASSUME NEW a \in Ways PROVE \E w \in Ways : n[w] = a
  <2>1. CASE a = 0
    BY <1>1, <1>2, <2>1
  <2>2. CASE a > 0 /\ a <= m[u]
    <3>1. a - 1 \in Ways
      BY <1>1, <2>2
    <3>2. PICK w \in Ways : m[w] = a - 1
      BY <3>1 DEF Numbered
    <3> QED BY <1>1, <1>2, <2>2, <3>2
  <2>3. CASE a > m[u]
    <3>1. PICK w \in Ways : m[w] = a
      BY DEF Numbered
    <3> QED BY <1>1, <1>2, <2>3, <3>1
  <2> QED BY <1>1, <1>2, <2>1, <2>2, <2>3
<1>5. ASSUME NEW w \in Ways, NEW v \in Ways, n[w] = n[v] PROVE w = v
  <2>1. m[w] = m[v] \/ (~(m[w] < m[u]) /\ ~(m[w] > m[u]) /\ ~(m[v] < m[u]) /\ ~(m[v] > m[u]))
    BY <1>1, <1>2, <1>5
  <2>2. m[w] = m[v]
    BY <1>2, <2>1
  <2> QED BY <2>2 DEF Numbered
<1>6. Numbered(n)
  BY <1>3, <1>4, <1>5 DEF Numbered
<1>7. ~Cache!NoMetadata(n)
  <2>1. PICK w \in Ways : n[w] = 1
    BY <1>1, <1>4
  <2> HIDE DEF n
  <2> QED BY <2>1 DEF Cache!NoMetadata, Ways
<1> QED BY <1>6, <1>7

\* A use of a way leaves the replacement bits well formed, and shows.
LEMMA UseKeeps ==
    ASSUME NEW m \in Cache!Metadata, MetaOK(m), NEW u \in Ways
    PROVE  LET n == Cache!calculate_metadata(m, {u}) IN
           n \in Cache!Metadata /\ MetaOK(n) /\ ~Cache!NoMetadata(n)
<1> DEFINE n == Cache!calculate_metadata(m, {u})
<1> SUFFICES n \in Cache!Metadata /\ MetaOK(n) /\ ~Cache!NoMetadata(n)
  OBVIOUS
<1>1. (CHOOSE w \in {u} : TRUE) = u
  OBVIOUS
<1>2. CASE POLICY = "DIRECT"
  <2>1. n = [w \in Ways |-> 1]
    BY <1>2 DEF Cache!calculate_metadata, Ways
  <2>2. Ways = {0}
    BY <1>2, WaysAre, DataCacheAssumption
  <2> HIDE DEF n
  <2>3. n \in [Ways -> 0 .. WAYS] /\ n[0] = 1 /\ 0 \in Ways
    BY <2>1, WaysAre
  <2>4. Marked(n)
    BY <2>2, <2>3 DEF Marked
  <2>5. ~Cache!NoMetadata(n)
    BY <2>3 DEF Cache!NoMetadata, Ways
  <2> QED BY <1>2, <2>3, <2>4, <2>5 DEF MetaOK, Cache!Metadata, Ways
<1>3. CASE POLICY = "MRU"
  <2>1. n = [w \in Ways |-> IF w \in {u} THEN 1 ELSE 0]
    BY <1>3 DEF Cache!calculate_metadata, Ways
  <2> HIDE DEF n
  <2>2. n \in [Ways -> 0 .. WAYS] /\ n[u] = 1
    BY <2>1, WaysAre
  <2>3. Marked(n)
    BY <2>1, <2>2 DEF Marked
  <2>4. ~Cache!NoMetadata(n)
    BY <2>2 DEF Cache!NoMetadata, Ways
  <2> QED BY <1>3, <2>2, <2>3, <2>4 DEF MetaOK, Cache!Metadata, Ways
<1>4. CASE POLICY = "LRU"
  <2>1. n = Cache!calculate_metadata_lru(m, {u})
    BY <1>4 DEF Cache!calculate_metadata
  <2>2. CASE Cache!NoMetadata(m)
    <3>1. n = [w \in Ways |-> w]
      BY <2>1, <2>2 DEF Cache!calculate_metadata_lru, Ways
    <3>2. Numbered(n) /\ ~Cache!NoMetadata(n)
      BY <1>4, <3>1, InOrder
    <3> HIDE DEF n
    <3>3. n \in [Ways -> 0 .. WAYS]
      BY <3>1, WaysAre
    <3> QED BY <1>4, <3>2, <3>3 DEF MetaOK, Cache!Metadata, Ways
  <2>3. CASE ~Cache!NoMetadata(m)
    <3>1. Numbered(m)
      BY <1>4, <2>3 DEF MetaOK
    <3>2. n = [w \in Ways |-> IF m[w] < m[u] THEN m[w] + 1
                              ELSE IF m[w] > m[u] THEN m[w]
                              ELSE 0]
      BY <1>1, <2>1, <2>3 DEF Cache!calculate_metadata_lru, Ways
    <3>3. Numbered(n) /\ ~Cache!NoMetadata(n)
      BY <1>4, <3>1, <3>2, Younger
    <3> HIDE DEF n
    <3>4. \A w \in Ways : n[w] \in 0 .. WAYS
      <4>1. \A w \in Ways : n[w] \in Ways
        BY <3>3 DEF Numbered
      <4>2. \A a \in Ways : a \in 0 .. WAYS
        BY WaysAre
      <4> QED BY <4>1, <4>2
    <3>5. n = [w \in Ways |-> n[w]]
      BY <3>2
    <3>6. n \in [Ways -> 0 .. WAYS]
      BY <3>4, <3>5
    <3> QED BY <1>4, <3>3, <3>6 DEF MetaOK, Cache!Metadata, Ways
  <2> QED BY <2>2, <2>3
<1> QED BY <1>2, <1>3, <1>4, DataCacheAssumption

\* A used set has one victim.
LEMMA VictimIs ==
    ASSUME NEW m \in Cache!Metadata, MetaOK(m), ~Cache!NoMetadata(m)
    PROVE  \E v \in Ways : Cache!select_eviction_target(m) = {v}
<1>1. CASE POLICY = "DIRECT"
  BY <1>1, WaysAre, DataCacheAssumption DEF Cache!select_eviction_target, Ways
<1>2. CASE POLICY = "MRU"
  <2>1. PICK v \in Ways : m[v] = 1 /\ \A w \in Ways : w # v => m[w] = 0
    BY <1>2 DEF MetaOK, Marked
  <2> QED BY <1>2, <2>1 DEF Cache!select_eviction_target, Ways
<1>3. CASE POLICY = "LRU"
  <2>1. WAYS - 1 \in Ways /\ Numbered(m)
    BY <1>3, WaysAre DEF MetaOK
  <2>2. PICK v \in Ways : m[v] = WAYS - 1
    BY <2>1 DEF Numbered
  <2>3. {w \in Ways : m[w] = WAYS - 1} = {v}
    BY <2>1, <2>2 DEF Numbered
  <2> QED BY <1>3, <2>3 DEF Cache!select_eviction_target, Ways
<1> QED BY <1>1, <1>2, <1>3, DataCacheAssumption

-----------------------------------------------------------------------------
(***************************************************************************)
(* A set.                                                                  *)
(***************************************************************************)

\* The ways of a set that hold a tag.
Holding(s, tag) == {w \in Ways : s.blocks[w].valid # {} /\ s.blocks[w].tag = tag}

\* Lines are whole or absent, no block is in two ways, and a set without replacement
\* bits is empty.
SetOK(s) ==
    /\ \A w \in Ways : s.blocks[w].valid \in {{}, Offsets}
    /\ \A w, v \in Ways :
          s.blocks[w].valid # {} /\ v \in Holding(s, s.blocks[w].tag) => w = v
    /\ MetaOK(s.metadata)
    /\ Cache!NoMetadata(s.metadata) => \A w \in Ways : s.blocks[w].valid = {}

\* A block has at least one word, word 0.
LEMMA OffsetsAre == Offsets # {} /\ 0 \in Offsets
BY DataCacheAssumption DEF Offsets

\* The first of some ways.
LEMMA FirstWay ==
    ASSUME NEW S \in SUBSET Ways, S # {}
    PROVE  (CHOOSE w \in S : \A v \in S : w <= v) \in S
<1>1. PICK R : R = {ss \in Nat \X Nat : ss[1] < ss[2]} /\ IsWellFoundedOn(R, Nat)
  <2>1. IsWellFoundedOn({ss \in Nat \X Nat : ss[1] < ss[2]}, Nat)
    BY NatLessThanWellFounded, Zenon DEF OpToRel
  <2> QED BY <2>1
<1>2. S \subseteq Nat
  BY WaysAre
<1>3. PICK w \in S : \A v \in S : ~(<<v, w>> \in R)
  BY <1>1, <1>2, WFMin
<1>4. ASSUME NEW v \in S PROVE w <= v
  <2>1. w \in Nat /\ v \in Nat /\ ~(v < w)
    BY <1>1, <1>2, <1>3
  <2> QED BY <2>1
<1> QED BY <1>3, <1>4

\* A request hits in the ways that hold its tag, of which there is at most one.
LEMMA HitIs ==
    ASSUME NEW c, SetOK(c.set)
    PROVE  /\ Cache!way_hit(c) = Holding(c.set, c.addr.tag)
           /\ c.addr.offset \in Offsets => Cache!way_block_hit(c) = Holding(c.set, c.addr.tag)
           /\ \A w \in Holding(c.set, c.addr.tag) : Holding(c.set, c.addr.tag) = {w}
<1>1. Cache!way_hit(c) = Holding(c.set, c.addr.tag)
  BY DEF Cache!way_hit, Holding, Ways
<1>2. ASSUME c.addr.offset \in Offsets
      PROVE  Cache!way_block_hit(c) = Holding(c.set, c.addr.tag)
  <2>1. \A w \in Ways : c.addr.offset \in c.set.blocks[w].valid <=> c.set.blocks[w].valid # {}
    BY <1>2 DEF SetOK
  <2> QED BY <2>1 DEF Cache!way_block_hit, Holding, Ways
<1>3. ASSUME NEW w \in Holding(c.set, c.addr.tag) PROVE Holding(c.set, c.addr.tag) = {w}
  <2>1. \A v \in Holding(c.set, c.addr.tag) : v = w
    BY <1>3 DEF SetOK, Holding
  <2> QED BY <2>1
<1> QED BY <1>1, <1>2, <1>3

\* A write goes to one way: the one that holds the block, else a free one, else the
\* victim.
LEMMA TargetIs ==
    ASSUME NEW c, NEW ud, c.set.metadata \in Cache!Metadata, SetOK(c.set), Cache!write(c, ud)
    PROVE  \E w \in Ways :
               /\ Cache!way_write_enable(c, ud) = {w}
               /\ Holding(c.set, c.addr.tag) # {} =>
                      w \in Holding(c.set, c.addr.tag) /\ ~Cache!eviction_cond(c, ud)
               /\ Holding(c.set, c.addr.tag) = {} =>
                      (Cache!eviction_cond(c, ud) <=> c.set.blocks[w].valid # {})
<1>1. Cache!way_hit(c) = Holding(c.set, c.addr.tag)
  BY HitIs
<1>2. CASE Holding(c.set, c.addr.tag) # {}
  <2>1. PICK w : w \in Holding(c.set, c.addr.tag)
    BY <1>2
  <2>2. Holding(c.set, c.addr.tag) = {w} /\ w \in Ways
    BY <2>1, HitIs DEF Holding
  <2>3. Cache!way_write_enable(c, ud) = {w}
    BY <1>1, <1>2, <2>2 DEF Cache!way_write_enable
  <2>4. ~Cache!eviction_cond(c, ud)
    BY <1>1, <1>2 DEF Cache!eviction_cond
  <2> QED BY <1>2, <2>1, <2>2, <2>3, <2>4
<1>3. CASE Holding(c.set, c.addr.tag) = {} /\ Cache!free_ways(c) # {}
  <2> DEFINE w == CHOOSE w \in Cache!free_ways(c) : \A v \in Cache!free_ways(c) : w <= v
  <2>1. w \in Cache!free_ways(c) /\ w \in Ways
    BY <1>3, FirstWay DEF Cache!free_ways, Ways
  <2>2. Cache!way_write_enable(c, ud) = {w}
    BY <1>1, <1>3 DEF Cache!way_write_enable
  <2> HIDE DEF w
  <2>3. ~Cache!eviction_cond(c, ud) /\ c.set.blocks[w].valid = {}
    BY <1>3, <2>1 DEF Cache!eviction_cond, Cache!free_ways
  <2> QED BY <1>3, <2>1, <2>2, <2>3
<1>4. CASE Holding(c.set, c.addr.tag) = {} /\ Cache!free_ways(c) = {}
  <2>1. \A w \in Ways : c.set.blocks[w].valid # {}
    BY <1>4 DEF Cache!free_ways, Ways
  <2>2. ~Cache!NoMetadata(c.set.metadata)
    BY <2>1, WaysAre DEF SetOK
  <2>3. PICK w \in Ways : Cache!select_eviction_target(c.set.metadata) = {w}
    BY <2>2, VictimIs DEF SetOK
  <2>4. Cache!way_write_enable(c, ud) = {w}
    BY <1>1, <1>4, <2>2, <2>3 DEF Cache!way_write_enable
  <2>5. Cache!eviction_cond(c, ud)
    BY <1>1, <1>4, <2>2 DEF Cache!eviction_cond
  <2> QED BY <1>4, <2>1, <2>4, <2>5
<1> QED BY <1>2, <1>3, <1>4

\* A set after one way of it was written.
LEMMA WrittenSet ==
    ASSUME NEW s, NEW n, SetOK(s), NEW w \in Ways, NEW tag,
           \A v \in Ways : v # w => n.blocks[v] = s.blocks[v],
           n.blocks[w].valid = Offsets, n.blocks[w].tag = tag, Holding(s, tag) \subseteq {w},
           MetaOK(n.metadata), ~Cache!NoMetadata(n.metadata)
    PROVE  /\ SetOK(n) /\ Holding(n, tag) = {w}
           /\ \A t : t # tag => Holding(n, t) = Holding(s, t) \ {w}
<1>1. \A v \in Ways : n.blocks[v].valid \in {{}, Offsets}
  BY DEF SetOK
<1>2. \A v \in Ways : v \in Holding(n, tag) <=> v = w
  BY OffsetsAre DEF Holding
<1>3. Holding(n, tag) = {w}
  BY <1>2 DEF Holding
<1>4. ASSUME NEW t, t # tag PROVE Holding(n, t) = Holding(s, t) \ {w}
  <2>1. \A v \in Ways : v \in Holding(n, t) <=> v \in Holding(s, t) /\ v # w
    BY <1>4 DEF Holding
  <2> QED BY <2>1 DEF Holding
<1>5. ASSUME NEW v1 \in Ways, NEW v2 \in Ways, n.blocks[v1].valid # {},
             v2 \in Holding(n, n.blocks[v1].tag)
      PROVE  v1 = v2
  <2>1. CASE n.blocks[v1].tag = tag
    <3>1. v1 \in Holding(n, tag) /\ v2 \in Holding(n, tag)
      BY <1>5, <2>1 DEF Holding
    <3> QED BY <1>3, <3>1
  <2>2. CASE n.blocks[v1].tag # tag
    <3>1. v2 \in Holding(s, n.blocks[v1].tag)
      BY <1>4, <1>5, <2>2
    <3>2. v1 # w
      BY <2>2
    <3>3. n.blocks[v1] = s.blocks[v1]
      BY <3>2
    <3> QED BY <1>5, <3>1, <3>3 DEF SetOK
  <2> QED BY <2>1, <2>2
<1>6. SetOK(n)
  BY <1>1, <1>5 DEF SetOK
<1> QED BY <1>3, <1>4, <1>6

\* The bits of a block after a store to it, and after a fill.
LEMMA StoredBlock ==
    ASSUME NEW c, NEW b \in Cache!CacheBlock, NEW ud, NEW fill,
           c.type = "STORE", ~Cache!eviction_cond(c, ud), b.valid = Offsets,
           c.addr.tag \in Tags, c.addr.offset \in Offsets, c.data \in BOOLEAN
    PROVE  LET n == Cache!WrittenBlock(c, b, ud, Cache!WrittenWords(c), Cache!WrittenLine(c, fill))
           IN  /\ n \in Cache!CacheBlock
               /\ n.tag = c.addr.tag /\ n.valid = Offsets /\ n.dirty
               /\ n.line = [b.line EXCEPT ![c.addr.offset] = c.data]
<1> DEFINE there == Cache!WrittenWords(c)
           line == Cache!WrittenLine(c, fill)
           n == Cache!WrittenBlock(c, b, ud, there, line)
<1> SUFFICES /\ n \in Cache!CacheBlock
             /\ n.tag = c.addr.tag /\ n.valid = Offsets /\ n.dirty
             /\ n.line = [b.line EXCEPT ![c.addr.offset] = c.data]
  OBVIOUS
<1>1. there = {c.addr.offset} /\ line = [o \in Offsets |-> c.data]
  BY Zenon DEF Cache!WrittenWords, Cache!WrittenLine
<1>2. b.line \in [Offsets -> BOOLEAN]
  BY DEF Cache!CacheBlock, Cache!Line
<1> HIDE DEF there, line
<1>3. n = [tag |-> c.addr.tag, valid |-> b.valid \cup there,
           line |-> [o \in Offsets |-> IF o \in there THEN line[o] ELSE b.line[o]],
           dirty |-> \/ c.type = "STORE"
                     \/ ~Cache!eviction_cond(c, ud) /\ b.valid # {} /\ b.dirty]
  BY Zenon DEF Cache!WrittenBlock
<1> HIDE DEF n
<1>4. n.dirty = TRUE
  BY <1>3, Zenon
<1>5. n.tag = c.addr.tag /\ n.valid = Offsets
  BY <1>1, <1>3
<1>6. n.line = [o \in Offsets |-> IF o = c.addr.offset THEN c.data ELSE b.line[o]]
  BY <1>1, <1>3
<1>7. n.line = [b.line EXCEPT ![c.addr.offset] = c.data]
  BY <1>2, <1>6
<1>8. n \in [dirty : BOOLEAN, valid : SUBSET Offsets, tag : Tags, line : [Offsets -> BOOLEAN]]
  <2>1. n.line \in [Offsets -> BOOLEAN]
    BY <1>2, <1>6
  <2> QED BY <1>3, <1>4, <1>5, <2>1
<1> QED BY <1>4, <1>5, <1>7, <1>8 DEF Cache!CacheBlock, Cache!Line

\* What a fill writes: the whole line, valid, clean, under the tag of the request.
LEMMA FilledBlock ==
    ASSUME NEW c, NEW b \in Cache!CacheBlock, NEW ud, NEW fill \in Cache!Line,
           c.type # "STORE", c.addr.tag \in Tags,
           Cache!eviction_cond(c, ud) <=> b.valid # {}
    PROVE  LET n == Cache!WrittenBlock(c, b, ud, Cache!WrittenWords(c), Cache!WrittenLine(c, fill))
           IN  /\ n \in Cache!CacheBlock
               /\ n.tag = c.addr.tag /\ n.valid = Offsets /\ ~n.dirty /\ n.line = fill
<1> DEFINE there == Cache!WrittenWords(c)
           line == Cache!WrittenLine(c, fill)
           n == Cache!WrittenBlock(c, b, ud, there, line)
<1> SUFFICES /\ n \in Cache!CacheBlock
             /\ n.tag = c.addr.tag /\ n.valid = Offsets /\ ~n.dirty /\ n.line = fill
  OBVIOUS
<1>1. there = Offsets /\ line = fill
  BY Zenon DEF Cache!WrittenWords, Cache!WrittenLine
<1> HIDE DEF there, line
<1>2. n = [tag |-> c.addr.tag,
           valid |-> IF Cache!eviction_cond(c, ud) THEN there ELSE b.valid \cup there,
           line |-> [o \in Offsets |-> IF o \in there THEN line[o] ELSE b.line[o]],
           dirty |-> \/ c.type = "STORE"
                     \/ ~Cache!eviction_cond(c, ud) /\ b.valid # {} /\ b.dirty]
  BY Zenon DEF Cache!WrittenBlock
<1> HIDE DEF n
<1>3. n.dirty = FALSE
  BY <1>2, Zenon
<1>4. n.tag = c.addr.tag /\ n.valid = Offsets
  <2>1. b.valid # {} \/ ~Cache!eviction_cond(c, ud)
    OBVIOUS
  <2>2. b.valid \subseteq Offsets
    BY DEF Cache!CacheBlock
  <2> QED BY <1>1, <1>2, <2>1, <2>2
<1>5. n.line = fill
  BY <1>1, <1>2 DEF Cache!Line
<1>6. n \in [dirty : BOOLEAN, valid : SUBSET Offsets, tag : Tags, line : [Offsets -> BOOLEAN]]
  BY <1>2, <1>3, <1>4, <1>5 DEF Cache!Line
<1> QED BY <1>3, <1>4, <1>5, <1>6 DEF Cache!CacheBlock, Cache!Line

\* The set a store leaves, and the one a fill leaves: one way of it is written.
Replaced(n, s, w) ==
    /\ n \in Cache!CacheSet /\ MetaOK(n.metadata) /\ ~Cache!NoMetadata(n.metadata)
    /\ \A v \in Ways : v # w => n.blocks[v] = s.blocks[v]

\* A write replaces the block of the one way it is enabled for.
LEMMA WriteIs ==
    ASSUME NEW c \in Cache!Inflight, NEW ud, NEW fill, SetOK(c.set), Cache!write(c, ud),
           NEW w \in Ways, Cache!way_write_enable(c, ud) = {w},
           Cache!WrittenBlock(c, c.set.blocks[w], ud, Cache!WrittenWords(c),
                              Cache!WrittenLine(c, fill)) \in Cache!CacheBlock
    PROVE  LET n == Cache!next_set_data(c, ud, fill) IN
           /\ Replaced(n, c.set, w)
           /\ n.blocks[w] = Cache!WrittenBlock(c, c.set.blocks[w], ud, Cache!WrittenWords(c),
                                               Cache!WrittenLine(c, fill))
<1> DEFINE new == Cache!WrittenBlock(c, c.set.blocks[w], ud, Cache!WrittenWords(c),
                                     Cache!WrittenLine(c, fill))
           n == Cache!next_set_data(c, ud, fill)
<1> SUFFICES Replaced(n, c.set, w) /\ n.blocks[w] = new
  OBVIOUS
<1>1. n = [metadata |-> Cache!calculate_metadata(c.set.metadata, {w}),
           blocks   |-> [v \in Ways |->
              IF v \in {w}
              THEN Cache!WrittenBlock(c, c.set.blocks[v], ud, Cache!WrittenWords(c),
                                      Cache!WrittenLine(c, fill))
              ELSE c.set.blocks[v]]]
  BY Zenon DEF Cache!next_set_data, Ways
<1>2. n.metadata = Cache!calculate_metadata(c.set.metadata, {w})
  BY <1>1
<1>3. n.blocks = [v \in Ways |->
              IF v \in {w}
              THEN Cache!WrittenBlock(c, c.set.blocks[v], ud, Cache!WrittenWords(c),
                                      Cache!WrittenLine(c, fill))
              ELSE c.set.blocks[v]]
  BY <1>1
<1>4. n = [metadata |-> n.metadata, blocks |-> n.blocks]
  BY <1>1
<1> HIDE DEF n
<1>5. c.set.metadata \in Cache!Metadata /\ MetaOK(c.set.metadata)
      /\ c.set.blocks \in [Ways -> Cache!CacheBlock]
  BY DEF Cache!Inflight, Cache!CacheSet, SetOK, Ways
<1>6. n.metadata \in Cache!Metadata /\ MetaOK(n.metadata) /\ ~Cache!NoMetadata(n.metadata)
  BY <1>2, <1>5, UseKeeps
<1>7. n.blocks[w] = new
  BY <1>3
<1>8. \A v \in Ways : v # w => n.blocks[v] = c.set.blocks[v]
  BY <1>3
<1> HIDE DEF new
<1>9. \A v \in Ways : n.blocks[v] \in Cache!CacheBlock
  BY <1>5, <1>7, <1>8 DEF new
<1>10. n.blocks \in [Ways -> Cache!CacheBlock]
  <2>1. n.blocks = [v \in Ways |-> n.blocks[v]]
    BY <1>3
  <2> QED BY <1>9, <2>1
<1>11. n \in Cache!CacheSet
  BY <1>4, <1>6, <1>10 DEF Cache!CacheSet, Ways
<1> QED BY <1>6, <1>7, <1>8, <1>11 DEF Replaced

\* A store that hits dirties the way that holds the block and changes one word of it.
LEMMA StoreIs ==
    ASSUME NEW c \in Cache!Inflight, NEW ud, NEW fill, SetOK(c.set), c.type = "STORE",
           NEW w \in Holding(c.set, c.addr.tag)
    PROVE  LET n == Cache!next_set_data(c, ud, fill) IN
           /\ Replaced(n, c.set, w)
           /\ n.blocks[w].tag = c.addr.tag /\ n.blocks[w].valid = Offsets /\ n.blocks[w].dirty
           /\ n.blocks[w].line = [c.set.blocks[w].line EXCEPT ![c.addr.offset] = c.data]
<1>1. Cache!write(c, ud)
  BY DEF Cache!write
<1>2. /\ c.set.metadata \in Cache!Metadata /\ c.set.blocks \in [Ways -> Cache!CacheBlock]
      /\ c.addr.tag \in Tags /\ c.addr.offset \in Offsets /\ c.data \in BOOLEAN
  BY DEF Cache!Inflight, Cache!CacheSet, Cache!Address, Ways
<1>3. PICK x \in Ways :
           /\ Cache!way_write_enable(c, ud) = {x}
           /\ x \in Holding(c.set, c.addr.tag) /\ ~Cache!eviction_cond(c, ud)
  BY <1>1, <1>2, TargetIs
<1>4. x = w /\ w \in Ways /\ c.set.blocks[w].valid = Offsets
  BY <1>3, HitIs DEF SetOK, Holding
<1>5. c.set.blocks[w] \in Cache!CacheBlock
  BY <1>2, <1>4
<1> QED BY <1>1, <1>2, <1>3, <1>4, <1>5, StoredBlock, WriteIs, SMTT(30)

\* A fill replaces a free way or the victim, and tells what it pushed out.
LEMMA FillIs ==
    ASSUME NEW c \in Cache!Inflight, NEW ud, Cache!write(c, ud), NEW fill \in Cache!Line, SetOK(c.set),
           c.type = "MISS_UPDATE", Holding(c.set, c.addr.tag) = {}
    PROVE  LET n == Cache!next_set_data(c, ud, fill) IN
           \E w \in Ways :
              /\ Replaced(n, c.set, w)
              /\ n.blocks[w].tag = c.addr.tag /\ n.blocks[w].valid = Offsets
              /\ ~n.blocks[w].dirty /\ n.blocks[w].line = fill
              /\ Cache!evicted_dirty(c, ud) <=> c.set.blocks[w].valid # {} /\ c.set.blocks[w].dirty
              /\ Cache!evicted_addr(c, ud) = [tag |-> c.set.blocks[w].tag, index |-> c.addr.index]
              /\ Cache!evicted_line(c, ud) = c.set.blocks[w].line
<1>1. Cache!write(c, ud) /\ c.type # "STORE"
  OBVIOUS
<1>2. /\ c.set.metadata \in Cache!Metadata /\ c.set.blocks \in [Ways -> Cache!CacheBlock]
      /\ c.addr.tag \in Tags
  BY DEF Cache!Inflight, Cache!CacheSet, Cache!Address, Ways
<1>3. PICK w \in Ways :
           /\ Cache!way_write_enable(c, ud) = {w}
           /\ Cache!eviction_cond(c, ud) <=> c.set.blocks[w].valid # {}
  BY <1>1, <1>2, TargetIs
<1>4. c.set.blocks[w] \in Cache!CacheBlock
  BY <1>2
<1>5. Cache!Victim(c, ud) = c.set.blocks[w]
  <2>1. (CHOOSE v \in {w} : TRUE) = w
    OBVIOUS
  <2> QED BY <1>3, <2>1 DEF Cache!Victim
<1>6. /\ Cache!evicted_dirty(c, ud) <=> c.set.blocks[w].valid # {} /\ c.set.blocks[w].dirty
      /\ Cache!evicted_addr(c, ud) = [tag |-> c.set.blocks[w].tag, index |-> c.addr.index]
      /\ Cache!evicted_line(c, ud) = c.set.blocks[w].line
  BY <1>3, <1>5, Zenon DEF Cache!evicted_dirty, Cache!evicted_addr, Cache!evicted_line
<1> DEFINE new == Cache!WrittenBlock(c, c.set.blocks[w], ud, Cache!WrittenWords(c),
                                     Cache!WrittenLine(c, fill))
<1>7. /\ new \in Cache!CacheBlock
      /\ new.tag = c.addr.tag /\ new.valid = Offsets /\ ~new.dirty /\ new.line = fill
  BY <1>1, <1>2, <1>3, <1>4, FilledBlock
<1>8. /\ Replaced(Cache!next_set_data(c, ud, fill), c.set, w)
      /\ Cache!next_set_data(c, ud, fill).blocks[w] = new
  BY <1>1, <1>3, <1>7, WriteIs
<1> HIDE DEF new
<1> QED BY <1>3, <1>6, <1>7, <1>8

-----------------------------------------------------------------------------
(***************************************************************************)
(* The controller and the array in step.                                   *)
(***************************************************************************)

Waiting == state \in {"READ_WAIT_MEM_RSP", "WRITE_WAIT_MEM_RSP"}

\* What the state says of the other registers of the control.
Control ==
    /\ Probing <=> inflight.type = "LOAD"
    /\ Waiting <=> inflight.type = "MISS_UPDATE"
    /\ inflight.type # "IDLE" => inflight.addr = latched
    /\ wb_pending => state \in {"WRITE_CACHE_DATA", "WRITE_EVICT_WRITEBACK"}
    /\ state = "WRITE_EVICT_WRITEBACK" => wb_pending
    /\ Storing => state \in {"IDLE", "WRITE_EVICT_WRITEBACK"}
    /\ state # "WRITE_EVICT_WRITEBACK" => wb_beat = 0
    /\ state = "READ_FWD" => fwd_pending
    /\ fwd_pending => state \in {"READ_FWD", "WRITE_EVICT_WRITEBACK"}

SetsOK == \A i \in Indexes : SetOK(sets[i])

\* A fill is of a block that is nowhere, a store of one that is there.
Present ==
    /\ Waiting => WaysOf(Cache!block(latched)) = {}
    /\ Storing \/ state = "WRITE_CACHE_DATA" => WaysOf(Cache!block(latched)) # {}

Structure == TypeOK /\ Control /\ SnapshotFresh /\ SetsOK /\ Present

\* The signals of any cycle.
Signal(in) == \E re, we \in BOOLEAN, addr \in Cache!Address : in = Seam(re, we, addr)

\* The types of the signals of a clock, and which state they repeat.
LEMMA SignalIs ==
    ASSUME NEW in, Signal(in)
    PROVE  /\ in.re \in BOOLEAN /\ in.we \in BOOLEAN /\ in.addr \in Cache!Address
           /\ in.cancel = FALSE /\ in.mem_ready = TRUE
           /\ in.hit <=> hit
           /\ in.good <=> mem_rsp_good
           /\ in.evicted_dirty <=> Cache!evicted_dirty(inflight, TRUE)
<1>1. PICK re \in BOOLEAN, we \in BOOLEAN, addr \in Cache!Address : in = Seam(re, we, addr)
  BY DEF Signal
<1>2. /\ in.re = re /\ in.we = we /\ in.addr = addr /\ in.cancel = FALSE /\ in.mem_ready = TRUE
      /\ in.hit = hit /\ in.good = mem_rsp_good
      /\ in.evicted_dirty = Cache!evicted_dirty(inflight, TRUE)
  BY <1>1, Zenon DEF Seam
<1> QED BY <1>1, <1>2

\* Every step is a clock edge under some signals.
LEMMA NextIsClock ==
    ASSUME Next
    PROVE  \E in, writes_all, code :
               Signal(in) /\ writes_all \in BOOLEAN /\ code \in CodeRequests /\ Clock(in, writes_all, code)
<1>1. CASE Idle
  <2>1. PICK code \in CodeRequests : Clock(Seam(FALSE, FALSE, zero_address), FALSE, code)
    BY <1>1 DEF Idle
  <2>2. zero_address \in Cache!Address
    BY DataCacheAssumption, OffsetsAre DEF zero_address, Cache!Address
  <2>3. Signal(Seam(FALSE, FALSE, zero_address))
    BY <2>2, Zenon DEF Signal
  <2> QED BY <2>1, <2>3, Zenon
<1>2. CASE Load
  <2>1. PICK addr \in Cache!Address, code \in CodeRequests :
            Clock(Seam(TRUE, FALSE, addr), FALSE, code)
    BY <1>2, Zenon DEF Load
  <2>2. Signal(Seam(TRUE, FALSE, addr))
    BY Zenon DEF Signal
  <2> QED BY <2>1, <2>2, Zenon
<1>3. CASE Store
  <2>1. PICK addr \in Cache!Address, writes_all \in BOOLEAN, code \in CodeRequests :
            Clock(Seam(FALSE, TRUE, addr), writes_all, code)
    BY <1>3, Zenon DEF Store
  <2>2. Signal(Seam(FALSE, TRUE, addr))
    BY Zenon DEF Signal
  <2> QED BY <2>1, <2>2, Zenon
<1> QED BY <1>1, <1>2, <1>3 DEF Next

\* The ways of a block are those that hold its tag in its set.
LEMMA WaysAt ==
    ASSUME NEW b
    PROVE  WaysOf(b) = Holding(sets[b.index], b.tag)
BY Zenon DEF WaysOf, Holding, Ways

\* The probe hits exactly if the block is there.
LEMMA ProbeIs ==
    ASSUME Structure
    PROVE  hit <=> Probing /\ WaysOf(Cache!block(latched)) # {}
<1>1. CASE inflight.type = "LOAD"
  <2>1. /\ inflight.set = sets[latched.index] /\ inflight.addr = latched /\ latched \in Cache!Address
        /\ Probing
    BY <1>1 DEF Structure, SnapshotFresh, Control, TypeOK
  <2>2. SetOK(inflight.set) /\ inflight.addr.offset \in Offsets
    BY <2>1 DEF Structure, SetsOK, Cache!Address
  <2>3. Cache!way_block_hit(inflight) = Holding(sets[latched.index], latched.tag)
    BY <2>1, <2>2, HitIs
  <2>4. WaysOf(Cache!block(latched)) = Holding(sets[latched.index], latched.tag)
    BY WaysAt DEF Cache!block
  <2> QED BY <1>1, <2>1, <2>3, <2>4 DEF hit, Cache!read_hit
<1>2. CASE inflight.type # "LOAD"
  BY <1>2 DEF Structure, Control, hit, Cache!read_hit
<1> QED BY <1>1, <1>2

\* The request being worked on, under the invariant.
LEMMA SnapshotIs ==
    ASSUME Structure, inflight.type # "IDLE"
    PROVE  /\ inflight \in Cache!Inflight /\ inflight.addr = latched
           /\ latched \in Cache!Address /\ latched.index \in Indexes
           /\ latched.tag \in Tags /\ latched.offset \in Offsets
           /\ inflight.set = sets[latched.index] /\ SetOK(sets[latched.index])
           /\ Holding(sets[latched.index], latched.tag) = WaysOf(Cache!block(latched))
<1>1. /\ inflight \in Cache!Inflight /\ inflight.addr = latched
      /\ latched \in Cache!Address /\ latched.index \in Indexes
      /\ latched.tag \in Tags /\ latched.offset \in Offsets
      /\ inflight.set = sets[latched.index]
  BY DEF Structure, SnapshotFresh, Control, TypeOK, Cache!Address
<1>2. SetOK(sets[latched.index])
  BY <1>1 DEF Structure, SetsOK
<1>3. Holding(sets[latched.index], latched.tag) = WaysOf(Cache!block(latched))
  BY WaysAt DEF Cache!block
<1> QED BY <1>1, <1>2, <1>3

\* What the array takes back, if anything.
Taken(in) == Cache!next_set_data(inflight, ud_en(in), mem_rsp.line)

\* When a clock edge writes the array, it writes the set of the latched address.
LEMMA ArrayIs ==
    ASSUME Structure, NEW in, Signal(in), NEW writes_all, NEW code, Clock(in, writes_all, code)
    PROVE  /\ Storing \/ do_fill(in) \/ Cache!read_hit(inflight) =>
                  inflight.type # "IDLE" /\ sets' = [sets EXCEPT ![latched.index] = Taken(in)]
           /\ ~(Storing \/ do_fill(in) \/ Cache!read_hit(inflight)) => sets' = sets
           /\ do_fill(in) => Waiting /\ inflight.type = "MISS_UPDATE" /\ ~Storing
<1>1. sets' = next_sets(in)
  BY DEF Clock
<1>2. do_fill(in) => Waiting /\ inflight.type = "MISS_UPDATE" /\ ~Storing
  BY DEF do_fill, Waiting, Structure, Control, Storing
<1>3. ~cache_stall(in)
  BY SignalIs DEF cache_stall
<1>4. Cache!cache_we(inflight, ud_en(in), cache_stall(in))
         <=> Storing \/ do_fill(in) \/ Cache!read_hit(inflight)
  BY <1>2, <1>3, Zenon DEF Cache!cache_we, Cache!write, ud_en, Storing
<1>5. Storing \/ do_fill(in) \/ Cache!read_hit(inflight) => inflight.type # "IDLE"
  BY <1>2 DEF Storing, Cache!read_hit
<1>6. inflight.type # "IDLE" => inflight.addr = latched
  BY DEF Structure, Control
<1> QED BY <1>1, <1>2, <1>4, <1>5, <1>6, Zenon DEF next_sets, Taken

\* A clock edge that neither stores nor fills changes no block.
LEMMA ArrayQuiet ==
    ASSUME Structure, NEW in, Signal(in), NEW writes_all, NEW code, Clock(in, writes_all, code),
           ~Storing, ~do_fill(in)
    PROVE  /\ sets' \in [Indexes -> Cache!CacheSet]
           /\ \A i \in Indexes : SetOK(sets'[i]) /\ sets'[i].blocks = sets[i].blocks
<1>1. sets \in [Indexes -> Cache!CacheSet] /\ \A i \in Indexes : SetOK(sets[i])
  BY DEF Structure, TypeOK, SetsOK
<1>2. CASE ~Cache!read_hit(inflight)
  BY <1>1, <1>2, ArrayIs
<1>3. CASE Cache!read_hit(inflight)
  <2>1. inflight.type = "LOAD" /\ Cache!way_block_hit(inflight) # {}
    BY <1>3 DEF Cache!read_hit
  <2> DEFINE s == sets[latched.index]
             n == Taken(in)
  <2>2. /\ inflight.addr = latched /\ latched.index \in Indexes /\ latched.offset \in Offsets
        /\ inflight.set = s /\ SetOK(s) /\ s \in Cache!CacheSet
    BY <1>1, <2>1, SnapshotIs
  <2>3. PICK w : w \in Cache!way_block_hit(inflight)
    BY <2>1
  <2>4. Cache!way_block_hit(inflight) = {w} /\ w \in Ways
    BY <2>2, <2>3, HitIs DEF Holding
  <2>5. n = [s EXCEPT !.metadata = Cache!calculate_metadata(@, {w})]
    <3>1. ~Cache!write(inflight, ud_en(in))
      BY <2>1, Zenon DEF Cache!write
    <3> QED BY <1>3, <2>2, <2>4, <3>1, Zenon DEF Taken, Cache!next_set_data
  <2>6. sets' = [sets EXCEPT ![latched.index] = n]
    BY <1>3, ArrayIs
  <2> HIDE DEF n, s
  <2>7. s.metadata \in Cache!Metadata /\ MetaOK(s.metadata)
    BY <2>2 DEF SetOK, Cache!CacheSet
  <2>8. /\ n.blocks = s.blocks /\ n.metadata = Cache!calculate_metadata(s.metadata, {w})
        /\ n = [metadata |-> n.metadata, blocks |-> n.blocks]
    BY <2>2, <2>5 DEF Cache!CacheSet
  <2>9. n.metadata \in Cache!Metadata /\ MetaOK(n.metadata) /\ ~Cache!NoMetadata(n.metadata)
    BY <2>4, <2>7, <2>8, UseKeeps
  <2>10. n \in Cache!CacheSet
    BY <2>2, <2>8, <2>9 DEF Cache!CacheSet
  <2>11. SetOK(n)
    BY <2>2, <2>8, <2>9 DEF SetOK, Holding
  <2>12. ASSUME NEW i \in Indexes PROVE SetOK(sets'[i]) /\ sets'[i].blocks = sets[i].blocks
    <3>1. CASE i = latched.index
      BY <1>1, <2>6, <2>8, <2>11, <3>1 DEF s
    <3>2. CASE i # latched.index
      BY <1>1, <2>6, <3>2
    <3> QED BY <3>1, <3>2
  <2> QED BY <1>1, <2>6, <2>10, <2>12
<1> QED BY <1>2, <1>3

\* A set put back by a write; the others stay.
LEMMA ArrayPut ==
    ASSUME NEW i0 \in Indexes, NEW w \in Ways, sets \in [Indexes -> Cache!CacheSet], SetsOK,
           sets' \in [Indexes -> Cache!CacheSet],
           \A i \in Indexes : i # i0 => sets'[i] = sets[i],
           Replaced(sets'[i0], sets[i0], w),
           NEW tag, sets'[i0].blocks[w].valid = Offsets, sets'[i0].blocks[w].tag = tag,
           Holding(sets[i0], tag) \subseteq {w}
    PROVE  /\ \A i \in Indexes : SetOK(sets'[i])
           /\ Holding(sets'[i0], tag) = {w}
           /\ \A t : t # tag => Holding(sets'[i0], t) = Holding(sets[i0], t) \ {w}
<1>1. /\ MetaOK(sets'[i0].metadata) /\ ~Cache!NoMetadata(sets'[i0].metadata)
      /\ \A v \in Ways : v # w => sets'[i0].blocks[v] = sets[i0].blocks[v]
  BY DEF Replaced
<1>2. SetOK(sets[i0])
  BY DEF SetsOK
<1>3. /\ SetOK(sets'[i0]) /\ Holding(sets'[i0], tag) = {w}
      /\ \A t : t # tag => Holding(sets'[i0], t) = Holding(sets[i0], t) \ {w}
  BY <1>1, <1>2, WrittenSet
<1>4. \A i \in Indexes : SetOK(sets'[i])
  BY <1>3 DEF SetsOK
<1> QED BY <1>3, <1>4

\* A clock edge that stores changes one word of one way.
LEMMA ArrayStore ==
    ASSUME Structure, NEW in, Signal(in), NEW writes_all, NEW code, Clock(in, writes_all, code),
           Storing
    PROVE  LET i0 == latched.index IN
           \E w \in Ways :
              /\ sets' \in [Indexes -> Cache!CacheSet] /\ \A i \in Indexes : SetOK(sets'[i])
              /\ \A i \in Indexes : i # i0 => sets'[i] = sets[i]
              /\ \A v \in Ways : v # w => sets'[i0].blocks[v] = sets[i0].blocks[v]
              /\ \A t : Holding(sets'[i0], t) = Holding(sets[i0], t)
              /\ Holding(sets[i0], latched.tag) = {w}
              /\ sets'[i0].blocks[w].dirty
              /\ sets'[i0].blocks[w].line =
                     [sets[i0].blocks[w].line EXCEPT ![latched.offset] = inflight.data]
<1> DEFINE i0 == latched.index
           s == sets[i0]
<1>1. inflight.type = "STORE" /\ inflight.type # "IDLE"
  BY DEF Storing
<1>2. /\ inflight \in Cache!Inflight /\ inflight.addr = latched /\ i0 \in Indexes
      /\ inflight.set = s /\ SetOK(s) /\ Holding(s, latched.tag) = WaysOf(Cache!block(latched))
  BY <1>1, SnapshotIs
<1>3. sets \in [Indexes -> Cache!CacheSet] /\ SetsOK /\ sets' = [sets EXCEPT ![i0] = Taken(in)]
  BY ArrayIs DEF Structure, TypeOK
<1>4. PICK w : w \in Holding(s, latched.tag)
  BY <1>2 DEF Structure, Present
<1>5. w \in Ways /\ Holding(s, latched.tag) = {w}
  BY <1>2, <1>4, HitIs DEF Holding
<1>6. /\ Replaced(Taken(in), s, w)
      /\ Taken(in).blocks[w].tag = latched.tag /\ Taken(in).blocks[w].valid = Offsets
      /\ Taken(in).blocks[w].dirty
      /\ Taken(in).blocks[w].line = [s.blocks[w].line EXCEPT ![latched.offset] = inflight.data]
  BY <1>1, <1>2, <1>4, StoreIs DEF Taken
<1>7. /\ sets' \in [Indexes -> Cache!CacheSet] /\ \A i \in Indexes : SetOK(sets'[i])
      /\ sets'[i0] = Taken(in) /\ \A i \in Indexes : i # i0 => sets'[i] = sets[i]
      /\ Holding(sets'[i0], latched.tag) = {w}
      /\ \A t : t # latched.tag => Holding(sets'[i0], t) = Holding(s, t) \ {w}
  <2>1. Holding(sets[i0], latched.tag) \subseteq {w}
    BY <1>5
  <2>2. /\ sets' \in [Indexes -> Cache!CacheSet]
        /\ sets'[i0] = Taken(in) /\ \A i \in Indexes : i # i0 => sets'[i] = sets[i]
    BY <1>2, <1>3, <1>6 DEF Replaced
  <2>3. /\ Replaced(sets'[i0], sets[i0], w)
        /\ sets'[i0].blocks[w].tag = latched.tag /\ sets'[i0].blocks[w].valid = Offsets
    BY <1>6, <2>2
  <2> HIDE DEF i0
  <2> QED BY <1>2, <1>3, <1>5, <2>1, <2>2, <2>3, ArrayPut
<1>8. ASSUME NEW t PROVE Holding(sets'[i0], t) = Holding(s, t)
  <2>1. CASE t = latched.tag
    BY <1>5, <1>7, <2>1
  <2>2. CASE t # latched.tag
    <3>1. w \notin Holding(s, t)
      BY <1>4, <2>2 DEF Holding
    <3> QED BY <1>7, <2>2, <3>1
  <2> QED BY <2>1, <2>2
<1>9. \A v \in Ways : v # w => sets'[i0].blocks[v] = s.blocks[v]
  BY <1>6, <1>7 DEF Replaced
<1> HIDE DEF s
<1> QED BY <1>5, <1>6, <1>7, <1>8, <1>9 DEF s

\* A clock edge that fills replaces one way, and the victim is what that way held.
LEMMA ArrayFill ==
    ASSUME Structure, NEW in, Signal(in), NEW writes_all, NEW code, Clock(in, writes_all, code),
           do_fill(in)
    PROVE  LET i0 == latched.index
               old(w) == sets[i0].blocks[w]
               new(w) == sets'[i0].blocks[w]
           IN
           \E w \in Ways :
              /\ sets' \in [Indexes -> Cache!CacheSet] /\ \A i \in Indexes : SetOK(sets'[i])
              /\ \A i \in Indexes : i # i0 => sets'[i] = sets[i]
              /\ \A v \in Ways : v # w => new(v) = old(v)
              /\ Holding(sets'[i0], latched.tag) = {w}
              /\ \A t : t # latched.tag => Holding(sets'[i0], t) = Holding(sets[i0], t) \ {w}
              /\ ~new(w).dirty /\ new(w).line = mem_rsp.line
              /\ in.evicted_dirty <=> old(w).valid # {} /\ old(w).dirty
              /\ Cache!evicted_addr(inflight, TRUE) = [tag |-> old(w).tag, index |-> i0]
              /\ Cache!evicted_line(inflight, TRUE) = old(w).line
<1> DEFINE i0 == latched.index
           s == sets[i0]
           ud == ud_en(in)
<1>1. inflight.type = "MISS_UPDATE" /\ inflight.type # "IDLE" /\ Waiting
  BY ArrayIs
<1>2. /\ inflight \in Cache!Inflight /\ inflight.addr = latched /\ i0 \in Indexes
      /\ inflight.set = s /\ SetOK(s) /\ Holding(s, latched.tag) = WaysOf(Cache!block(latched))
  BY <1>1, SnapshotIs
<1>3. sets \in [Indexes -> Cache!CacheSet] /\ SetsOK /\ sets' = [sets EXCEPT ![i0] = Taken(in)]
  BY ArrayIs DEF Structure, TypeOK
<1>4. Holding(s, latched.tag) = {}
  BY <1>1, <1>2 DEF Structure, Present
<1>5. ud = TRUE /\ Cache!write(inflight, ud)
  BY <1>1, Zenon DEF ud_en, do_fill, Cache!write
<1>6. mem_rsp.line \in Cache!Line
  BY DataCacheAssumption DEF Structure, TypeOK, mem_rsp, Answer
<1>7. /\ Cache!evicted_dirty(inflight, TRUE) <=> Cache!evicted_dirty(inflight, ud)
      /\ Cache!evicted_addr(inflight, TRUE) = Cache!evicted_addr(inflight, ud)
      /\ Cache!evicted_line(inflight, TRUE) = Cache!evicted_line(inflight, ud)
  BY <1>5, Zenon
<1>8. Taken(in) = Cache!next_set_data(inflight, ud, mem_rsp.line)
  BY DEF Taken
<1> HIDE DEF ud
<1>9. Cache!write(inflight, ud)
  BY <1>5
<1>10. PICK w \in Ways :
           /\ Replaced(Taken(in), s, w)
           /\ Taken(in).blocks[w].tag = latched.tag /\ Taken(in).blocks[w].valid = Offsets
           /\ ~Taken(in).blocks[w].dirty /\ Taken(in).blocks[w].line = mem_rsp.line
           /\ Cache!evicted_dirty(inflight, ud) <=> s.blocks[w].valid # {} /\ s.blocks[w].dirty
           /\ Cache!evicted_addr(inflight, ud) = [tag |-> s.blocks[w].tag, index |-> i0]
           /\ Cache!evicted_line(inflight, ud) = s.blocks[w].line
  BY <1>1, <1>2, <1>4, <1>6, <1>8, <1>9, FillIs
<1>11. /\ sets' \in [Indexes -> Cache!CacheSet] /\ \A i \in Indexes : SetOK(sets'[i])
       /\ sets'[i0] = Taken(in) /\ \A i \in Indexes : i # i0 => sets'[i] = sets[i]
       /\ Holding(sets'[i0], latched.tag) = {w}
       /\ \A t : t # latched.tag => Holding(sets'[i0], t) = Holding(s, t) \ {w}
  <2>1. Holding(sets[i0], latched.tag) \subseteq {w}
    BY <1>4
  <2>2. /\ sets' \in [Indexes -> Cache!CacheSet]
        /\ sets'[i0] = Taken(in) /\ \A i \in Indexes : i # i0 => sets'[i] = sets[i]
    BY <1>2, <1>3, <1>10 DEF Replaced
  <2>3. /\ Replaced(sets'[i0], sets[i0], w)
        /\ sets'[i0].blocks[w].tag = latched.tag /\ sets'[i0].blocks[w].valid = Offsets
    BY <1>10, <2>2
  <2> HIDE DEF i0
  <2> QED BY <1>2, <1>3, <2>1, <2>2, <2>3, ArrayPut, SMTT(30)
<1>12. \A v \in Ways : v # w => sets'[i0].blocks[v] = s.blocks[v]
  BY <1>10, <1>11 DEF Replaced
<1>13. in.evicted_dirty <=> s.blocks[w].valid # {} /\ s.blocks[w].dirty
  BY <1>7, <1>10, SignalIs
<1> HIDE DEF s
<1> QED BY <1>7, <1>10, <1>11, <1>12, <1>13 DEF s

-----------------------------------------------------------------------------
(***************************************************************************)
(* The request in flight.                                                  *)
(***************************************************************************)

\* A store makes nothing of another set out of date.
LEMMA OutdatedSetSame ==
    ASSUME NEW s \in Cache!CacheSet, NEW i, ~(Storing /\ i = inflight.addr.index)
    PROVE  OutdatedSet(s, i) = s
<1>1. s.blocks \in [Ways -> Cache!CacheBlock] /\ Ways = Cache!Ways
  BY DEF Cache!CacheSet, Ways
<1>2. ASSUME NEW w \in Ways
      PROVE  Outdated(s.blocks[w].line, [tag |-> s.blocks[w].tag, index |-> i]) = s.blocks[w].line
  <2>1. CASE Storing
    <3>1. [tag |-> s.blocks[w].tag, index |-> i] # Cache!block(inflight.addr)
      BY <2>1 DEF Cache!block
    <3> QED BY <3>1 DEF Outdated
  <2>2. CASE ~Storing
    BY <2>2 DEF Outdated
  <2> QED BY <2>1, <2>2
<1>3. OutdatedSet(s, i) =
        [s EXCEPT !.blocks =
            [w \in Cache!Ways |->
               [s.blocks[w] EXCEPT !.line =
                   Outdated(s.blocks[w].line, [tag |-> s.blocks[w].tag, index |-> i])]]]
  BY DEF OutdatedSet
<1>4. \A w \in Ways : [s.blocks[w] EXCEPT !.line = s.blocks[w].line] = s.blocks[w]
  BY <1>1 DEF Cache!CacheBlock
<1>5. [w \in Ways |->
         [s.blocks[w] EXCEPT !.line =
             Outdated(s.blocks[w].line, [tag |-> s.blocks[w].tag, index |-> i])]]
        = [w \in Ways |-> s.blocks[w]]
  BY <1>2, <1>4
<1>6. [w \in Ways |-> s.blocks[w]] = s.blocks
  BY <1>1
<1>7. OutdatedSet(s, i) = [s EXCEPT !.blocks = s.blocks]
  BY <1>1, <1>3, <1>5, <1>6
<1> QED BY <1>7 DEF Cache!CacheSet

\* A request that enters starts from the set as the array holds it after this clock.
LEMMA SetForIs ==
    ASSUME Structure, NEW in, Signal(in), NEW writes_all, NEW code, Clock(in, writes_all, code),
           Cache!can_accept_new(inflight, ud_en(in)), NEW index \in Indexes
    PROVE  set_for(index, in) = sets'[index]
<1>1. sets \in [Indexes -> Cache!CacheSet] /\ sets[index] \in Cache!CacheSet
  BY DEF Structure, TypeOK
<1>2. CASE inflight.type = "IDLE"
  <2>1. ~(Storing \/ do_fill(in) \/ Cache!read_hit(inflight))
    BY <1>2, ArrayIs DEF Storing, Cache!read_hit
  <2>2. sets' = sets
    BY <2>1, ArrayIs
  <2>3. set_for(index, in) = OutdatedSet(sets[index], index)
    BY <1>2, Zenon DEF set_for
  <2> QED BY <1>1, <2>1, <2>2, <2>3, OutdatedSetSame
<1>3. CASE inflight.type # "IDLE"
  <2>1. inflight.type \in {"LOAD", "MISS_UPDATE", "STORE"} /\ inflight.addr = latched
        /\ latched.index \in Indexes
    BY <1>3, SnapshotIs DEF Cache!Inflight
  <2>2. inflight.type = "LOAD" => Cache!read_hit(inflight)
    BY DEF Cache!can_accept_new, Cache!read_miss, Cache!read_hit
  <2>3. inflight.type = "MISS_UPDATE" => do_fill(in)
    BY Zenon DEF Cache!can_accept_new, ud_en
  <2>4. sets' = [sets EXCEPT ![latched.index] = Taken(in)]
    BY <2>1, <2>2, <2>3, ArrayIs DEF Storing
  <2>5. CASE index = latched.index
    <3>1. set_for(index, in) = Taken(in)
      BY <1>3, <2>1, <2>5, Zenon DEF set_for, Taken
    <3> QED BY <1>1, <2>1, <2>4, <2>5, <3>1
  <2>6. CASE index # latched.index
    <3>1. set_for(index, in) = OutdatedSet(sets[index], index)
      BY <2>1, <2>6, Zenon DEF set_for
    <3>2. OutdatedSet(sets[index], index) = sets[index]
      BY <1>1, <2>1, <2>6, OutdatedSetSame
    <3> QED BY <1>1, <2>1, <2>4, <2>6, <3>1, <3>2
  <2> QED BY <2>5, <2>6
<1> QED BY <1>2, <1>3

\* Where a request in flight comes from: one is accepted, a store follows its probe, and
\* a miss stays until its fill.
Missing(in) == (Probing /\ ~hit) \/ (Waiting /\ ~do_fill(in))

\* The request in flight after a clock edge, and the set it snapshots.
LEMMA InflightIs ==
    ASSUME Structure, NEW in, Signal(in), NEW writes_all, NEW code, Clock(in, writes_all, code)
    PROVE  /\ Missing(in) =>
                  /\ inflight' = [inflight EXCEPT !.type = "MISS_UPDATE"] /\ sets' = sets
                  /\ ~Accepts(in) /\ ~cache_store
           /\ ~Missing(in) /\ Accepts(in) =>
                  /\ inflight' = [type |-> "LOAD", set |-> sets'[in.addr.index],
                                  addr |-> in.addr, data |-> FALSE]
                  /\ ~cache_store
           /\ ~Missing(in) /\ cache_store =>
                  inflight' = [type |-> "STORE", set |-> sets'[latched.index],
                               addr |-> latched, data |-> full \/ old_word]
           /\ ~Missing(in) /\ ~Accepts(in) /\ ~cache_store =>
                  inflight' = Cache!NoRequest(FALSE)
<1> DEFINE free == Cache!can_accept_new(inflight, ud_en(in))
           addr == cache_address(in)
<1>1. inflight' =
        IF (Accepts(in) \/ cache_store) /\ free
        THEN [type |-> IF cache_store THEN "STORE" ELSE "LOAD",
              set  |-> set_for(addr.index, in),
              addr |-> addr,
              data |-> cache_store /\ (full \/ old_word)]
        ELSE IF Cache!read_miss(inflight)
        THEN [inflight EXCEPT !.type = "MISS_UPDATE"]
        ELSE IF inflight.type = "MISS_UPDATE" /\ ~ud_en(in)
        THEN inflight
        ELSE Cache!NoRequest(FALSE)
  BY Zenon DEF Clock, next_inflight
<1>2. (Probing <=> inflight.type = "LOAD") /\ (Waiting <=> inflight.type = "MISS_UPDATE")
  BY DEF Structure, Control
<1>3. Probing /\ ~hit <=> Cache!read_miss(inflight)
  BY <1>2 DEF hit, Cache!read_hit, Cache!read_miss
<1>4. free <=> ~Missing(in)
  BY <1>2, <1>3, Zenon DEF Cache!can_accept_new, Missing, ud_en
<1>5. cache_store => ~Accepts(in) /\ ~Probing /\ ~Waiting
  BY DEF cache_store, Accepts, core_rsp_ready, Probing, Waiting
<1>6. ASSUME Missing(in)
      PROVE  inflight' = [inflight EXCEPT !.type = "MISS_UPDATE"] /\ sets' = sets
             /\ ~Accepts(in) /\ ~cache_store
  <2>1. ~cache_store
    BY <1>5, <1>6 DEF Missing
  <2>2. ~Accepts(in)
    <3>1. CASE Probing /\ ~hit
      BY <3>1, SignalIs DEF Accepts, core_rsp_ready, Probing
    <3>2. CASE Waiting /\ ~do_fill(in)
      BY <3>2 DEF Accepts, core_rsp_ready, Waiting, do_fill
    <3> QED BY <1>6, <3>1, <3>2 DEF Missing
  <2>3. sets' = sets
    <3>1. ~Storing /\ ~do_fill(in) /\ ~Cache!read_hit(inflight)
      BY <1>2, <1>6 DEF Missing, Storing, do_fill, Probing, Waiting, hit, Cache!read_hit
    <3> QED BY <3>1, ArrayIs
  <2>4. inflight' = [inflight EXCEPT !.type = "MISS_UPDATE"]
    <3>1. CASE Cache!read_miss(inflight)
      BY <1>1, <1>4, <1>6, <3>1, Zenon
    <3>2. CASE ~Cache!read_miss(inflight)
      <4>1. Waiting /\ ~do_fill(in) /\ inflight.type = "MISS_UPDATE"
        BY <1>2, <1>3, <1>6, <3>2 DEF Missing
      <4>2. inflight' = inflight
        BY <1>1, <1>4, <1>6, <3>2, <4>1, Zenon DEF ud_en
      <4>3. inflight = [inflight EXCEPT !.type = "MISS_UPDATE"]
        BY <4>1 DEF Structure, TypeOK, Cache!Inflight
      <4> QED BY <4>2, <4>3
    <3> QED BY <3>1, <3>2
  <2> QED BY <2>1, <2>2, <2>3, <2>4
<1>7. ASSUME ~Missing(in), Accepts(in)
      PROVE  /\ inflight' = [type |-> "LOAD", set |-> sets'[in.addr.index],
                             addr |-> in.addr, data |-> FALSE]
             /\ ~cache_store
  <2>1. ~cache_store /\ addr = in.addr /\ in.addr.index \in Indexes
    BY <1>5, <1>7, SignalIs DEF cache_address, Cache!Address
  <2>2. set_for(in.addr.index, in) = sets'[in.addr.index]
    BY <1>4, <1>7, <2>1, SetForIs
  <2> HIDE DEF addr
  <2>3. inflight' = [type |-> "LOAD", set |-> set_for(in.addr.index, in), addr |-> in.addr,
                    data |-> FALSE]
    BY <1>1, <1>4, <1>7, <2>1, Zenon
  <2> QED BY <2>1, <2>2, <2>3
<1>8. ASSUME ~Missing(in), cache_store
      PROVE  inflight' = [type |-> "STORE", set |-> sets'[latched.index],
                          addr |-> latched, data |-> full \/ old_word]
  <2>1. addr = latched /\ latched.index \in Indexes
    BY <1>8 DEF cache_address, Structure, TypeOK, Cache!Address
  <2>2. set_for(latched.index, in) = sets'[latched.index]
    BY <1>4, <1>8, <2>1, SetForIs
  <2> HIDE DEF addr
  <2>3. inflight' = [type |-> "STORE", set |-> set_for(latched.index, in), addr |-> latched,
                    data |-> full \/ old_word]
    BY <1>1, <1>4, <1>8, <2>1, Zenon
  <2> QED BY <2>2, <2>3, Zenon
<1>9. ASSUME ~Missing(in), ~Accepts(in), ~cache_store PROVE inflight' = Cache!NoRequest(FALSE)
  <2>1. ~Cache!read_miss(inflight) /\ ~(inflight.type = "MISS_UPDATE" /\ ~ud_en(in))
    BY <1>2, <1>3, <1>9 DEF Missing, ud_en
  <2> QED BY <1>1, <1>9, <2>1, Zenon
<1> QED BY <1>6, <1>7, <1>8, <1>9

-----------------------------------------------------------------------------
(***************************************************************************)
(* The controller's step.                                                  *)
(***************************************************************************)

LastBeat == state = "WRITE_EVICT_WRITEBACK" /\ wb_beat = BLOCK_SIZE - 1

\* A fill pushes out a dirty line.
Evicting(in) == do_fill(in) /\ in.evicted_dirty

\* Where the controller goes: to a probe of what it accepts, to the wait of a miss, to the
\* store of a write whose block is there, to the write-back, to the word still owed.
LEMMA ControllerIs ==
    ASSUME Structure, NEW in, Signal(in), NEW writes_all, NEW code, Clock(in, writes_all, code)
    PROVE  /\ state' \in States
           /\ Accepts(in) <=> Probing'
           /\ Missing(in) <=> Waiting'
           /\ Missing(in) => (state' = "READ_WAIT_MEM_RSP" <=>
                                 state \in {"READ_CACHE_RSP", "READ_WAIT_MEM_RSP"})
           /\ state' = "WRITE_CACHE_DATA" <=>
                 \/ state = "WRITE_CACHE_RSP" /\ hit
                 \/ state = "WRITE_WAIT_MEM_RSP" /\ do_fill(in)
           /\ state' = "WRITE_EVICT_WRITEBACK" <=>
                 \/ state = "READ_WAIT_MEM_RSP" /\ Evicting(in)
                 \/ state = "WRITE_CACHE_DATA" /\ wb_pending
                 \/ state = "WRITE_EVICT_WRITEBACK" /\ ~LastBeat
           /\ state' = "READ_FWD" <=> LastBeat /\ fwd_pending
<1>1. /\ in.cancel = FALSE /\ in.mem_ready = TRUE /\ in.re \in BOOLEAN /\ in.we \in BOOLEAN
      /\ in.hit <=> hit
      /\ in.good <=> mem_rsp_good
  BY SignalIs
<1>2. state' = FSM_next_state(in)
  BY <1>1, Zenon DEF Clock, ControllerNext
<1>3. state \in States /\ (hit => Probing)
  BY ProbeIs DEF Structure, TypeOK
<1>4. Chain(in) \in {"READ_CACHE_RSP", "WRITE_CACHE_RSP", "IDLE"}
      /\ (in.re \/ in.we <=> Chain(in) # "IDLE")
  BY <1>1 DEF Chain
<1> DEFINE goal ==
           /\ state' \in States
           /\ Accepts(in) <=> Probing'
           /\ Missing(in) <=> Waiting'
           /\ Missing(in) => (state' = "READ_WAIT_MEM_RSP" <=>
                                 state \in {"READ_CACHE_RSP", "READ_WAIT_MEM_RSP"})
           /\ state' = "WRITE_CACHE_DATA" <=>
                 \/ state = "WRITE_CACHE_RSP" /\ hit
                 \/ state = "WRITE_WAIT_MEM_RSP" /\ do_fill(in)
           /\ state' = "WRITE_EVICT_WRITEBACK" <=>
                 \/ state = "READ_WAIT_MEM_RSP" /\ Evicting(in)
                 \/ state = "WRITE_CACHE_DATA" /\ wb_pending
                 \/ state = "WRITE_EVICT_WRITEBACK" /\ ~LastBeat
           /\ state' = "READ_FWD" <=> LastBeat /\ fwd_pending
<1>5. CASE state \in {"IDLE", "READ_FWD"}
  <2>1. state' = Chain(in)
    BY <1>2, <1>5 DEF FSM_next_state
  <2>2. Accepts(in) <=> in.re \/ in.we
    BY <1>1, <1>5 DEF Accepts, core_rsp_ready
  <2> QED BY <1>4, <1>5, <2>1, <2>2
        DEF Probing, Missing, Waiting, do_fill, Evicting, LastBeat, States
<1>6. CASE state = "READ_CACHE_RSP"
  <2>1. state' = IF hit THEN Chain(in) ELSE "READ_WAIT_MEM_RSP"
    BY <1>1, <1>2, <1>6 DEF FSM_next_state
  <2>2. Accepts(in) <=> hit /\ (in.re \/ in.we)
    BY <1>1, <1>6 DEF Accepts, core_rsp_ready
  <2> QED BY <1>4, <1>6, <2>1, <2>2
        DEF Probing, Missing, Waiting, do_fill, Evicting, LastBeat, States
<1>7. CASE state = "READ_WAIT_MEM_RSP"
  <2>1. state' = IF do_fill(in) THEN IF in.evicted_dirty THEN "WRITE_EVICT_WRITEBACK" ELSE Chain(in)
                 ELSE state
    BY <1>2, <1>7 DEF FSM_next_state, AfterFill, do_fill
  <2>2. Accepts(in) <=> do_fill(in) /\ ~in.evicted_dirty /\ (in.re \/ in.we)
    BY <1>1, <1>7 DEF Accepts, core_rsp_ready, do_fill
  <2> QED BY <1>4, <1>7, <2>1, <2>2
        DEF Probing, Missing, Waiting, Evicting, LastBeat, States
<1>8. CASE state \in {"WRITE_CACHE_RSP", "WRITE_WAIT_MEM_RSP", "WRITE_CACHE_DATA",
                      "WRITE_EVICT_WRITEBACK"}
  <2>1. ~Accepts(in)
    BY <1>8 DEF Accepts, core_rsp_ready
  <2>2. CASE state = "WRITE_CACHE_RSP"
    BY <1>1, <1>2, <2>1, <2>2 DEF FSM_next_state,
       Probing, Missing, Waiting, do_fill, Evicting, LastBeat, States
  <2>3. CASE state = "WRITE_WAIT_MEM_RSP"
    <3>1. state' = IF do_fill(in) THEN "WRITE_CACHE_DATA" ELSE state
      BY <1>2, <2>3 DEF FSM_next_state, do_fill
    <3> QED BY <2>1, <2>3, <3>1 DEF Probing, Missing, Waiting, Evicting, LastBeat, States
  <2>4. CASE state = "WRITE_CACHE_DATA"
    BY <1>2, <2>1, <2>4 DEF FSM_next_state,
       Probing, Missing, Waiting, do_fill, Evicting, LastBeat, States
  <2>5. CASE state = "WRITE_EVICT_WRITEBACK"
    <3>1. last_beat(in) <=> LastBeat
      BY <1>1, <2>5 DEF last_beat, do_evict_writeback, LastBeat
    <3>2. state' = IF ~LastBeat THEN state ELSE IF fwd_pending THEN "READ_FWD" ELSE "IDLE"
      BY <1>2, <2>5, <3>1 DEF FSM_next_state
    <3>3. LastBeat => state = "WRITE_EVICT_WRITEBACK"
      BY DEF LastBeat
    <3> QED BY <2>1, <2>5, <3>2, <3>3 DEF Probing, Missing, Waiting, do_fill, Evicting, States
  <2> QED BY <1>8, <2>2, <2>3, <2>4, <2>5
<1>9. state \in {"IDLE", "READ_FWD"} \/ state = "READ_CACHE_RSP" \/ state = "READ_WAIT_MEM_RSP"
      \/ state \in {"WRITE_CACHE_RSP", "WRITE_WAIT_MEM_RSP", "WRITE_CACHE_DATA",
                    "WRITE_EVICT_WRITEBACK"}
  BY <1>3 DEF States
<1> QED BY <1>5, <1>6, <1>7, <1>8, <1>9, Zenon

\* The write-back's registers.
LEMMA WritebackIs ==
    ASSUME Structure, NEW in, Signal(in), NEW writes_all, NEW code, Clock(in, writes_all, code)
    PROVE  /\ wb_pending' \in BOOLEAN /\ fwd_pending' \in BOOLEAN
           /\ wb_pending' <=> Evicting(in) \/ (wb_pending /\ ~LastBeat)
           /\ fwd_pending' <=> \/ Evicting(in) /\ state = "READ_WAIT_MEM_RSP"
                               \/ fwd_pending /\ state # "READ_FWD"
           /\ wb_beat' = IF state = "WRITE_EVICT_WRITEBACK" /\ ~LastBeat THEN wb_beat + 1
                         ELSE 0
           /\ wb_beat' \in Offsets
<1>1. in.cancel = FALSE /\ in.mem_ready = TRUE
  BY SignalIs
<1>2. last_beat(in) <=> LastBeat
  BY <1>1 DEF last_beat, do_evict_writeback, LastBeat
<1>3. ControllerNext(in)
  BY DEF Clock
<1>4. /\ wb_pending \in BOOLEAN /\ fwd_pending \in BOOLEAN /\ wb_beat \in Offsets
      /\ state # "WRITE_EVICT_WRITEBACK" => wb_beat = 0
  BY DEF Structure, TypeOK, Control
<1>5. wb_pending' = IF Evicting(in) THEN TRUE ELSE wb_pending /\ ~last_beat(in)
  BY <1>3, Zenon DEF ControllerNext, Evicting
<1>6. fwd_pending' = IF Evicting(in) /\ state = "READ_WAIT_MEM_RSP" THEN TRUE
                     ELSE fwd_pending /\ ~(state = "READ_FWD" /\ ~in.cancel)
  BY <1>3, Zenon DEF ControllerNext, Evicting
<1>7. wb_beat' = IF state = "WRITE_EVICT_WRITEBACK" THEN (wb_beat + 1) % BLOCK_SIZE ELSE wb_beat
  BY <1>1, <1>3, Zenon DEF ControllerNext, do_evict_writeback
<1>8. wb_pending' \in BOOLEAN /\ (wb_pending' <=> Evicting(in) \/ (wb_pending /\ ~LastBeat))
  BY <1>2, <1>5
<1>9. /\ fwd_pending' \in BOOLEAN
      /\ fwd_pending' <=> \/ Evicting(in) /\ state = "READ_WAIT_MEM_RSP"
                          \/ fwd_pending /\ state # "READ_FWD"
  BY <1>1, <1>6
<1>10. /\ wb_beat' = IF state = "WRITE_EVICT_WRITEBACK" /\ ~LastBeat THEN wb_beat + 1 ELSE 0
       /\ wb_beat' \in Offsets
  <2>1. BLOCK_SIZE \in Nat \ {0} /\ wb_beat \in 0 .. BLOCK_SIZE - 1
    BY <1>4, DataCacheAssumption DEF Offsets
  <2>2. wb_beat # BLOCK_SIZE - 1 => (wb_beat + 1) % BLOCK_SIZE = wb_beat + 1
    BY <2>1
  <2>3. wb_beat = BLOCK_SIZE - 1 => (wb_beat + 1) % BLOCK_SIZE = 0
    BY <2>1
  <2>4. wb_beat' = IF state = "WRITE_EVICT_WRITEBACK" /\ ~LastBeat THEN wb_beat + 1 ELSE 0
    BY <1>4, <1>7, <2>2, <2>3 DEF LastBeat
  <2> QED BY <2>1, <2>4 DEF Offsets, LastBeat
<1> QED BY <1>8, <1>9, <1>10

\* The latched address changes only with an accepted request.
LEMMA LatchedIs ==
    ASSUME Structure, NEW in, Signal(in), NEW writes_all, NEW code, Clock(in, writes_all, code)
    PROVE  /\ latched' = IF Accepts(in) THEN in.addr ELSE latched
           /\ latched' \in Cache!Address
<1>1. latched' = IF Accepts(in) THEN in.addr ELSE latched
  BY Zenon DEF Clock, ControllerNext
<1> QED BY <1>1, SignalIs DEF Structure, TypeOK

\* Only a fill changes which ways hold a block.
LEMMA HoldsIs ==
    ASSUME Structure, NEW in, Signal(in), NEW writes_all, NEW code, Clock(in, writes_all, code)
    PROVE  /\ sets' \in [Indexes -> Cache!CacheSet]
           /\ \A i \in Indexes : SetOK(sets'[i])
           /\ ~do_fill(in) =>
                 \A b \in Cache!Block : Holding(sets'[b.index], b.tag) = WaysOf(b)
           /\ do_fill(in) => Holding(sets'[latched.index], latched.tag) # {}
<1>1. CASE Storing
  <2>1. ~do_fill(in)
    BY <1>1, ArrayIs
  <2>2. /\ sets' \in [Indexes -> Cache!CacheSet] /\ \A i \in Indexes : SetOK(sets'[i])
        /\ \A i \in Indexes : i # latched.index => sets'[i] = sets[i]
        /\ \A t : Holding(sets'[latched.index], t) = Holding(sets[latched.index], t)
    BY <1>1, ArrayStore
  <2>3. ASSUME NEW b \in Cache!Block PROVE Holding(sets'[b.index], b.tag) = WaysOf(b)
    <3>1. WaysOf(b) = Holding(sets[b.index], b.tag) /\ b.index \in Indexes
      BY WaysAt DEF Cache!Block
    <3> QED BY <2>2, <3>1
  <2> QED BY <2>1, <2>2, <2>3
<1>2. CASE do_fill(in)
  BY <1>2, ArrayFill
<1>3. CASE ~Storing /\ ~do_fill(in)
  <2>1. /\ sets' \in [Indexes -> Cache!CacheSet]
        /\ \A i \in Indexes : SetOK(sets'[i]) /\ sets'[i].blocks = sets[i].blocks
    BY <1>3, ArrayQuiet
  <2>2. ASSUME NEW b \in Cache!Block PROVE Holding(sets'[b.index], b.tag) = WaysOf(b)
    <3>1. WaysOf(b) = Holding(sets[b.index], b.tag) /\ b.index \in Indexes
      BY WaysAt DEF Cache!Block
    <3> QED BY <2>1, <3>1 DEF Holding
  <2> QED BY <1>3, <2>1, <2>2
<1> QED BY <1>1, <1>2, <1>3

\* The idle request is a request.
LEMMA NoRequestTyped == Cache!NoRequest(FALSE) \in Cache!Inflight
<1>1. [w \in Ways |-> 0] \in [Ways -> 0 .. WAYS]
  BY WaysAre
<1>2. [dirty |-> FALSE, valid |-> {}, tag |-> 0, line |-> [o \in Offsets |-> FALSE]]
        \in Cache!CacheBlock
  BY DataCacheAssumption DEF Cache!CacheBlock, Cache!Line
<1>3. Cache!EmptySet(FALSE) \in Cache!CacheSet
  BY <1>1, <1>2 DEF Cache!EmptySet, Cache!CacheSet, Cache!Metadata, Ways
<1>4. [tag |-> 0, index |-> 0, offset |-> 0] \in Cache!Address
  BY DataCacheAssumption, OffsetsAre DEF Cache!Address
<1> QED BY <1>3, <1>4 DEF Cache!NoRequest, Cache!Inflight

\* The request after a clock, by what the controller does next.
LEMMA InflightKeeps ==
    ASSUME Structure, NEW in, Signal(in), NEW writes_all, NEW code, Clock(in, writes_all, code)
    PROVE  /\ inflight' \in Cache!Inflight
           /\ Probing' <=> inflight'.type = "LOAD"
           /\ Waiting' <=> inflight'.type = "MISS_UPDATE"
           /\ Storing' <=> cache_store
           /\ Storing' => inflight'.data = (full \/ old_word)
           /\ inflight'.type # "IDLE" =>
                  inflight'.addr = latched' /\ inflight'.set = sets'[inflight'.addr.index]
<1>1. /\ sets' \in [Indexes -> Cache!CacheSet] /\ inflight \in Cache!Inflight
      /\ in.addr \in Cache!Address /\ in.addr.index \in Indexes
      /\ latched \in Cache!Address /\ latched.index \in Indexes
      /\ full \in BOOLEAN /\ old_word \in BOOLEAN
  BY HoldsIs, SignalIs DEF Structure, TypeOK, Cache!Address
<1>2. latched' = IF Accepts(in) THEN in.addr ELSE latched
  BY LatchedIs
<1>3. (Accepts(in) <=> Probing') /\ (Missing(in) <=> Waiting') /\ (Storing' <=> inflight'.type = "STORE")
  BY ControllerIs DEF Storing
<1>4. CASE Missing(in)
  <2>1. /\ inflight' = [inflight EXCEPT !.type = "MISS_UPDATE"] /\ sets' = sets
        /\ ~Accepts(in) /\ ~cache_store
    BY <1>4, InflightIs
  <2>2. inflight.type # "IDLE"
    BY <1>4 DEF Missing, Structure, Control
  <2>3. inflight.addr = latched /\ inflight.set = sets[latched.index]
    BY <2>2, SnapshotIs
  <2>4. /\ inflight'.type = "MISS_UPDATE" /\ inflight'.addr = latched
        /\ inflight'.set = sets[latched.index] /\ inflight' \in Cache!Inflight
    BY <1>1, <2>1, <2>3 DEF Cache!Inflight
  <2> QED BY <1>2, <1>3, <1>4, <2>1, <2>4
<1>5. CASE ~Missing(in) /\ Accepts(in)
  <2>1. /\ inflight' = [type |-> "LOAD", set |-> sets'[in.addr.index],
                        addr |-> in.addr, data |-> FALSE]
        /\ ~cache_store
    BY <1>5, InflightIs
  <2>2. /\ inflight'.type = "LOAD" /\ inflight'.addr = in.addr
        /\ inflight'.set = sets'[in.addr.index] /\ inflight' \in Cache!Inflight
    BY <1>1, <2>1 DEF Cache!Inflight
  <2> QED BY <1>2, <1>3, <1>5, <2>1, <2>2
<1>6. CASE ~Missing(in) /\ cache_store
  <2> DEFINE word == full \/ old_word
  <2>1. inflight' = [type |-> "STORE", set |-> sets'[latched.index],
                     addr |-> latched, data |-> word]
    BY <1>6, InflightIs
  <2>2. ~Accepts(in)
    BY <1>6 DEF cache_store, Accepts, core_rsp_ready
  <2>3. word \in BOOLEAN
    OBVIOUS
  <2> HIDE DEF word
  <2>4. /\ inflight'.type = "STORE" /\ inflight'.addr = latched /\ inflight'.data = word
        /\ inflight'.set = sets'[latched.index] /\ inflight' \in Cache!Inflight
    BY <1>1, <2>1, <2>3 DEF Cache!Inflight
  <2>5. inflight'.data = (full \/ old_word)
    BY <2>4, Zenon DEF word
  <2> QED BY <1>2, <1>3, <1>6, <2>2, <2>4, <2>5
<1>7. CASE ~Missing(in) /\ ~Accepts(in) /\ ~cache_store
  <2>1. inflight' = Cache!NoRequest(FALSE)
    BY <1>7, InflightIs
  <2>2. inflight'.type = "IDLE" /\ inflight' \in Cache!Inflight
    BY <2>1, NoRequestTyped DEF Cache!NoRequest
  <2> QED BY <1>3, <1>7, <2>2
<1> QED BY <1>4, <1>5, <1>6, <1>7

\* A clock edge keeps the state machine, the FIFO and the victim buffer in step.
LEMMA ControlKeeps ==
    ASSUME Structure, NEW in, Signal(in), NEW writes_all, NEW code, Clock(in, writes_all, code)
    PROVE  Control'
<1> DEFINE Write == state = "WRITE_EVICT_WRITEBACK"
<1>1. /\ Probing' <=> inflight'.type = "LOAD"
      /\ Waiting' <=> inflight'.type = "MISS_UPDATE"
      /\ inflight'.type # "IDLE" => inflight'.addr = latched'
      /\ Storing' <=> cache_store
  BY InflightKeeps
<1>2. /\ state' \in States
      /\ Accepts(in) <=> Probing'
      /\ Missing(in) <=> Waiting'
      /\ state' = "WRITE_CACHE_DATA" <=>
            \/ state = "WRITE_CACHE_RSP" /\ hit
            \/ state = "WRITE_WAIT_MEM_RSP" /\ do_fill(in)
      /\ state' = "WRITE_EVICT_WRITEBACK" <=>
            \/ state = "READ_WAIT_MEM_RSP" /\ Evicting(in)
            \/ state = "WRITE_CACHE_DATA" /\ wb_pending
            \/ state = "WRITE_EVICT_WRITEBACK" /\ ~LastBeat
      /\ state' = "READ_FWD" <=> LastBeat /\ fwd_pending
  BY ControllerIs
<1>3. /\ wb_pending' <=> Evicting(in) \/ (wb_pending /\ ~LastBeat)
      /\ fwd_pending' <=> \/ Evicting(in) /\ state = "READ_WAIT_MEM_RSP"
                          \/ fwd_pending /\ state # "READ_FWD"
      /\ wb_beat' = IF state = "WRITE_EVICT_WRITEBACK" /\ ~LastBeat THEN wb_beat + 1 ELSE 0
  BY WritebackIs
<1>4. /\ wb_pending => state \in {"WRITE_CACHE_DATA", "WRITE_EVICT_WRITEBACK"}
      /\ state = "WRITE_EVICT_WRITEBACK" => wb_pending
      /\ fwd_pending => state \in {"READ_FWD", "WRITE_EVICT_WRITEBACK"}
  BY DEF Structure, Control
<1>5. /\ LastBeat => state = "WRITE_EVICT_WRITEBACK"
      /\ Evicting(in) => do_fill(in)
      /\ do_fill(in) => state \in {"READ_WAIT_MEM_RSP", "WRITE_WAIT_MEM_RSP"}
  BY DEF LastBeat, Evicting, do_fill
<1>6. wb_pending' => state' \in {"WRITE_CACHE_DATA", "WRITE_EVICT_WRITEBACK"}
  BY <1>2, <1>3, <1>4, <1>5
<1>7. state' = "WRITE_EVICT_WRITEBACK" => wb_pending'
  BY <1>2, <1>3, <1>4, <1>5
<1>8. Storing' => state' \in {"IDLE", "WRITE_EVICT_WRITEBACK"}
  <2>1. ASSUME state = "WRITE_CACHE_DATA" PROVE state' \in {"IDLE", "WRITE_EVICT_WRITEBACK"}
    BY <1>2, <1>5, <2>1 DEF States, Accepts, core_rsp_ready, Probing, Missing, Waiting
  <2> QED BY <1>1, <2>1 DEF cache_store
<1>9. state' # "WRITE_EVICT_WRITEBACK" => wb_beat' = 0
  BY <1>2, <1>3
<1>10. state' = "READ_FWD" => fwd_pending'
  BY <1>2, <1>3, <1>5
<1>11. fwd_pending' => state' \in {"READ_FWD", "WRITE_EVICT_WRITEBACK"}
  BY <1>2, <1>3, <1>4, <1>5
<1> QED BY <1>1, <1>6, <1>7, <1>8, <1>9, <1>10, <1>11 DEF Control

\* A clock edge keeps the block of a waiting miss out of the array.
LEMMA PresentKeeps ==
    ASSUME Structure, NEW in, Signal(in), NEW writes_all, NEW code, Clock(in, writes_all, code)
    PROVE  Present'
<1> DEFINE b == Cache!block(latched)
<1>1. b \in Cache!Block /\ b.index = latched.index /\ b.tag = latched.tag
  BY DEF Structure, TypeOK, Cache!block, Cache!Block, Cache!Address
<1>2. ~do_fill(in) => Holding(sets'[b.index], b.tag) = WaysOf(b)
  BY <1>1, HoldsIs
<1>3. do_fill(in) => Holding(sets'[b.index], b.tag) # {}
  BY <1>1, HoldsIs
<1>4. latched' = latched => WaysOf(Cache!block(latched))' = Holding(sets'[b.index], b.tag)
  <2>1. WaysOf(Cache!block(latched))' = {w \in Ways : sets'[(Cache!block(latched))'.index].blocks[w].valid # {}
             /\ sets'[(Cache!block(latched))'.index].blocks[w].tag = (Cache!block(latched))'.tag}
    BY Zenon DEF WaysOf, Ways
  <2>2. latched' = latched => (Cache!block(latched))' = b
    BY DEF Cache!block
  <2> QED BY <2>1, <2>2 DEF Holding
<1> HIDE DEF b
<1>5. latched' = IF Accepts(in) THEN in.addr ELSE latched
  BY LatchedIs
<1>6. ASSUME Waiting' PROVE WaysOf(Cache!block(latched))' = {}
  <2>1. Missing(in) /\ ~Accepts(in)
    BY <1>6, ControllerIs DEF Waiting, Probing
  <2>2. ~do_fill(in)
    BY <2>1 DEF Missing, do_fill, Probing
  <2>3. WaysOf(b) = {}
    <3>1. CASE Probing /\ ~hit
      BY <3>1, ProbeIs DEF b
    <3>2. CASE Waiting
      BY <3>2 DEF Structure, Present, b
    <3> QED BY <2>1, <3>1, <3>2 DEF Missing
  <2> QED BY <1>2, <1>4, <1>5, <2>1, <2>2, <2>3
<1>7. ASSUME Storing' PROVE WaysOf(Cache!block(latched))' # {}
  <2>1. cache_store
    BY <1>7, InflightKeeps
  <2>2. ~do_fill(in) /\ ~Accepts(in)
    BY <2>1 DEF cache_store, do_fill, Accepts, core_rsp_ready
  <2>3. WaysOf(b) # {}
    BY <2>1 DEF cache_store, Structure, Present, b
  <2> QED BY <1>2, <1>4, <1>5, <2>2, <2>3
<1>8. ASSUME state' = "WRITE_CACHE_DATA" PROVE WaysOf(Cache!block(latched))' # {}
  <2>1. ~Accepts(in)
    BY <1>8, ControllerIs DEF Probing
  <2>2. CASE do_fill(in)
    BY <1>3, <1>4, <1>5, <2>1, <2>2
  <2>3. CASE ~do_fill(in)
    <3>1. hit
      BY <1>8, <2>3, ControllerIs
    <3>2. WaysOf(b) # {}
      BY <3>1, ProbeIs DEF b
    <3> QED BY <1>2, <1>4, <1>5, <2>1, <2>3, <3>2
  <2> QED BY <2>2, <2>3
<1> QED BY <1>6, <1>7, <1>8 DEF Present

-----------------------------------------------------------------------------
(***************************************************************************)
(* The structure is kept: types, control, sets and presence.               *)
(***************************************************************************)

\* A line that a victim outdates is a line.
LEMMA OutdatedTyped ==
    ASSUME Structure, NEW line \in Cache!Line, NEW b
    PROVE  Outdated(line, b) \in Cache!Line
BY DEF Outdated, Cache!Line

\* What memory answers is an answer.
LEMMA ReadTyped ==
    ASSUME Structure, NEW b \in Cache!Block
    PROVE  Read(b) \in Answer
<1>1. memory[b] \in Cache!Line
  BY DEF Structure, TypeOK
<1>2. Outdated(memory[b], b) \in Cache!Line
  BY <1>1, OutdatedTyped
<1> QED BY <1>2 DEF Read, Answer

\* What is put on the delay line, and what moves along it.
LEMMA DelayIs ==
    ASSUME Structure, NEW in, Signal(in), NEW writes_all, NEW code \in CodeRequests,
           Clock(in, writes_all, code)
    PROVE  /\ DELAY \in Nat \ {0} /\ delay' \in [1 .. DELAY -> Answer]
           /\ \A i \in 1 .. DELAY : i > 1 =>
                 /\ i - 1 \in 1 .. DELAY
                 /\ delay'[i].valid = delay[i - 1].valid /\ delay'[i].addr = delay[i - 1].addr
                 /\ delay'[i].line = Outdated(delay[i - 1].line, delay[i - 1].addr)
           /\ delay'[1].valid =>
                 \/ Missing(in) /\ Probing /\ delay'[1] = Read(Cache!block(latched))
                 \/ /\ ~Missing(in) \/ ~Probing
                    /\ state # "WRITE_EVICT_WRITEBACK"
                    /\ \E b \in CodeBlocks : delay'[1] = Read(b)
<1>1. DELAY \in Nat \ {0} /\ CodeBlocks \subseteq Cache!Block
      /\ delay \in [1 .. DELAY -> Answer]
  BY DataCacheAssumption DEF Structure, TypeOK
<1>2. delay' = next_delay(in, code)
  BY DEF Clock
<1>3. ASSUME NEW i \in 1 .. DELAY, i > 1
      PROVE  delay'[i] = [delay[i - 1] EXCEPT !.line = Outdated(@, delay[i - 1].addr)]
  BY <1>2, <1>3 DEF next_delay
<1>4. delay'[1] = IF mem_bus_request(in) THEN Read(Cache!block(latched))
                  ELSE IF choose_d_cache(in) \/ code = {} THEN NoAnswer
                  ELSE Read(CHOOSE b \in code : TRUE)
  BY <1>1, <1>2 DEF next_delay
<1>5. ASSUME NEW i \in 1 .. DELAY, i > 1
      PROVE  /\ i - 1 \in 1 .. DELAY /\ delay'[i] \in Answer
             /\ delay'[i].valid = delay[i - 1].valid /\ delay'[i].addr = delay[i - 1].addr
             /\ delay'[i].line = Outdated(delay[i - 1].line, delay[i - 1].addr)
  <2> DEFINE d == delay[i - 1]
             line == Outdated(d.line, d.addr)
  <2>1. i - 1 \in 1 .. DELAY
    BY <1>1, <1>5
  <2>2. d \in Answer
    BY <1>1, <2>1
  <2>3. line \in Cache!Line
    <3>1. d.line \in Cache!Line
      BY <2>2 DEF Answer
    <3> QED BY <3>1, OutdatedTyped
  <2>4. delay'[i] = [d EXCEPT !.line = line]
    BY <1>3, <1>5
  <2> HIDE DEF line
  <2>5. /\ delay'[i] \in Answer
        /\ delay'[i].valid = d.valid /\ delay'[i].addr = d.addr /\ delay'[i].line = line
    BY <2>2, <2>3, <2>4 DEF Answer
  <2> QED BY <2>1, <2>5 DEF line
<1>6. mem_bus_request(in) <=> Missing(in) /\ Probing
  <2>1. in.cancel = FALSE /\ (in.hit <=> hit)
    BY SignalIs
  <2> QED BY <2>1 DEF mem_bus_request, Missing, Probing, Waiting
<1>7. choose_d_cache(in) <=> (Missing(in) /\ Probing) \/ state = "WRITE_EVICT_WRITEBACK"
  BY <1>6 DEF choose_d_cache, do_evict_writeback
<1>8. code # {} => (CHOOSE b \in code : TRUE) \in CodeBlocks
  BY DEF CodeRequests
<1>9. Cache!block(latched) \in Cache!Block
  BY DEF Structure, TypeOK, Cache!block, Cache!Block, Cache!Address
<1>10. NoAnswer \in Answer /\ ~NoAnswer.valid
  <2>1. zero_block \in Cache!Block
    BY DataCacheAssumption DEF zero_block, Cache!Block
  <2> QED BY <2>1 DEF NoAnswer, Answer, Cache!Line
<1>11. delay'[1] \in Answer
  BY <1>1, <1>4, <1>7, <1>8, <1>9, <1>10, ReadTyped, Zenon
<1>12. delay'[1].valid =>
          \/ Missing(in) /\ Probing /\ delay'[1] = Read(Cache!block(latched))
          \/ /\ ~Missing(in) \/ ~Probing
             /\ state # "WRITE_EVICT_WRITEBACK"
             /\ \E b \in CodeBlocks : delay'[1] = Read(b)
  <2>1. CASE Missing(in) /\ Probing
    BY <1>4, <1>6, <2>1, Zenon
  <2>2. CASE ~(Missing(in) /\ Probing)
    <3>1. CASE choose_d_cache(in) \/ code = {}
      BY <1>4, <1>6, <1>10, <2>2, <3>1, Zenon
    <3>2. CASE ~(choose_d_cache(in) \/ code = {})
      BY <1>4, <1>6, <1>7, <1>8, <2>2, <3>2, Zenon
    <3> QED BY <3>1, <3>2
  <2> QED BY <2>1, <2>2
<1>13. \A i \in 1 .. DELAY : delay'[i] \in Answer
  <2>1. \A i \in 1 .. DELAY : i = 1 \/ i > 1
    BY <1>1
  <2> QED BY <1>5, <1>11, <2>1
<1>14. delay' \in [1 .. DELAY -> Answer]
  <2>1. delay' = [i \in 1 .. DELAY |-> delay'[i]]
    BY <1>2, Zenon DEF next_delay
  <2> QED BY <1>13, <2>1
<1> QED BY <1>1, <1>5, <1>12, <1>14

\* The word a hit finds.
LEMMA ReadDataIs ==
    ASSUME Structure, hit
    PROVE  \E w \in WaysOf(Cache!block(latched)) :
              Cache!read_data(inflight) = sets[latched.index].blocks[w].line[latched.offset]
<1>1. inflight.type = "LOAD" /\ inflight.type # "IDLE" /\ Cache!way_block_hit(inflight) # {}
  BY DEF hit, Cache!read_hit
<1>2. /\ inflight.addr = latched /\ latched.offset \in Offsets
      /\ inflight.set = sets[latched.index] /\ SetOK(sets[latched.index])
      /\ Holding(sets[latched.index], latched.tag) = WaysOf(Cache!block(latched))
  BY <1>1, SnapshotIs
<1>3. Cache!way_block_hit(inflight) = WaysOf(Cache!block(latched))
  BY <1>2, HitIs
<1> DEFINE w == CHOOSE w \in Cache!way_block_hit(inflight) : TRUE
<1>4. w \in Cache!way_block_hit(inflight)
  BY <1>1
<1>5. Cache!read_data(inflight) = sets[latched.index].blocks[w].line[latched.offset]
  BY <1>2, Zenon DEF Cache!read_data
<1> QED BY <1>3, <1>4, <1>5

\* What a way holds is a block with a line.
LEMMA LineTyped ==
    ASSUME Structure, NEW i \in Indexes, NEW w \in Ways
    PROVE  sets[i].blocks[w] \in Cache!CacheBlock /\ sets[i].blocks[w].line \in Cache!Line
<1>1. sets[i] \in Cache!CacheSet
  BY DEF Structure, TypeOK
<1>2. sets[i].blocks[w] \in Cache!CacheBlock
  BY <1>1 DEF Cache!CacheSet, Ways
<1> QED BY <1>2 DEF Cache!CacheBlock

\* The words read and filled are words.
LEMMA WordsTyped ==
    ASSUME Structure
    PROVE  /\ fill_word \in BOOLEAN
           /\ hit => Cache!read_data(inflight) \in BOOLEAN
<1>1. /\ latched.offset \in Offsets /\ latched.index \in Indexes /\ old_word \in BOOLEAN
      /\ delay[DELAY] \in Answer
  BY DataCacheAssumption DEF Structure, TypeOK, Cache!Address
<1>2. fill_word \in BOOLEAN
  BY <1>1 DEF fill_word, mem_rsp, Answer, Cache!Line
<1>3. ASSUME hit PROVE Cache!read_data(inflight) \in BOOLEAN
  <2>1. PICK w \in WaysOf(Cache!block(latched)) :
            Cache!read_data(inflight) = sets[latched.index].blocks[w].line[latched.offset]
    BY <1>3, ReadDataIs
  <2>2. w \in Ways
    BY DEF WaysOf, Ways
  <2>3. sets[latched.index].blocks[w].line \in Cache!Line
    BY <1>1, <2>2, LineTyped
  <2> QED BY <1>1, <2>1, <2>3 DEF Cache!Line
<1> QED BY <1>2, <1>3

\* What a cycle adds to the responses: a word for a hit, a forwarded fill or the word owed.
LEMMA ResponsesAre ==
    ASSUME Structure, NEW in, Signal(in), NEW writes_all, NEW code, Clock(in, writes_all, code)
    PROVE  /\ rsp_fifo' \in Seq(BOOLEAN)
           /\ \A n \in DOMAIN rsp_fifo' :
                 \/ n + 1 \in DOMAIN rsp_fifo /\ rsp_fifo'[n] = rsp_fifo[n + 1]
                 \/ fifo_enable(in) /\ rsp_fifo'[n] = rsp_word
           /\ Len(rsp_fifo') = (IF rsp_fifo = <<>> THEN 0 ELSE Len(rsp_fifo) - 1)
                               + (IF fifo_enable(in) /\ Len(rsp_fifo) < 2 THEN 1 ELSE 0)
           /\ fifo_enable(in) =>
                 /\ state = "READ_CACHE_RSP" => hit
                 /\ state = "READ_WAIT_MEM_RSP" => do_fill(in) /\ ~in.evicted_dirty
                 /\ state \in {"READ_CACHE_RSP", "READ_WAIT_MEM_RSP", "READ_FWD"}
<1> DEFINE rest == IF rsp_fifo = <<>> THEN rsp_fifo ELSE Tail(rsp_fifo)
           enq == IF fifo_enable(in) THEN <<rsp_word>> ELSE <<>>
<1>1. rsp_fifo \in Seq(BOOLEAN) /\ old_word \in BOOLEAN
  BY DEF Structure, TypeOK
<1>2. rsp_fifo' = IF Len(rsp_fifo) < 2 THEN rest \o enq ELSE rest
  BY DEF Clock, Fifo!FifoNext, Fifo!Fits, RSP_FIFO_ELEMENTS
<1>3. fifo_enable(in) =>
         /\ state = "READ_CACHE_RSP" => hit
         /\ state = "READ_WAIT_MEM_RSP" => do_fill(in) /\ ~in.evicted_dirty
         /\ state \in {"READ_CACHE_RSP", "READ_WAIT_MEM_RSP", "READ_FWD"}
  BY SignalIs DEF fifo_enable, do_fill
<1>4. ASSUME fifo_enable(in) PROVE rsp_word \in BOOLEAN
  <2>1. CASE state = "READ_CACHE_RSP"
    BY <1>3, <1>4, <2>1, WordsTyped DEF rsp_word
  <2>2. CASE state = "READ_WAIT_MEM_RSP"
    BY <1>3, <1>4, <2>2, WordsTyped DEF rsp_word
  <2>3. CASE state = "READ_FWD"
    BY <1>1, <2>3 DEF rsp_word
  <2> QED BY <1>3, <1>4, <2>1, <2>2, <2>3
<1>5. /\ rest \in Seq(BOOLEAN)
      /\ Len(rest) = IF rsp_fifo = <<>> THEN 0 ELSE Len(rsp_fifo) - 1
      /\ \A n \in 1 .. Len(rest) : n + 1 \in 1 .. Len(rsp_fifo) /\ rest[n] = rsp_fifo[n + 1]
  <2>1. CASE rsp_fifo = <<>>
    BY <2>1
  <2>2. CASE rsp_fifo # <<>>
    <3>1. /\ Tail(rsp_fifo) \in Seq(BOOLEAN) /\ Len(Tail(rsp_fifo)) = Len(rsp_fifo) - 1
          /\ \A n \in 1 .. Len(Tail(rsp_fifo)) : Tail(rsp_fifo)[n] = rsp_fifo[n + 1]
      BY <1>1, <2>2
    <3>2. \A n \in 1 .. Len(rsp_fifo) - 1 : n + 1 \in 1 .. Len(rsp_fifo)
      BY <1>1
    <3> QED BY <2>2, <3>1, <3>2
  <2> QED BY <2>1, <2>2
<1>6. CASE ~(fifo_enable(in) /\ Len(rsp_fifo) < 2)
  <2>1. rsp_fifo' = rest
    <3>1. ASSUME ~fifo_enable(in) PROVE rest \o enq = rest
      <4>1. enq = <<>>
        BY <3>1
      <4> HIDE DEF rest, enq
      <4> QED BY <1>5, <4>1
    <3> QED BY <1>2, <1>6, <3>1
  <2> HIDE DEF rest
  <2>2. /\ rsp_fifo' \in Seq(BOOLEAN)
        /\ \A n \in DOMAIN rsp_fifo' : n + 1 \in DOMAIN rsp_fifo /\ rsp_fifo'[n] = rsp_fifo[n + 1]
    BY <1>1, <1>5, <2>1
  <2>3. Len(rsp_fifo') = (IF rsp_fifo = <<>> THEN 0 ELSE Len(rsp_fifo) - 1) + 0
    BY <1>1, <1>5, <2>1
  <2> QED BY <1>3, <1>6, <2>2, <2>3
<1>7. CASE fifo_enable(in) /\ Len(rsp_fifo) < 2
  <2> DEFINE x == rsp_word
  <2>1. enq = <<x>> /\ x \in BOOLEAN
    BY <1>4, <1>7
  <2>2. rsp_fifo' = rest \o <<x>>
    BY <1>2, <1>7, <2>1
  <2> HIDE DEF rest, x, enq
  <2>3. /\ rsp_fifo' \in Seq(BOOLEAN) /\ Len(rsp_fifo') = Len(rest) + 1
        /\ \A n \in 1 .. Len(rest) : rsp_fifo'[n] = rest[n]
        /\ rsp_fifo'[Len(rest) + 1] = x
    BY <1>5, <2>1, <2>2
  <2>4. ASSUME NEW n \in DOMAIN rsp_fifo'
        PROVE  \/ n + 1 \in DOMAIN rsp_fifo /\ rsp_fifo'[n] = rsp_fifo[n + 1]
               \/ rsp_fifo'[n] = x
    <3>1. n \in 1 .. Len(rest) \/ n = Len(rest) + 1
      BY <1>5, <2>3
    <3> QED BY <1>1, <1>5, <2>3, <3>1
  <2>5. Len(rsp_fifo') = (IF rsp_fifo = <<>> THEN 0 ELSE Len(rsp_fifo) - 1) + 1
    BY <1>5, <2>3
  <2>6. fifo_enable(in) => \A n \in DOMAIN rsp_fifo' :
                 \/ n + 1 \in DOMAIN rsp_fifo /\ rsp_fifo'[n] = rsp_fifo[n + 1]
                 \/ fifo_enable(in) /\ rsp_fifo'[n] = rsp_word
    BY <2>4 DEF x
  <2> QED BY <1>3, <1>7, <2>3, <2>5, <2>6
<1> QED BY <1>6, <1>7

\* A clock edge leaves every variable with its type.
LEMMA TypesKeep ==
    ASSUME Structure, NEW in, Signal(in), NEW writes_all \in BOOLEAN, NEW code \in CodeRequests,
           Clock(in, writes_all, code)
    PROVE  TypeOK'
<1>1. full' \in BOOLEAN
  <2>1. full' = IF Accepts(in) THEN writes_all ELSE full
    BY DEF Clock
  <2> QED BY <2>1 DEF Structure, TypeOK
<1>2. old_word' \in BOOLEAN
  <2>1. old_word' = old_word_next(in)
    BY DEF Clock
  <2>2. old_word \in BOOLEAN /\ fill_word \in BOOLEAN
        /\ (hit => Cache!read_data(inflight) \in BOOLEAN)
    BY WordsTyped DEF Structure, TypeOK
  <2> QED BY <2>1, <2>2 DEF old_word_next
<1>3. evicted' \in [addr : Cache!Block, line : Cache!Line]
  <2>1. evicted' = next_evicted(in) /\ evicted \in [addr : Cache!Block, line : Cache!Line]
    BY DEF Clock, Structure, TypeOK
  <2>2. CASE do_fill(in) /\ in.evicted_dirty
    <3> DEFINE addr == Cache!evicted_addr(inflight, TRUE)
               line == Cache!evicted_line(inflight, TRUE)
    <3>1. PICK w \in Ways :
             /\ addr = [tag |-> sets[latched.index].blocks[w].tag, index |-> latched.index]
             /\ line = sets[latched.index].blocks[w].line
      BY <2>2, ArrayFill
    <3>2. latched.index \in Indexes
      BY DEF Structure, TypeOK, Cache!Address
    <3>3. /\ sets[latched.index].blocks[w].tag \in Tags
          /\ sets[latched.index].blocks[w].line \in Cache!Line
      BY <3>2, LineTyped DEF Cache!CacheBlock
    <3>4. evicted' = [addr |-> addr, line |-> line]
      BY <2>1, <2>2, Zenon DEF next_evicted
    <3> HIDE DEF addr, line
    <3>5. addr \in Cache!Block
      BY <3>1, <3>2, <3>3 DEF Cache!Block
    <3> QED BY <3>1, <3>3, <3>4, <3>5
  <2>3. CASE ~(do_fill(in) /\ in.evicted_dirty)
    <3> DEFINE line == Outdated(evicted.line, evicted.addr)
    <3>1. line \in Cache!Line
      BY <2>1, OutdatedTyped
    <3>2. evicted' = [evicted EXCEPT !.line = line]
      BY <2>1, <2>3 DEF next_evicted
    <3> HIDE DEF line
    <3> QED BY <2>1, <3>1, <3>2
  <2> QED BY <2>2, <2>3
<1>4. memory' \in [Cache!Block -> Cache!Line]
  <2>1. memory' = next_memory /\ memory \in [Cache!Block -> Cache!Line]
    BY DEF Clock, Structure, TypeOK
  <2>2. evicted.line \in Cache!Line /\ wb_beat \in Offsets
    BY DEF Structure, TypeOK
  <2>3. \A b \in Cache!Block : Outdated(memory[b], b) \in Cache!Line
    BY <2>1, OutdatedTyped
  <2>4. \A b \in Cache!Block : [Outdated(memory[b], b) EXCEPT ![wb_beat] = evicted.line[wb_beat]]
                                   \in Cache!Line
    BY <2>2, <2>3 DEF Cache!Line
  <2> QED BY <2>1, <2>3, <2>4 DEF next_memory
<1>5. delay' \in [1 .. DELAY -> Answer]
  BY DelayIs
<1>6. /\ state' \in States /\ latched' \in Cache!Address
      /\ wb_pending' \in BOOLEAN /\ fwd_pending' \in BOOLEAN /\ wb_beat' \in Offsets
      /\ sets' \in [Indexes -> Cache!CacheSet] /\ inflight' \in Cache!Inflight
      /\ rsp_fifo' \in Seq(BOOLEAN)
  BY ControllerIs, LatchedIs, WritebackIs, HoldsIs, InflightKeeps, ResponsesAre
<1> QED BY <1>1, <1>2, <1>3, <1>4, <1>5, <1>6 DEF TypeOK

\* Structure is inductive over clock edges.
LEMMA StructureKeeps ==
    ASSUME Structure, NEW in, Signal(in), NEW writes_all \in BOOLEAN, NEW code \in CodeRequests,
           Clock(in, writes_all, code)
    PROVE  Structure'
<1>1. TypeOK' /\ Control' /\ Present'
  BY TypesKeep, ControlKeeps, PresentKeeps
<1>2. SnapshotFresh'
  BY InflightKeeps DEF SnapshotFresh
<1>3. SetsOK'
  BY HoldsIs DEF SetsOK
<1> QED BY <1>1, <1>2, <1>3 DEF Structure

\* Structure holds after reset.
LEMMA StructureStarts == Init => Structure
<1> SUFFICES ASSUME Init PROVE Structure
  OBVIOUS
<1>1. /\ state = "IDLE" /\ latched = zero_address /\ wb_pending = FALSE /\ wb_beat = 0
      /\ fwd_pending = FALSE /\ full = FALSE /\ old_word = FALSE /\ rsp_fifo = <<>>
      /\ inflight = Cache!NoRequest(FALSE)
      /\ sets = [i \in Indexes |-> Cache!EmptySet(FALSE)]
  BY DEF Init, ControllerInit
<1>2. zero_block \in Cache!Block /\ zero_address \in Cache!Address
  BY DataCacheAssumption, OffsetsAre DEF zero_block, zero_address, Cache!Block, Cache!Address
<1>3. inflight \in Cache!Inflight /\ inflight.type = "IDLE"
      /\ Cache!EmptySet(FALSE) \in Cache!CacheSet
  BY <1>1, NoRequestTyped DEF Cache!NoRequest, Cache!Inflight
<1>4. TypeOK
  <2>1. evicted \in [addr : Cache!Block, line : Cache!Line]
    BY <1>2 DEF Init, Cache!Line
  <2>2. memory \in [Cache!Block -> Cache!Line]
    BY DEF Init, Cache!Line
  <2>3. delay \in [1 .. DELAY -> Answer]
    BY <1>2 DEF Init, NoAnswer, Answer, Cache!Line
  <2>4. sets \in [Indexes -> Cache!CacheSet]
    BY <1>1, <1>3
  <2>5. rsp_fifo \in Seq(BOOLEAN)
    BY <1>1
  <2> QED BY <1>1, <1>2, <1>3, <2>1, <2>2, <2>3, <2>4, <2>5, OffsetsAre DEF TypeOK, States
<1>5. Control
  BY <1>1, <1>3 DEF Control, Probing, Waiting, Storing
<1>6. SnapshotFresh
  BY <1>3 DEF SnapshotFresh
<1>7. SetsOK
  <2>1. ASSUME NEW i \in Indexes PROVE SetOK(sets[i])
    <3>1. /\ \A w \in Ways : sets[i].blocks[w].valid = {}
          /\ Cache!NoMetadata(sets[i].metadata)
      BY <1>1 DEF Cache!EmptySet, Cache!NoMetadata, Ways
    <3> QED BY <3>1 DEF SetOK, MetaOK
  <2> QED BY <2>1 DEF SetsOK
<1>8. Present
  BY <1>1, <1>3 DEF Present, Waiting, Storing
<1> QED BY <1>4, <1>5, <1>6, <1>7, <1>8 DEF Structure

\* Structure does not depend on anything but the variables.
LEMMA StructureStutters ==
    ASSUME Structure, UNCHANGED vars
    PROVE  Structure'
<1>1. TypeOK'
  BY DEF Structure, TypeOK, vars
<1>2. Control'
  BY DEF Structure, Control, Probing, Waiting, Storing, vars
<1>3. SnapshotFresh' /\ SetsOK'
  BY DEF Structure, SnapshotFresh, SetsOK, vars
<1>4. Present'
  BY DEF Structure, Present, Waiting, Storing, WaysOf, Cache!block, vars
<1> QED BY <1>1, <1>2, <1>3, <1>4 DEF Structure

\* The controller, the cache's request and the array stay in step: the request in flight is
\* a probe, a refill or a store exactly when the controller is looking, waiting or storing,
\* its copy of the set is the array's, and no set ever holds a block twice.
THEOREM StructureInvariant == Spec => []Structure
<1>1. Structure /\ [Next]_vars => Structure'
  <2> SUFFICES ASSUME Structure, [Next]_vars PROVE Structure'
    OBVIOUS
  <2>1. CASE Next
    <3>1. PICK in, writes_all, code :
              Signal(in) /\ writes_all \in BOOLEAN /\ code \in CodeRequests
              /\ Clock(in, writes_all, code)
      BY <2>1, NextIsClock
    <3> QED BY <3>1, StructureKeeps
  <2>2. CASE UNCHANGED vars
    BY <2>2, StructureStutters
  <2> QED BY <2>1, <2>2
<1> QED BY <1>1, StructureStarts, PTL DEF Spec

\* Every register keeps its type: no line, beat or request leaves its range.
THEOREM TypeCorrect == Spec => []TypeOK
<1>1. Structure => TypeOK
  BY DEF Structure
<1> QED BY <1>1, StructureInvariant, PTL

\* A request never works on a copy of its set older than the array, although the copy is
\* taken when the request enters and the set may be being written then.
THEOREM SnapshotCorrect == Spec => []SnapshotFresh
<1>1. Structure => SnapshotFresh
  BY DEF Structure
<1> QED BY <1>1, StructureInvariant, PTL

\* The two state machines never drift apart.
THEOREM InStepAlways == Spec => []InStep
<1>1. Structure => InStep
  BY DEF Structure, Control, InStep, Waiting
<1> QED BY <1>1, StructureInvariant, PTL

\* The replacement bits of a full set always name one victim, under every policy and for
\* every number of ways.
THEOREM VictimAlways == Spec => []OneVictim
<1>1. Structure => OneVictim
  <2> SUFFICES ASSUME Structure, NEW i \in Indexes,
                      \A w \in Cache!Ways : sets[i].blocks[w].valid # {}
               PROVE  Cardinality(Cache!select_eviction_target(sets[i].metadata)) = 1
    BY DEF OneVictim
  <2>1. SetOK(sets[i]) /\ sets[i].metadata \in Cache!Metadata
    BY DEF Structure, SetsOK, TypeOK, Cache!CacheSet
  <2>2. ~Cache!NoMetadata(sets[i].metadata)
    BY <2>1, WaysAre DEF SetOK, Ways
  <2>3. PICK v \in Ways : Cache!select_eviction_target(sets[i].metadata) = {v}
    BY <2>1, <2>2, VictimIs DEF SetOK
  <2> QED BY <2>3, FS_Singleton
<1> QED BY <1>1, StructureInvariant, PTL

-----------------------------------------------------------------------------
(***************************************************************************)
(* What a clock does to one block.                                         *)
(***************************************************************************)

\* The ways that hold a block after the clock, and what a way holds before and after.
After(b) == Holding(sets'[b.index], b.tag)

Was(b, w) == sets[b.index].blocks[w]

Is(b, w) == sets'[b.index].blocks[w]

\* The ways of a block after a clock edge.
LEMMA AfterIs ==
    ASSUME NEW b
    PROVE  WaysOf(b)' = After(b)
BY Zenon DEF WaysOf, Holding, Ways, After

\* The block of the latched address.
LEMMA BlockTyped ==
    ASSUME Structure
    PROVE  /\ Cache!block(latched) \in Cache!Block
           /\ Cache!block(latched).index = latched.index /\ Cache!block(latched).tag = latched.tag
           /\ latched.index \in Indexes /\ latched.offset \in Offsets
BY DEF Structure, TypeOK, Cache!block, Cache!Block, Cache!Address

\* A block is its index and its tag.
LEMMA SameBlock ==
    ASSUME NEW b \in Cache!Block, NEW c \in Cache!Block, b.index = c.index, b.tag = c.tag
    PROVE  b = c
BY DEF Cache!Block

\* One way holds a block at most.
LEMMA OneWay ==
    ASSUME NEW s, SetOK(s), NEW tag, NEW w \in Holding(s, tag)
    PROVE  Holding(s, tag) = {w}
<1>1. \A v \in Holding(s, tag) : v = w
  BY DEF SetOK, Holding
<1> QED BY <1>1

\* A store seen from the block it hits.
LEMMA StoredIs ==
    ASSUME Structure, NEW in, Signal(in), NEW writes_all, NEW code, Clock(in, writes_all, code),
           Storing, NEW b, b = Cache!block(latched)
    PROVE  \E w \in Ways :
              /\ WaysOf(b) = {w} /\ After(b) = {w} /\ Is(b, w).dirty
              /\ Is(b, w).line = [Was(b, w).line EXCEPT ![latched.offset] = inflight.data]
<1>1. b.index = latched.index /\ b.tag = latched.tag
  BY BlockTyped
<1>2. PICK w \in Ways :
              /\ \A t : Holding(sets'[latched.index], t) = Holding(sets[latched.index], t)
              /\ Holding(sets[latched.index], latched.tag) = {w}
              /\ sets'[latched.index].blocks[w].dirty
              /\ sets'[latched.index].blocks[w].line =
                     [sets[latched.index].blocks[w].line EXCEPT ![latched.offset] = inflight.data]
  BY ArrayStore
<1>3. WaysOf(b) = Holding(sets[b.index], b.tag)
  BY WaysAt
<1> QED BY <1>1, <1>2, <1>3 DEF After, Was, Is

\* A fill seen from the block it brings in: held nowhere before, clean in one way after.
LEMMA FilledIs ==
    ASSUME Structure, NEW in, Signal(in), NEW writes_all, NEW code, Clock(in, writes_all, code),
           do_fill(in), NEW b, b = Cache!block(latched)
    PROVE  WaysOf(b) = {} /\ \E w \in Ways :
               After(b) = {w} /\ ~Is(b, w).dirty /\ Is(b, w).line = mem_rsp.line
<1>1. b.index = latched.index /\ b.tag = latched.tag
  BY BlockTyped
<1>2. PICK w \in Ways :
              /\ Holding(sets'[latched.index], latched.tag) = {w}
              /\ ~sets'[latched.index].blocks[w].dirty
              /\ sets'[latched.index].blocks[w].line = mem_rsp.line
  BY ArrayFill
<1>3. WaysOf(b) = {}
  BY ArrayIs DEF Structure, Present
<1> QED BY <1>1, <1>2, <1>3 DEF After, Is

\* A block that is not written stays as it is, or leaves as the victim of a fill.
LEMMA OthersAre ==
    ASSUME Structure, NEW in, Signal(in), NEW writes_all, NEW code, Clock(in, writes_all, code),
           NEW b \in Cache!Block, ~((Storing \/ do_fill(in)) /\ b = Cache!block(latched))
    PROVE  /\ After(b) \subseteq WaysOf(b)
           /\ \A w \in After(b) : Is(b, w) = Was(b, w)
           /\ \A w \in WaysOf(b) : w \notin After(b) =>
                 /\ do_fill(in) /\ After(b) = {}
                 /\ in.evicted_dirty <=> Was(b, w).dirty
                 /\ Cache!evicted_addr(inflight, TRUE) = b
                 /\ Cache!evicted_line(inflight, TRUE) = Was(b, w).line
<1>1. WaysOf(b) = Holding(sets[b.index], b.tag) /\ b.index \in Indexes /\ b.tag \in Tags
  BY WaysAt DEF Cache!Block
<1>2. CASE ~Storing /\ ~do_fill(in)
  <2>1. sets'[b.index].blocks = sets[b.index].blocks
    BY <1>1, <1>2, ArrayQuiet
  <2> QED BY <1>1, <2>1 DEF Holding, After, Was, Is
<1>3. (Storing \/ do_fill(in)) /\ b.index = latched.index => b.tag # latched.tag
  BY SameBlock, BlockTyped
<1>4. CASE Storing
  <2>1. PICK w \in Ways :
              /\ \A i \in Indexes : i # latched.index => sets'[i] = sets[i]
              /\ \A v \in Ways : v # w =>
                     sets'[latched.index].blocks[v] = sets[latched.index].blocks[v]
              /\ \A t : Holding(sets'[latched.index], t) = Holding(sets[latched.index], t)
              /\ Holding(sets[latched.index], latched.tag) = {w}
    BY <1>4, ArrayStore
  <2>2. CASE b.index # latched.index
    BY <1>1, <2>1, <2>2 DEF After, Was, Is
  <2>3. CASE b.index = latched.index
    <3>1. After(b) = WaysOf(b)
      BY <1>1, <2>1, <2>3 DEF After
    <3>2. \A v \in After(b) : v # w /\ v \in Ways
      BY <1>1, <1>3, <1>4, <2>1, <2>3, <3>1 DEF Holding
    <3> QED BY <2>1, <2>3, <3>1, <3>2 DEF Was, Is
  <2> QED BY <2>2, <2>3
<1>5. CASE do_fill(in)
  <2>1. PICK w \in Ways :
              /\ \A i \in Indexes : i # latched.index => sets'[i] = sets[i]
              /\ \A v \in Ways : v # w =>
                     sets'[latched.index].blocks[v] = sets[latched.index].blocks[v]
              /\ \A t : t # latched.tag =>
                     Holding(sets'[latched.index], t) = Holding(sets[latched.index], t) \ {w}
              /\ in.evicted_dirty <=> sets[latched.index].blocks[w].valid # {}
                                      /\ sets[latched.index].blocks[w].dirty
              /\ Cache!evicted_addr(inflight, TRUE)
                    = [tag |-> sets[latched.index].blocks[w].tag, index |-> latched.index]
              /\ Cache!evicted_line(inflight, TRUE) = sets[latched.index].blocks[w].line
    BY <1>5, ArrayFill
  <2>2. CASE b.index # latched.index
    BY <1>1, <2>1, <2>2 DEF After, Was, Is
  <2>3. CASE b.index = latched.index
    <3>1. After(b) = WaysOf(b) \ {w}
      BY <1>1, <1>3, <1>5, <2>1, <2>3 DEF After
    <3>2. \A v \in After(b) : v # w /\ v \in Ways
      BY <1>1, <3>1 DEF Holding
    <3>3. ASSUME NEW v \in WaysOf(b), v \notin After(b)
          PROVE  /\ After(b) = {}
                 /\ in.evicted_dirty <=> Was(b, v).dirty
                 /\ Cache!evicted_addr(inflight, TRUE) = b
                 /\ Cache!evicted_line(inflight, TRUE) = Was(b, v).line
      <4>1. v = w
        BY <3>1, <3>3
      <4>2. SetOK(sets[b.index])
        BY <1>1 DEF Structure, SetsOK
      <4>3. WaysOf(b) = {w}
        BY <1>1, <3>3, <4>1, <4>2, OneWay
      <4>4. Was(b, w).valid # {} /\ Was(b, w).tag = b.tag
        BY <1>1, <4>3 DEF Holding, Was
      <4>5. After(b) = {}
        BY <3>1, <4>3
      <4>6. in.evicted_dirty <=> Was(b, v).dirty
        BY <2>1, <2>3, <4>1, <4>4 DEF Was
      <4>7. [tag |-> b.tag, index |-> b.index] = b
        BY DEF Cache!Block
      <4>8. Cache!evicted_addr(inflight, TRUE) = b
        BY <2>1, <2>3, <4>4, <4>7, Zenon DEF Was
      <4>9. Cache!evicted_line(inflight, TRUE) = Was(b, v).line
        BY <2>1, <2>3, <4>1, Zenon DEF Was
      <4> QED BY <4>5, <4>6, <4>8, <4>9
    <3>4. \A v \in After(b) : Is(b, v) = Was(b, v)
      BY <2>1, <2>3, <3>2 DEF Was, Is
    <3> QED BY <1>5, <3>1, <3>3, <3>4, Zenon
  <2> QED BY <2>2, <2>3
<1> QED BY <1>2, <1>4, <1>5

\* A dirty victim: it was in the array, it is no longer, and the registers have it.
LEMMA VictimLeaves ==
    ASSUME Structure, NEW in, Signal(in), NEW writes_all, NEW code, Clock(in, writes_all, code),
           Evicting(in)
    PROVE  /\ evicted'.addr \in Cache!Block /\ After(evicted'.addr) = {}
           /\ evicted'.addr = Cache!evicted_addr(inflight, TRUE)
           /\ evicted'.line = Cache!evicted_line(inflight, TRUE)
           /\ WaysOf(evicted'.addr) # {}
<1> DEFINE c == Cache!evicted_addr(inflight, TRUE)
           line == Cache!evicted_line(inflight, TRUE)
<1>1. do_fill(in) /\ in.evicted_dirty
  BY DEF Evicting
<1>2. evicted' = [addr |-> c, line |-> line]
  <2>1. evicted' = next_evicted(in)
    BY DEF Clock
  <2> QED BY <1>1, <2>1, Zenon DEF next_evicted
<1>3. PICK w \in Ways :
           /\ sets[latched.index].blocks[w].valid # {}
           /\ c = [tag |-> sets[latched.index].blocks[w].tag, index |-> latched.index]
           /\ \A t : t # latched.tag =>
                  Holding(sets'[latched.index], t) = Holding(sets[latched.index], t) \ {w}
  BY <1>1, ArrayFill
<1>4. /\ inflight.type # "IDLE" /\ WaysOf(Cache!block(latched)) = {} /\ latched.index \in Indexes
      /\ Cache!block(latched).index = latched.index /\ Cache!block(latched).tag = latched.tag
  BY <1>1, ArrayIs, BlockTyped DEF Structure, Present
<1>5. SetOK(sets[latched.index]) /\ Holding(sets[latched.index], latched.tag) = {}
  BY <1>4, WaysAt DEF Structure, SetsOK
<1> HIDE DEF c, line
<1>6. w \in Holding(sets[latched.index], c.tag) /\ c.index = latched.index
  BY <1>3 DEF Holding
<1>7. Holding(sets[latched.index], c.tag) = {w} /\ c.tag # latched.tag
  BY <1>5, <1>6, OneWay
<1>8. Holding(sets'[latched.index], c.tag) = {}
  BY <1>3, <1>7
<1>9. WaysOf(c) # {} /\ After(c) = {}
  BY <1>6, <1>8, WaysAt DEF After
<1>10. c \in Cache!Block
  <2>1. sets[latched.index].blocks[w].tag \in Tags
    BY <1>4, LineTyped DEF Cache!CacheBlock
  <2> QED BY <1>3, <1>4, <2>1 DEF Cache!Block
<1>11. evicted'.addr = c /\ evicted'.line = line
  BY <1>2
<1> QED BY <1>9, <1>10, <1>11 DEF c, line

\* Otherwise the registers stay, but for a word a store makes out of date.
LEMMA VictimStays ==
    ASSUME Structure, NEW in, Signal(in), NEW writes_all, NEW code, Clock(in, writes_all, code),
           ~Evicting(in)
    PROVE  /\ evicted'.addr = evicted.addr
           /\ ~(Storing /\ evicted.addr = Cache!block(latched)) => evicted'.line = evicted.line
<1> DEFINE line == Outdated(evicted.line, evicted.addr)
<1>1. evicted' = [evicted EXCEPT !.line = line]
  <2>1. evicted' = next_evicted(in)
    BY DEF Clock
  <2> QED BY <2>1 DEF next_evicted, Evicting
<1>2. ~(Storing /\ evicted.addr = Cache!block(latched)) => line = evicted.line
  BY SnapshotIs DEF Outdated, Storing
<1>3. evicted \in [addr : Cache!Block, line : Cache!Line]
  BY DEF Structure, TypeOK
<1> HIDE DEF line
<1>4. evicted'.addr = evicted.addr /\ evicted'.line = line
  BY <1>1, <1>3
<1> QED BY <1>2, <1>4

\* Memory changes one word at a time, by the victim being written back; the stored word apart.
LEMMA MemoryIs ==
    ASSUME Structure, NEW in, Signal(in), NEW writes_all, NEW code, Clock(in, writes_all, code),
           NEW b \in Cache!Block, ~(Storing /\ b = Cache!block(latched)), NEW o \in Offsets
    PROVE  memory'[b][o] = IF state = "WRITE_EVICT_WRITEBACK" /\ b = evicted.addr /\ o = wb_beat
                           THEN evicted.line[o]
                           ELSE memory[b][o]
<1>1. Outdated(memory[b], b) = memory[b]
  BY SnapshotIs DEF Outdated, Storing
<1>2. memory'[b] = IF do_evict_writeback /\ b = evicted.addr
                   THEN [Outdated(memory[b], b) EXCEPT ![wb_beat] = evicted.line[wb_beat]]
                   ELSE Outdated(memory[b], b)
  BY DEF Clock, next_memory
<1>3. memory[b] \in Cache!Line
  BY DEF Structure, TypeOK
<1> QED BY <1>1, <1>2, <1>3 DEF do_evict_writeback, Cache!Line

-----------------------------------------------------------------------------
(***************************************************************************)
(* Nothing stored is lost.                                                 *)
(***************************************************************************)

\* The victim being written back is not in the array.
VictimGone == wb_pending => WaysOf(evicted.addr) = {}

\* The word a store carries, and the word a load is still owed, are current.
WordsHeld ==
    /\ Storing => inflight.data
    /\ fwd_pending \/ state = "WRITE_CACHE_DATA" => old_word

DirtyIn(b) == \E w \in WaysOf(b) : sets[b.index].blocks[w].dirty

\* How far along the delay line an answer that is out of date must have come: it can only
\* have left memory before the block's write-back was over.
Bound(b) ==
    IF wb_pending /\ evicted.addr = b THEN wb_beat + 1
    ELSE IF state \in {"IDLE", "READ_FWD"} THEN BLOCK_SIZE + 1
    ELSE IF Probing THEN BLOCK_SIZE + 2
    ELSE BLOCK_SIZE + 3

Aged ==
    \A i \in 1 .. DELAY : \A b \in Cache!Block :
        /\ delay[i].valid /\ delay[i].addr = b
        /\ \E o \in Offsets : ~delay[i].line[o]
        /\ ~DirtyIn(b)
        => i >= Bound(b)

\* With no code fetched, the only answer is the one that is waited for.
Alone ==
    CodeBlocks = {} =>
        /\ \A i \in 1 .. DELAY : delay[i].valid => Waiting /\ \A o \in Offsets : delay[i].line[o]
        /\ \A i, j \in 1 .. DELAY : delay[i].valid /\ delay[j].valid => i = j

Contents ==
    Structure /\ NeverLost /\ CleanMatches /\ LoadsCurrent /\ VictimGone /\ WordsHeld
    /\ Aged /\ Alone

\* The bus keeps the instruction side's answers from outliving a write-back: it asks for
\* nothing the data side writes, or the delay line is no longer than a write-back and the
\* two clocks around it.
Sheltered == CodeBlocks = {} \/ DELAY <= BLOCK_SIZE + 2

\* A fill carries the words last stored.
LEMMA WaitCurrent ==
    ASSUME Sheltered, Contents, Waiting, mem_rsp_good
    PROVE  \A o \in Offsets : mem_rsp.line[o]
<1>1. /\ state \in {"READ_WAIT_MEM_RSP", "WRITE_WAIT_MEM_RSP"} /\ mem_rsp.valid
      /\ mem_rsp.addr = Cache!block(latched)
  BY DEF Waiting, mem_rsp_good
<1>2. DELAY \in 1 .. DELAY /\ mem_rsp = delay[DELAY] /\ DELAY \in Nat /\ BLOCK_SIZE \in Nat
  BY DataCacheAssumption DEF mem_rsp
<1>3. ~DirtyIn(Cache!block(latched))
  BY <1>1 DEF Contents, Structure, Present, Waiting, DirtyIn
<1>4. Bound(Cache!block(latched)) = BLOCK_SIZE + 3
  BY <1>1 DEF Contents, Structure, Control, Bound, Probing
<1>5. CASE CodeBlocks = {}
  BY <1>1, <1>2, <1>5 DEF Contents, Alone
<1>6. CASE DELAY <= BLOCK_SIZE + 2
  <2>1. ASSUME \E o \in Offsets : ~delay[DELAY].line[o] PROVE FALSE
    <3>1. DELAY >= Bound(Cache!block(latched))
      BY <1>1, <1>2, <1>3, <2>1, BlockTyped DEF Contents, Aged
    <3> QED BY <1>1, <1>2, <1>4, <1>6, <3>1
  <2> QED BY <1>2, <2>1
<1> QED BY <1>5, <1>6 DEF Sheltered

\* The line that answers a miss has the last word stored at each of its offsets.
LEMMA FillCurrent ==
    ASSUME Sheltered, Contents, NEW in, Signal(in), NEW writes_all, NEW code,
           Clock(in, writes_all, code), do_fill(in)
    PROVE  /\ \A o \in Offsets : mem_rsp.line[o]
           /\ fill_word
<1>1. Waiting /\ mem_rsp_good
  BY SignalIs DEF do_fill, Waiting
<1>2. \A o \in Offsets : mem_rsp.line[o]
  BY <1>1, WaitCurrent
<1> QED BY <1>2, BlockTyped DEF fill_word, Contents

\* And so does a hit.
LEMMA HitCurrent ==
    ASSUME Contents, hit
    PROVE  Cache!read_data(inflight)
<1>1. Structure
  BY DEF Contents
<1>2. PICK w \in WaysOf(Cache!block(latched)) :
              Cache!read_data(inflight) = sets[latched.index].blocks[w].line[latched.offset]
  BY <1>1, ReadDataIs
<1>3. /\ Cache!block(latched) \in Cache!Block /\ Cache!block(latched).index = latched.index
      /\ latched.offset \in Offsets
  BY <1>1, BlockTyped
<1>4. sets[Cache!block(latched).index].blocks[w].line[latched.offset]
  BY <1>3 DEF Contents, NeverLost
<1> QED BY <1>2, <1>3, <1>4

\* Where NeverLost looks for a word, one block at a time.
Kept(b, o) ==
    IF WaysOf(b) # {}
    THEN \A w \in WaysOf(b) : Was(b, w).line[o]
    ELSE IF wb_pending /\ b = evicted.addr /\ o >= wb_beat
    THEN evicted.line[o]
    ELSE memory[b][o]

\* NeverLost at one word.
LEMMA KeptIs ==
    ASSUME NeverLost, NEW b \in Cache!Block, NEW o \in Offsets
    PROVE  Kept(b, o)
BY Zenon DEF NeverLost, Kept, Was

\* A victim waiting to be written back is in no way.
LEMMA VictimGoneKeeps ==
    ASSUME Contents, NEW in, Signal(in), NEW writes_all, NEW code, Clock(in, writes_all, code)
    PROVE  VictimGone'
<1>1. Structure
  BY DEF Contents
<1>2. ASSUME wb_pending' PROVE After(evicted'.addr) = {}
  <2>1. CASE Evicting(in)
    BY <1>1, <2>1, VictimLeaves
  <2>2. CASE ~Evicting(in)
    <3>1. wb_pending /\ evicted'.addr = evicted.addr /\ WaysOf(evicted.addr) = {}
      BY <1>1, <1>2, <2>2, WritebackIs, VictimStays DEF Contents, VictimGone
    <3>2. ~do_fill(in) /\ evicted.addr \in Cache!Block
      BY <1>1, <3>1 DEF Structure, Control, TypeOK, do_fill
    <3> QED BY <1>1, <3>1, <3>2, HoldsIs DEF After
  <2> QED BY <2>1, <2>2
<1>3. WaysOf(evicted.addr)' = After(evicted'.addr)
  BY Zenon DEF WaysOf, Holding, Ways, After
<1> QED BY <1>2, <1>3 DEF VictimGone

\* A clock edge keeps the words in flight the last ones stored.
LEMMA WordsHeldKeep ==
    ASSUME Sheltered, Contents, NEW in, Signal(in), NEW writes_all, NEW code,
           Clock(in, writes_all, code)
    PROVE  WordsHeld'
<1>1. Structure /\ WordsHeld
  BY DEF Contents
<1>2. ASSUME Storing' PROVE inflight'.data
  <2>1. state = "WRITE_CACHE_DATA" /\ inflight'.data = (full \/ old_word)
    BY <1>1, <1>2, InflightKeeps DEF cache_store
  <2> QED BY <1>1, <2>1 DEF WordsHeld
<1>3. old_word' = IF state = "WRITE_CACHE_RSP" /\ hit THEN Cache!read_data(inflight)
                  ELSE IF do_fill(in) /\ (state = "WRITE_WAIT_MEM_RSP" \/ in.evicted_dirty)
                  THEN fill_word
                  ELSE old_word
  BY DEF Clock, old_word_next
<1>4. ASSUME state' = "WRITE_CACHE_DATA" PROVE old_word'
  <2>1. \/ state = "WRITE_CACHE_RSP" /\ hit
        \/ state = "WRITE_WAIT_MEM_RSP" /\ do_fill(in)
    BY <1>1, <1>4, ControllerIs
  <2>2. CASE state = "WRITE_CACHE_RSP" /\ hit
    BY <1>3, <2>2, HitCurrent
  <2>3. CASE state = "WRITE_WAIT_MEM_RSP" /\ do_fill(in)
    BY <1>3, <2>3, FillCurrent
  <2> QED BY <2>1, <2>2, <2>3
<1>5. ASSUME fwd_pending' PROVE old_word'
  <2>1. \/ Evicting(in) /\ state = "READ_WAIT_MEM_RSP"
        \/ fwd_pending /\ state # "READ_FWD"
    BY <1>1, <1>5, WritebackIs
  <2>2. CASE Evicting(in) /\ state = "READ_WAIT_MEM_RSP"
    BY <1>3, <2>2, FillCurrent DEF Evicting
  <2>3. CASE fwd_pending /\ state # "READ_FWD"
    <3>1. state = "WRITE_EVICT_WRITEBACK" /\ old_word
      BY <1>1, <2>3 DEF Structure, Control, WordsHeld
    <3> QED BY <1>3, <3>1 DEF do_fill
  <2> QED BY <2>1, <2>2, <2>3
<1> QED BY <1>2, <1>4, <1>5 DEF WordsHeld

\* A clock edge keeps the words loads got the last ones stored.
LEMMA LoadsCurrentKeeps ==
    ASSUME Sheltered, Contents, NEW in, Signal(in), NEW writes_all, NEW code,
           Clock(in, writes_all, code)
    PROVE  LoadsCurrent'
<1>1. Structure /\ WordsHeld /\ LoadsCurrent
  BY DEF Contents
<1>2. ASSUME fifo_enable(in) PROVE rsp_word
  <2>1. /\ state = "READ_CACHE_RSP" => hit
        /\ state = "READ_WAIT_MEM_RSP" => do_fill(in)
        /\ state \in {"READ_CACHE_RSP", "READ_WAIT_MEM_RSP", "READ_FWD"}
    BY <1>1, <1>2, ResponsesAre
  <2>2. CASE state = "READ_CACHE_RSP"
    BY <2>1, <2>2, HitCurrent DEF rsp_word
  <2>3. CASE state = "READ_WAIT_MEM_RSP"
    BY <2>1, <2>3, FillCurrent DEF rsp_word
  <2>4. CASE state = "READ_FWD"
    BY <1>1, <2>4 DEF rsp_word, WordsHeld, Structure, Control
  <2> QED BY <2>1, <2>2, <2>3, <2>4
<1>3. \A n \in DOMAIN rsp_fifo' :
          \/ n + 1 \in DOMAIN rsp_fifo /\ rsp_fifo'[n] = rsp_fifo[n + 1]
          \/ fifo_enable(in) /\ rsp_fifo'[n] = rsp_word
  BY <1>1, ResponsesAre
<1>4. \A n \in DOMAIN rsp_fifo' : rsp_fifo'[n]
  BY <1>1, <1>2, <1>3 DEF LoadsCurrent
<1> QED BY <1>4 DEF LoadsCurrent

\* A clean line stays matched by memory.
LEMMA CleanMatchesKeeps ==
    ASSUME Contents, NEW in, Signal(in), NEW writes_all, NEW code, Clock(in, writes_all, code)
    PROVE  CleanMatches'
<1>1. Structure /\ NeverLost /\ CleanMatches /\ VictimGone
  BY DEF Contents
<1>2. ASSUME NEW b \in Cache!Block, NEW w \in After(b), NEW o \in Offsets, ~Is(b, w).dirty
      PROVE  memory'[b][o]
  <2>1. CASE Storing /\ b = Cache!block(latched)
    <3>1. PICK v \in Ways : After(b) = {v} /\ Is(b, v).dirty
      BY <1>1, <2>1, StoredIs
    <3> QED BY <1>2, <3>1
  <2>2. CASE do_fill(in) /\ b = Cache!block(latched)
    <3>1. WaysOf(b) = {} /\ ~Storing
      BY <1>1, <2>2, FilledIs, ArrayIs
    <3>2. state # "WRITE_EVICT_WRITEBACK" /\ ~wb_pending
      BY <1>1, <2>2 DEF do_fill, Structure, Control
    <3>3. memory[b][o]
      BY <1>1, <3>1, <3>2, KeptIs DEF Kept
    <3>4. memory'[b][o] = memory[b][o]
      BY <1>1, <3>1, <3>2, MemoryIs
    <3> QED BY <3>3, <3>4
  <2>3. CASE ~((Storing \/ do_fill(in)) /\ b = Cache!block(latched))
    <3>1. w \in WaysOf(b) /\ ~Was(b, w).dirty
      BY <1>1, <1>2, <2>3, OthersAre
    <3>2. memory[b][o]
      BY <1>1, <3>1 DEF CleanMatches, Was
    <3>3. ~(state = "WRITE_EVICT_WRITEBACK" /\ b = evicted.addr)
      BY <1>1, <3>1 DEF VictimGone, Structure, Control
    <3>4. memory'[b][o] = memory[b][o]
      BY <1>1, <2>3, <3>3, MemoryIs
    <3> QED BY <3>2, <3>4
  <2> QED BY <2>1, <2>2, <2>3
<1>3. \A b \in Cache!Block : WaysOf(b)' = After(b)
  BY AfterIs
<1> QED BY <1>2, <1>3 DEF CleanMatches, Is

\* The last value of every word stays where it is looked for.
LEMMA KeptKeeps ==
    ASSUME Sheltered, Contents, NEW in, Signal(in), NEW writes_all, NEW code,
           Clock(in, writes_all, code), NEW b \in Cache!Block, NEW o \in Offsets
    PROVE  /\ \A w \in After(b) : Is(b, w).line[o]
           /\ After(b) = {} =>
                IF wb_pending' /\ b = evicted'.addr /\ o >= wb_beat'
                THEN evicted'.line[o]
                ELSE memory'[b][o]
<1>1. Structure /\ NeverLost /\ CleanMatches /\ VictimGone /\ WordsHeld
  BY DEF Contents
<1>2. Kept(b, o)
  BY <1>1, KeptIs
<1>3. CASE Storing /\ b = Cache!block(latched)
  <2>1. PICK w \in Ways :
              /\ WaysOf(b) = {w} /\ After(b) = {w}
              /\ Is(b, w).line = [Was(b, w).line EXCEPT ![latched.offset] = inflight.data]
    BY <1>1, <1>3, StoredIs
  <2>2. Was(b, w).line[o] /\ inflight.data
    BY <1>1, <1>2, <1>3, <2>1 DEF Kept, WordsHeld
  <2>3. Was(b, w).line \in Cache!Line
    BY <1>1, LineTyped DEF Was, Cache!Block
  <2>4. Is(b, w).line[o]
    BY <2>1, <2>2, <2>3 DEF Cache!Line
  <2> QED BY <2>1, <2>4
<1>4. CASE do_fill(in) /\ b = Cache!block(latched)
  <2>1. PICK w \in Ways : After(b) = {w} /\ Is(b, w).line = mem_rsp.line
    BY <1>1, <1>4, FilledIs
  <2>2. mem_rsp.line[o]
    BY <1>4, FillCurrent
  <2> QED BY <2>1, <2>2
<1>5. CASE ~((Storing \/ do_fill(in)) /\ b = Cache!block(latched))
  <2>1. /\ After(b) \subseteq WaysOf(b)
        /\ \A w \in After(b) : Is(b, w) = Was(b, w)
        /\ \A w \in WaysOf(b) : w \notin After(b) =>
              /\ do_fill(in) /\ After(b) = {}
              /\ in.evicted_dirty <=> Was(b, w).dirty
              /\ Cache!evicted_addr(inflight, TRUE) = b
              /\ Cache!evicted_line(inflight, TRUE) = Was(b, w).line
    BY <1>1, <1>5, OthersAre
  <2>2. \A w \in After(b) : Is(b, w).line[o]
    BY <1>2, <2>1 DEF Kept
  <2>3. memory'[b][o] = IF state = "WRITE_EVICT_WRITEBACK" /\ b = evicted.addr /\ o = wb_beat
                        THEN evicted.line[o]
                        ELSE memory[b][o]
    BY <1>1, <1>5, MemoryIs
  <2>4. /\ wb_pending' <=> Evicting(in) \/ (wb_pending /\ ~LastBeat)
        /\ wb_beat' = IF state = "WRITE_EVICT_WRITEBACK" /\ ~LastBeat THEN wb_beat + 1 ELSE 0
    BY <1>1, WritebackIs
  <2>5. CASE After(b) = {} /\ WaysOf(b) # {}
    <3>1. PICK w : w \in WaysOf(b) /\ w \notin After(b)
      BY <2>5
    <3>2. /\ do_fill(in)
          /\ in.evicted_dirty <=> Was(b, w).dirty
          /\ Cache!evicted_addr(inflight, TRUE) = b
          /\ Cache!evicted_line(inflight, TRUE) = Was(b, w).line
          /\ Was(b, w).line[o]
      BY <1>2, <2>1, <2>5, <3>1 DEF Kept
    <3>3. state # "WRITE_EVICT_WRITEBACK" /\ ~wb_pending
      BY <1>1, <3>2 DEF do_fill, Structure, Control
    <3>4. CASE in.evicted_dirty
      <4>1. Evicting(in)
        BY <3>2, <3>4 DEF Evicting
      <4>2. evicted'.addr = b /\ evicted'.line = Was(b, w).line
        BY <1>1, <3>2, <4>1, VictimLeaves, Zenon
      <4>3. wb_pending' /\ wb_beat' = 0 /\ o >= 0
        BY <2>4, <3>3, <4>1 DEF Offsets
      <4> QED BY <2>2, <3>2, <4>2, <4>3
    <3>5. CASE ~in.evicted_dirty
      <4>1. ~wb_pending'
        BY <2>4, <3>3, <3>5 DEF Evicting
      <4>2. memory[b][o]
        BY <1>1, <3>1, <3>2, <3>5 DEF CleanMatches, Was
      <4> QED BY <2>2, <2>3, <3>3, <4>1, <4>2
    <3> QED BY <3>4, <3>5
  <2>6. CASE WaysOf(b) = {}
    <3>1. ~(Evicting(in) /\ b = evicted'.addr)
      BY <1>1, <2>6, VictimLeaves
    <3>2. IF wb_pending /\ b = evicted.addr /\ o >= wb_beat THEN evicted.line[o] ELSE memory[b][o]
      BY <1>2, <2>6 DEF Kept
    <3>3. ~Evicting(in) =>
             /\ evicted'.addr = evicted.addr
             /\ b = evicted.addr => evicted'.line = evicted.line
      <4>1. Storing => WaysOf(Cache!block(latched)) # {}
        BY <1>1 DEF Structure, Present
      <4> QED BY <1>1, <2>6, <4>1, VictimStays
    <3>4. CASE wb_pending /\ b = evicted.addr
      <4>1. ~Evicting(in) /\ evicted'.addr = b /\ evicted'.line = evicted.line
        <5>1. ~Evicting(in)
          BY <1>1, <3>4 DEF Structure, Control, Evicting, do_fill
        <5> QED BY <3>3, <3>4, <5>1
      <4>2. wb_beat \in Nat /\ o \in Nat /\ o <= BLOCK_SIZE - 1 /\ BLOCK_SIZE \in Nat
        BY <1>1, DataCacheAssumption DEF Structure, TypeOK, Offsets
      <4>3. CASE state = "WRITE_EVICT_WRITEBACK"
        <5>1. CASE LastBeat
          <6>1. ~wb_pending' /\ wb_beat = BLOCK_SIZE - 1
            BY <2>4, <4>1, <5>1 DEF LastBeat
          <6>2. memory'[b][o]
            BY <2>3, <3>2, <3>4, <4>2, <4>3, <6>1
          <6> QED BY <2>2, <6>1, <6>2
        <5>2. CASE ~LastBeat
          <6>1. wb_pending' /\ wb_beat' = wb_beat + 1
            BY <2>4, <3>4, <4>3, <5>2
          <6>2. CASE o >= wb_beat + 1
            BY <2>2, <3>2, <3>4, <4>1, <4>2, <6>1, <6>2
          <6>3. CASE ~(o >= wb_beat + 1)
            <7>1. memory'[b][o]
              BY <2>3, <3>2, <3>4, <4>2, <4>3, <6>3
            <7> QED BY <2>2, <4>1, <4>2, <6>1, <6>3, <7>1
          <6> QED BY <6>2, <6>3
        <5> QED BY <5>1, <5>2
      <4>4. CASE state # "WRITE_EVICT_WRITEBACK"
        <5>1. wb_beat = 0 /\ wb_pending' /\ wb_beat' = 0
          BY <1>1, <2>4, <3>4, <4>4 DEF Structure, Control, LastBeat
        <5> QED BY <2>2, <3>2, <3>4, <4>1, <4>2, <5>1
      <4> QED BY <4>3, <4>4
    <3>5. CASE ~(wb_pending /\ b = evicted.addr)
      <4>1. memory[b][o]
        BY <3>2, <3>5
      <4>2. memory'[b][o] = memory[b][o]
        BY <1>1, <2>3, <3>5 DEF Structure, Control
      <4>3. ~(wb_pending' /\ b = evicted'.addr)
        BY <2>4, <3>1, <3>3, <3>5
      <4> QED BY <2>2, <4>1, <4>2, <4>3
    <3> QED BY <3>4, <3>5
  <2> QED BY <2>2, <2>5, <2>6
<1> QED BY <1>3, <1>4, <1>5

\* A clock edge keeps the last word stored at each address somewhere.
LEMMA NeverLostKeeps ==
    ASSUME Sheltered, Contents, NEW in, Signal(in), NEW writes_all, NEW code,
           Clock(in, writes_all, code)
    PROVE  NeverLost'
<1>1. Structure
  BY DEF Contents
<1>2. ASSUME NEW b \in Cache!Block, NEW o \in Offsets
      PROVE  /\ \A w, v \in WaysOf(b)' : w = v
             /\ IF WaysOf(b)' # {}
                THEN \A w \in WaysOf(b)' : sets'[b.index].blocks[w].line[o]
                ELSE IF wb_pending' /\ b = evicted'.addr /\ o >= wb_beat'
                THEN evicted'.line[o]
                ELSE memory'[b][o]
  <2>1. WaysOf(b)' = After(b)
    BY AfterIs
  <2>2. \A w, v \in After(b) : w = v
    <3>1. SetOK(sets'[b.index])
      BY <1>1, HoldsIs DEF Cache!Block
    <3> QED BY <3>1, OneWay DEF After
  <2>3. /\ \A w \in After(b) : Is(b, w).line[o]
        /\ After(b) = {} =>
             IF wb_pending' /\ b = evicted'.addr /\ o >= wb_beat'
             THEN evicted'.line[o]
             ELSE memory'[b][o]
    BY KeptKeeps
  <2>4. /\ \A w, v \in WaysOf(b)' : w = v
        /\ \A w \in WaysOf(b)' : sets'[b.index].blocks[w].line[o]
        /\ WaysOf(b)' = {} =>
             IF wb_pending' /\ b = evicted'.addr /\ o >= wb_beat'
             THEN evicted'.line[o]
             ELSE memory'[b][o]
    BY <2>1, <2>2, <2>3, Zenon DEF Is
  <2> QED BY <2>4, Zenon
<1> QED BY <1>2, Zenon DEF NeverLost

\* A block that is no longer dirty anywhere has just left as a victim.
LEMMA DirtyLeaves ==
    ASSUME Structure, NEW in, Signal(in), NEW writes_all, NEW code, Clock(in, writes_all, code),
           NEW b \in Cache!Block, DirtyIn(b), ~DirtyIn(b)'
    PROVE  wb_pending' /\ evicted'.addr = b /\ wb_beat' = 0
<1>1. PICK w \in WaysOf(b) : Was(b, w).dirty
  BY DEF DirtyIn, Was
<1>2. \A v \in After(b) : ~Is(b, v).dirty
  <2>1. WaysOf(b)' = After(b)
    BY AfterIs
  <2> QED BY <2>1 DEF DirtyIn, Is
<1>3. ~(Storing /\ b = Cache!block(latched))
  <2>1. ASSUME Storing, b = Cache!block(latched) PROVE FALSE
    <3>1. PICK v \in Ways : After(b) = {v} /\ Is(b, v).dirty
      BY <2>1, StoredIs
    <3> QED BY <1>2, <3>1
  <2> QED BY <2>1
<1>4. ~(do_fill(in) /\ b = Cache!block(latched))
  BY <1>1, FilledIs
<1>5. /\ \A v \in After(b) : Is(b, v) = Was(b, v)
      /\ \A v \in WaysOf(b) : v \notin After(b) =>
            /\ do_fill(in)
            /\ in.evicted_dirty <=> Was(b, v).dirty
            /\ Cache!evicted_addr(inflight, TRUE) = b
  BY <1>3, <1>4, OthersAre
<1>6. w \notin After(b)
  BY <1>1, <1>2, <1>5
<1>7. Evicting(in)
  BY <1>1, <1>5, <1>6 DEF Evicting
<1>8. evicted'.addr = b
  BY <1>1, <1>5, <1>6, <1>7, VictimLeaves, Zenon
<1>9. wb_pending' /\ wb_beat' = 0
  <2>1. state # "WRITE_EVICT_WRITEBACK"
    BY <1>7 DEF Evicting, do_fill
  <2> QED BY <1>7, <2>1, WritebackIs
<1> QED BY <1>8, <1>9

\* The bound moves by at most one place a clock.
LEMMA BoundMoves ==
    ASSUME Structure, NEW in, Signal(in), NEW writes_all, NEW code, Clock(in, writes_all, code),
           NEW b
    PROVE  Bound(b) \in Nat /\ Bound(b)' \in Nat /\ Bound(b)' <= Bound(b) + 1
<1>1. /\ BLOCK_SIZE \in Nat \ {0} /\ wb_beat \in 0 .. BLOCK_SIZE - 1
      /\ wb_beat' \in 0 .. BLOCK_SIZE - 1
  BY WritebackIs, DataCacheAssumption DEF Structure, TypeOK, Offsets
<1>2. /\ wb_pending => state \in {"WRITE_CACHE_DATA", "WRITE_EVICT_WRITEBACK"}
      /\ state = "WRITE_EVICT_WRITEBACK" => wb_pending
      /\ state # "WRITE_EVICT_WRITEBACK" => wb_beat = 0
  BY DEF Structure, Control
<1>3. /\ wb_pending' <=> Evicting(in) \/ (wb_pending /\ ~LastBeat)
      /\ wb_beat' = IF state = "WRITE_EVICT_WRITEBACK" /\ ~LastBeat THEN wb_beat + 1 ELSE 0
  BY WritebackIs
<1>4. Bound(b)' = IF wb_pending' /\ evicted'.addr = b THEN wb_beat' + 1
                  ELSE IF state' \in {"IDLE", "READ_FWD"} THEN BLOCK_SIZE + 1
                  ELSE IF state' \in {"READ_CACHE_RSP", "WRITE_CACHE_RSP"} THEN BLOCK_SIZE + 2
                  ELSE BLOCK_SIZE + 3
  BY DEF Bound, Probing
<1>5. /\ Bound(b) \in Nat /\ Bound(b)' \in Nat /\ Bound(b)' <= BLOCK_SIZE + 3
  BY <1>1, <1>4 DEF Bound
<1>6. CASE wb_pending /\ evicted.addr = b
  <2>1. ~Evicting(in) /\ Bound(b) = wb_beat + 1
    BY <1>2, <1>6 DEF Evicting, do_fill, Bound
  <2>2. evicted'.addr = b
    BY <1>6, <2>1, VictimStays
  <2>3. CASE LastBeat
    <3>1. state = "WRITE_EVICT_WRITEBACK" /\ wb_beat = BLOCK_SIZE - 1
      BY <2>3 DEF LastBeat
    <3>2. ~wb_pending' /\ state' \in {"IDLE", "READ_FWD"}
      <4>1. ~wb_pending'
        BY <1>3, <2>1, <2>3
      <4>2. /\ state' \in States
            /\ Accepts(in) <=> Probing'
            /\ Missing(in) <=> Waiting'
            /\ state' # "WRITE_CACHE_DATA" /\ state' # "WRITE_EVICT_WRITEBACK"
        BY <2>3, <3>1, ControllerIs
      <4>3. ~Accepts(in) /\ ~Missing(in)
        BY <3>1 DEF Accepts, core_rsp_ready, Missing, Probing, Waiting
      <4> QED BY <4>1, <4>2, <4>3 DEF States, Probing, Waiting
    <3> QED BY <1>1, <1>4, <2>1, <3>1, <3>2
  <2>4. CASE ~LastBeat
    <3>1. wb_beat' <= wb_beat + 1
      BY <1>1, <1>2, <1>3, <1>6, <2>4
    <3>2. wb_pending'
      BY <1>3, <1>6, <2>4
    <3>3. Bound(b)' = wb_beat' + 1
      BY <1>4, <2>2, <3>2
    <3>4. Bound(b) = wb_beat + 1
      BY <2>1
    <3>5. Bound(b)' <= Bound(b) + 1
      <4>1. wb_beat \in Nat /\ wb_beat' \in Nat
        BY <1>1
      <4>2. wb_beat' + 1 <= (wb_beat + 1) + 1
        <5>1. \A x, y \in Nat : y <= x + 1 => y + 1 <= (x + 1) + 1
          OBVIOUS
        <5> QED BY <3>1, <4>1, <5>1, Zenon
      <4> QED BY <3>3, <3>4, <4>2, Zenon
    <3> QED BY <1>5, <3>5
  <2> QED BY <2>3, <2>4
<1>7. CASE ~(wb_pending /\ evicted.addr = b) /\ state \in {"IDLE", "READ_FWD"}
  <2>1. Bound(b) = BLOCK_SIZE + 1
    BY <1>7 DEF Bound
  <2>2. state' \in {"IDLE", "READ_CACHE_RSP", "WRITE_CACHE_RSP"}
    <3>1. /\ state' \in States /\ ~Waiting'
          /\ state' # "WRITE_CACHE_DATA" /\ state' # "WRITE_EVICT_WRITEBACK" /\ state' # "READ_FWD"
      BY <1>7, ControllerIs DEF Missing, Probing, Waiting, LastBeat, Evicting, do_fill
    <3> QED BY <3>1 DEF States, Waiting
  <2>3. ~wb_pending'
    BY <1>2, <1>3, <1>7 DEF Evicting, do_fill
  <2> QED BY <1>1, <1>4, <2>1, <2>2, <2>3
<1>8. CASE ~(wb_pending /\ evicted.addr = b) /\ state \notin {"IDLE", "READ_FWD"}
  <2>1. Bound(b) >= BLOCK_SIZE + 2
    BY <1>1, <1>8 DEF Bound
  <2> QED BY <1>1, <1>5, <2>1
<1> QED BY <1>6, <1>7, <1>8

\* A clock edge keeps every line of the delay line that is out of date past its bound.
LEMMA AgedKeeps ==
    ASSUME Contents, NEW in, Signal(in), NEW writes_all, NEW code \in CodeRequests,
           Clock(in, writes_all, code)
    PROVE  Aged'
<1>1. Structure /\ NeverLost /\ CleanMatches /\ VictimGone /\ Aged
  BY DEF Contents
<1> SUFFICES ASSUME NEW i \in 1 .. DELAY, NEW b \in Cache!Block,
                    delay'[i].valid, delay'[i].addr = b,
                    \E o \in Offsets : ~delay'[i].line[o],
                    ~DirtyIn(b)'
             PROVE  i >= Bound(b)'
  BY Zenon DEF Aged
<1>2. PICK o \in Offsets : ~delay'[i].line[o]
  OBVIOUS
<1>3. b = delay'[i].addr
  OBVIOUS
<1>4. ~DirtyIn(b)' /\ DELAY \in Nat
  BY DataCacheAssumption
<1>5. b \in Cache!Block
  OBVIOUS
<1>6. ~(Storing /\ b = Cache!block(latched))
  <2>1. ASSUME Storing, b = Cache!block(latched) PROVE FALSE
    <3>1. PICK v \in Ways : After(b) = {v} /\ Is(b, v).dirty
      BY <1>1, <2>1, StoredIs
    <3>2. WaysOf(b)' = After(b)
      BY AfterIs
    <3> QED BY <1>4, <3>1, <3>2 DEF DirtyIn, Is
  <2> QED BY <2>1
<1>7. \A line : Outdated(line, b) = line
  BY <1>1, <1>6, SnapshotIs DEF Outdated, Storing
<1>8. Bound(b)' = (IF wb_pending' /\ evicted'.addr = b THEN wb_beat' + 1
                   ELSE IF state' \in {"IDLE", "READ_FWD"} THEN BLOCK_SIZE + 1
                   ELSE IF Probing' THEN BLOCK_SIZE + 2
                   ELSE BLOCK_SIZE + 3)
  BY DEF Bound
<1>9. i >= Bound(b)'
  <2>1. CASE DirtyIn(b)
    <3>1. wb_pending' /\ evicted'.addr = b /\ wb_beat' = 0
      BY <1>1, <1>4, <1>5, <2>1, DirtyLeaves
    <3> QED BY <1>4, <1>8, <3>1
  <2>2. CASE ~DirtyIn(b) /\ i > 1
    <3>1. /\ i - 1 \in 1 .. DELAY
          /\ delay[i - 1].valid /\ delay[i - 1].addr = b
          /\ delay'[i].line = delay[i - 1].line
      BY <1>1, <1>3, <1>7, <2>2, DelayIs
    <3>2. i - 1 >= Bound(b)
      BY <1>1, <1>2, <2>2, <3>1 DEF Aged
    <3> QED BY <1>1, <1>4, <3>1, <3>2, BoundMoves
  <2>3. CASE ~DirtyIn(b) /\ i = 1
    <3>1. /\ ~memory[b][o]
          /\ state # "WRITE_EVICT_WRITEBACK"
          /\ (Missing(in) /\ Probing) \/ CodeBlocks # {}
      <4>1. PICK c \in Cache!Block : delay'[1] = Read(c) /\ state # "WRITE_EVICT_WRITEBACK"
        <5>1. \/ Probing /\ delay'[1] = Read(Cache!block(latched))
              \/ state # "WRITE_EVICT_WRITEBACK" /\ \E c \in CodeBlocks : delay'[1] = Read(c)
          BY <1>1, <2>3, DelayIs
        <5> QED BY <1>1, <5>1, BlockTyped, DataCacheAssumption DEF Probing
      <4>2. delay'[1].addr = c /\ delay'[1].line = Outdated(memory[c], c)
        BY <4>1 DEF Read
      <4>3. b = c /\ ~memory[b][o]
        BY <1>2, <1>3, <1>7, <2>3, <4>2
      <4>4. (Missing(in) /\ Probing) \/ CodeBlocks # {}
        BY <1>1, <2>3, DelayIs
      <4> QED BY <4>1, <4>3, <4>4
    <3>2. WaysOf(b) = {}
      BY <1>1, <1>5, <2>3, <3>1 DEF CleanMatches, DirtyIn
    <3>3. wb_pending /\ b = evicted.addr
      BY <1>1, <1>5, <3>1, <3>2, KeptIs DEF Kept
    <3>4. ~Evicting(in) /\ ~LastBeat
      BY <1>1, <3>1, <3>3 DEF Structure, Control, Evicting, do_fill, LastBeat
    <3>5. wb_pending' /\ evicted'.addr = b /\ wb_beat' = 0
      BY <1>1, <3>1, <3>3, <3>4, WritebackIs, VictimStays
    <3> QED BY <1>8, <2>3, <3>5
  <2> QED BY <1>4, <2>1, <2>2, <2>3
<1> QED BY <1>9

\* With no code fetched, a clock edge keeps the answer waited for the only one on its way.
LEMMA AloneKeeps ==
    ASSUME Contents, NEW in, Signal(in), NEW writes_all, NEW code \in CodeRequests,
           Clock(in, writes_all, code)
    PROVE  Alone'
<1>1. Structure /\ NeverLost /\ Alone /\ DELAY \in Nat \ {0}
  BY DataCacheAssumption DEF Contents
<1> SUFFICES ASSUME CodeBlocks = {}
             PROVE  /\ \A i \in 1 .. DELAY :
                          delay'[i].valid => Waiting' /\ \A o \in Offsets : delay'[i].line[o]
                    /\ \A i, j \in 1 .. DELAY : delay'[i].valid /\ delay'[j].valid => i = j
  BY DEF Alone
<1>2. /\ \A i \in 1 .. DELAY : delay[i].valid => Waiting /\ \A o \in Offsets : delay[i].line[o]
      /\ \A i, j \in 1 .. DELAY : delay[i].valid /\ delay[j].valid => i = j
  BY <1>1 DEF Alone
<1>3. /\ \A i \in 1 .. DELAY : i > 1 =>
            /\ i - 1 \in 1 .. DELAY
            /\ delay'[i].valid = delay[i - 1].valid /\ delay'[i].addr = delay[i - 1].addr
            /\ delay'[i].line = Outdated(delay[i - 1].line, delay[i - 1].addr)
      /\ delay'[1].valid => Missing(in) /\ Probing /\ delay'[1] = Read(Cache!block(latched))
  BY <1>1, DelayIs
<1>4. Probing \/ Waiting => ~Storing /\ ~wb_pending /\ ~(Probing /\ Waiting)
  BY <1>1 DEF Structure, Control, Probing, Waiting
<1>5. ASSUME NEW i \in 1 .. DELAY, delay'[i].valid
      PROVE  Waiting' /\ \A o \in Offsets : delay'[i].line[o]
  <2>1. CASE i > 1
    <3>1. i - 1 \in 1 .. DELAY /\ delay[i - 1].valid /\ Waiting
      BY <1>2, <1>3, <1>5, <2>1
    <3>2. delay'[i].line = delay[i - 1].line
      BY <1>3, <1>4, <2>1, <3>1 DEF Outdated
    <3>3. ~do_fill(in)
      <4>1. ASSUME do_fill(in) PROVE FALSE
        <5>1. delay[DELAY].valid /\ DELAY \in 1 .. DELAY
          <6>1. in.good <=> mem_rsp_good
            BY SignalIs
          <6> QED BY <1>1, <4>1, <6>1 DEF do_fill, mem_rsp_good, mem_rsp
        <5>2. i - 1 = DELAY
          BY <1>2, <3>1, <5>1
        <5> QED BY <1>1, <5>2
      <4> QED BY <4>1
    <3>4. Waiting'
      BY <1>1, <3>1, <3>3, ControllerIs DEF Missing
    <3> QED BY <1>2, <3>1, <3>2, <3>4
  <2>2. CASE i = 1
    <3>1. Missing(in) /\ Probing /\ delay'[1] = Read(Cache!block(latched))
      BY <1>3, <1>5, <2>2
    <3>2. Waiting' /\ ~hit
      BY <1>1, <1>4, <3>1, ControllerIs DEF Missing
    <3>3. WaysOf(Cache!block(latched)) = {} /\ Cache!block(latched) \in Cache!Block
      BY <1>1, <3>1, <3>2, ProbeIs, BlockTyped
    <3>4. \A o \in Offsets : memory[Cache!block(latched)][o]
      BY <1>1, <1>4, <3>1, <3>3, KeptIs DEF Kept
    <3>5. delay'[1].line = memory[Cache!block(latched)]
      <4>1. delay'[1].line = Outdated(memory[Cache!block(latched)], Cache!block(latched))
        BY <3>1 DEF Read
      <4> QED BY <1>4, <3>1, <4>1 DEF Outdated
    <3> QED BY <2>2, <3>2, <3>4, <3>5
  <2> QED BY <1>1, <2>1, <2>2
<1>6. ASSUME NEW i \in 1 .. DELAY, NEW j \in 1 .. DELAY, delay'[i].valid, delay'[j].valid, i < j
      PROVE  FALSE
  <2>1. j > 1 /\ j - 1 \in 1 .. DELAY /\ delay[j - 1].valid /\ Waiting
    BY <1>1, <1>2, <1>3, <1>6
  <2>2. CASE i = 1
    BY <1>3, <1>4, <1>6, <2>1, <2>2
  <2>3. CASE i > 1
    <3>1. i - 1 \in 1 .. DELAY /\ delay[i - 1].valid
      BY <1>3, <1>6, <2>3
    <3>2. i - 1 = j - 1
      BY <1>2, <2>1, <3>1
    <3> QED BY <1>6, <3>2
  <2> QED BY <1>1, <2>2, <2>3
<1>7. \A i, j \in 1 .. DELAY : delay'[i].valid /\ delay'[j].valid => i = j
  <2> SUFFICES ASSUME NEW i \in 1 .. DELAY, NEW j \in 1 .. DELAY, delay'[i].valid, delay'[j].valid,
                      i # j
               PROVE  FALSE
    OBVIOUS
  <2>1. i < j \/ j < i
    OBVIOUS
  <2> QED BY <1>6, <2>1
<1> QED BY <1>5, <1>7

\* Contents holds after reset.
LEMMA ContentsStart == Init => Contents
<1> SUFFICES ASSUME Init PROVE Contents
  OBVIOUS
<1>1. Structure
  BY StructureStarts
<1>2. /\ state = "IDLE" /\ wb_pending = FALSE /\ fwd_pending = FALSE /\ rsp_fifo = <<>>
      /\ inflight = Cache!NoRequest(FALSE)
      /\ sets = [i \in Indexes |-> Cache!EmptySet(FALSE)]
      /\ memory = [b \in Cache!Block |-> [o \in Offsets |-> TRUE]]
      /\ delay = [i \in 1 .. DELAY |-> NoAnswer]
  BY DEF Init, ControllerInit
<1>3. \A b \in Cache!Block : WaysOf(b) = {} /\ \A o \in Offsets : memory[b][o]
  <2>1. \A i \in Indexes : \A w \in Ways : sets[i].blocks[w].valid = {}
    BY <1>2 DEF Cache!EmptySet, Ways
  <2> QED BY <1>2, <2>1 DEF WaysOf, Ways, Cache!Block
<1>4. NeverLost
  BY <1>2, <1>3 DEF NeverLost
<1>5. CleanMatches
  BY <1>3 DEF CleanMatches
<1>6. LoadsCurrent
  BY <1>2 DEF LoadsCurrent
<1>7. VictimGone
  BY <1>2 DEF VictimGone
<1>8. WordsHeld
  BY <1>2 DEF WordsHeld, Storing, Cache!NoRequest
<1>9. Aged /\ Alone
  <2>1. \A i \in 1 .. DELAY : ~delay[i].valid
    BY <1>2 DEF NoAnswer
  <2> QED BY <2>1 DEF Aged, Alone
<1> QED BY <1>1, <1>4, <1>5, <1>6, <1>7, <1>8, <1>9 DEF Contents

\* As long as the instruction side's answers cannot outlive a write-back, every word is
\* where the next request looks for it.
THEOREM ContentsInvariant ==
    ASSUME Sheltered
    PROVE  Spec => []Contents
<1>1. Contents /\ [Next]_vars => Contents'
  <2> SUFFICES ASSUME Contents, [Next]_vars PROVE Contents'
    OBVIOUS
  <2>1. CASE Next
    <3>1. PICK in, writes_all, code :
              Signal(in) /\ writes_all \in BOOLEAN /\ code \in CodeRequests
              /\ Clock(in, writes_all, code)
      BY <2>1, NextIsClock
    <3>2. Structure'
      BY <3>1, StructureKeeps DEF Contents
    <3> QED BY <3>1, <3>2, NeverLostKeeps, CleanMatchesKeeps, LoadsCurrentKeeps,
               VictimGoneKeeps, WordsHeldKeep, AgedKeeps, AloneKeeps DEF Contents
  <2>2. CASE UNCHANGED vars
    <3>1. Structure'
      BY <2>2, StructureStutters DEF Contents
    <3>2. NeverLost' /\ CleanMatches' /\ LoadsCurrent'
      <4>1. NeverLost'
        BY <2>2 DEF Contents, NeverLost, WaysOf, vars
      <4>2. CleanMatches'
        BY <2>2 DEF Contents, CleanMatches, WaysOf, vars
      <4>3. LoadsCurrent'
        BY <2>2 DEF Contents, LoadsCurrent, vars
      <4> QED BY <4>1, <4>2, <4>3
    <3>3. VictimGone' /\ WordsHeld'
      BY <2>2 DEF Contents, VictimGone, WordsHeld, Storing, WaysOf, vars
    <3>4. Aged'
      BY <2>2 DEF Contents, Aged, DirtyIn, Bound, Probing, WaysOf, vars
    <3>5. Alone'
      BY <2>2 DEF Contents, Alone, Waiting, vars
    <3> QED BY <3>1, <3>2, <3>3, <3>4, <3>5 DEF Contents
  <2> QED BY <2>1, <2>2
<1> QED BY <1>1, ContentsStart, PTL DEF Spec

\* Nothing the program stored is ever lost: it is in the one way that holds the block, in
\* the victim being written back, or in memory.
THEOREM NothingLost ==
    ASSUME Sheltered
    PROVE  Spec => []NeverLost
<1>1. Contents => NeverLost
  BY DEF Contents
<1> QED BY <1>1, ContentsInvariant, PTL

\* A clean line may be dropped: memory has every word of it.
THEOREM CleanDroppable ==
    ASSUME Sheltered
    PROVE  Spec => []CleanMatches
<1>1. Contents => CleanMatches
  BY DEF Contents
<1> QED BY <1>1, ContentsInvariant, PTL

\* Every response is the word last stored at its address.
THEOREM LoadsCorrect ==
    ASSUME Sheltered
    PROVE  Spec => []LoadsCurrent
<1>1. Contents => LoadsCurrent
  BY DEF Contents
<1> QED BY <1>1, ContentsInvariant, PTL

\* The answer that ends a wait is the one to its own request: it carries the block as
\* memory has it.
THEOREM FillAnswers ==
    ASSUME Sheltered
    PROVE  Spec => []FillIsAnswer
<1>1. Contents => FillIsAnswer
  <2> SUFFICES ASSUME Contents, Waiting, mem_rsp_good
               PROVE  mem_rsp.line = memory[Cache!block(latched)]
    BY DEF FillIsAnswer, Waiting
  <2>1. Structure /\ NeverLost
    BY DEF Contents
  <2>2. Cache!block(latched) \in Cache!Block /\ WaysOf(Cache!block(latched)) = {} /\ ~wb_pending
    BY <2>1, BlockTyped DEF Structure, Present, Control, Waiting
  <2>3. \A o \in Offsets : memory[Cache!block(latched)][o] = TRUE
    <3>1. memory[Cache!block(latched)] \in [Offsets -> BOOLEAN]
      BY <2>1, <2>2 DEF Structure, TypeOK, Cache!Line
    <3> QED BY <2>1, <2>2, <3>1, KeptIs DEF Kept
  <2>4. \A o \in Offsets : mem_rsp.line[o] = TRUE
    <3>1. mem_rsp.line \in [Offsets -> BOOLEAN]
      BY <2>1, DataCacheAssumption DEF Structure, TypeOK, mem_rsp, Answer, Cache!Line
    <3> QED BY <3>1, WaitCurrent
  <2>5. mem_rsp.line \in [Offsets -> BOOLEAN] /\ memory[Cache!block(latched)] \in [Offsets -> BOOLEAN]
    BY <2>1, <2>2, DataCacheAssumption DEF Structure, TypeOK, mem_rsp, Answer, Cache!Line
  <2> QED BY <2>3, <2>4, <2>5
<1> QED BY <1>1, ContentsInvariant, PTL

-----------------------------------------------------------------------------
(***************************************************************************)
(* The port the core sees.                                                 *)
(***************************************************************************)

\* The core's side takes a response every clock, so the FIFO never holds two.
Drained == Structure /\ Len(rsp_fifo) <= 1

\* A clock edge leaves at most one response waiting: the FIFO fills exactly when it is enabled.
LEMMA DrainedKeeps ==
    ASSUME Drained, NEW in, Signal(in), NEW writes_all \in BOOLEAN, NEW code \in CodeRequests,
           Clock(in, writes_all, code)
    PROVE  Drained' /\ (rsp_fifo' # <<>> <=> fifo_enable(in))
<1>1. Structure /\ rsp_fifo \in Seq(BOOLEAN) /\ Len(rsp_fifo) <= 1
  BY DEF Drained, Structure, TypeOK
<1>2. /\ rsp_fifo' \in Seq(BOOLEAN)
      /\ Len(rsp_fifo') = (IF rsp_fifo = <<>> THEN 0 ELSE Len(rsp_fifo) - 1)
                          + (IF fifo_enable(in) /\ Len(rsp_fifo) < 2 THEN 1 ELSE 0)
  BY <1>1, ResponsesAre
<1>3. (IF rsp_fifo = <<>> THEN 0 ELSE Len(rsp_fifo) - 1) = 0 /\ Len(rsp_fifo) < 2
  <2> DEFINE n == Len(rsp_fifo)
  <2>1. n \in Nat /\ n <= 1 /\ (rsp_fifo # <<>> => n # 0)
    BY <1>1
  <2> HIDE DEF n
  <2>2. n < 2
    BY <2>1
  <2>3. rsp_fifo # <<>> => n - 1 = 0
    BY <2>1
  <2> QED BY <2>2, <2>3 DEF n
<1>4. Len(rsp_fifo') = IF fifo_enable(in) THEN 1 ELSE 0
  <2>1. CASE fifo_enable(in)
    <3>1. Len(rsp_fifo') = 0 + 1
      BY <1>2, <1>3, <2>1, Zenon
    <3> QED BY <2>1, <3>1
  <2>2. CASE ~fifo_enable(in)
    <3>1. Len(rsp_fifo') = 0 + 0
      BY <1>2, <1>3, <2>2, Zenon
    <3> QED BY <2>2, <3>1
  <2> QED BY <2>1, <2>2
<1>5. Len(rsp_fifo') <= 1
  <2>1. CASE fifo_enable(in)
    BY <1>4, <2>1
  <2>2. CASE ~fifo_enable(in)
    BY <1>4, <2>2
  <2> QED BY <2>1, <2>2
<1>6. rsp_fifo' # <<>> <=> fifo_enable(in)
  <2>1. CASE fifo_enable(in)
    <3>1. Len(rsp_fifo') = 1
      BY <1>4, <2>1
    <3> QED BY <2>1, <3>1
  <2>2. CASE ~fifo_enable(in)
    <3>1. Len(rsp_fifo') = 0
      BY <1>4, <2>2
    <3> QED BY <1>2, <2>2, <3>1
  <2> QED BY <2>1, <2>2
<1>7. Structure'
  BY <1>1, StructureKeeps
<1> QED BY <1>5, <1>6, <1>7 DEF Drained

\* Every clock is a step of the port.
LEMMA PortStep ==
    ASSUME Drained, NEW in, Signal(in), NEW writes_all \in BOOLEAN, NEW code \in CodeRequests,
           Clock(in, writes_all, code)
    PROVE  Port!Next
<1>1. Structure /\ (rsp_fifo' # <<>> <=> fifo_enable(in))
  BY DrainedKeeps DEF Drained
<1>2. /\ state' \in States
      /\ Accepts(in) <=> Probing'
      /\ Missing(in) <=> Waiting'
      /\ Missing(in) => (state' = "READ_WAIT_MEM_RSP" <=>
                            state \in {"READ_CACHE_RSP", "READ_WAIT_MEM_RSP"})
      /\ state' = "WRITE_CACHE_DATA" <=>
            \/ state = "WRITE_CACHE_RSP" /\ hit
            \/ state = "WRITE_WAIT_MEM_RSP" /\ do_fill(in)
      /\ state' = "WRITE_EVICT_WRITEBACK" <=>
            \/ state = "READ_WAIT_MEM_RSP" /\ Evicting(in)
            \/ state = "WRITE_CACHE_DATA" /\ wb_pending
            \/ state = "WRITE_EVICT_WRITEBACK" /\ ~LastBeat
      /\ state' = "READ_FWD" <=> LastBeat /\ fwd_pending
  BY <1>1, ControllerIs
<1>3. fwd_pending' <=> \/ Evicting(in) /\ state = "READ_WAIT_MEM_RSP"
                       \/ fwd_pending /\ state # "READ_FWD"
  BY <1>1, WritebackIs
<1>4. /\ state \in States
      /\ state = "READ_FWD" => fwd_pending
      /\ fwd_pending => state \in {"READ_FWD", "WRITE_EVICT_WRITEBACK"}
  BY <1>1 DEF Structure, TypeOK, Control
<1>5. fifo_enable(in) <=>
          \/ state = "READ_CACHE_RSP" /\ hit
          \/ state = "READ_WAIT_MEM_RSP" /\ do_fill(in) /\ ~in.evicted_dirty
          \/ state = "READ_FWD"
  BY SignalIs DEF fifo_enable, do_fill
<1>6. /\ state' \in {"READ_CACHE_RSP", "READ_WAIT_MEM_RSP", "READ_FWD"} \/ fwd_pending'
            => Pending' = "load"
      /\ state' \in {"WRITE_CACHE_RSP", "WRITE_WAIT_MEM_RSP", "WRITE_CACHE_DATA"} /\ ~fwd_pending'
            => Pending' = "store"
      /\ state' \in {"IDLE", "WRITE_EVICT_WRITEBACK"} /\ ~fwd_pending' => Pending' = "none"
  BY DEF Pending
<1>7. /\ state \in {"READ_CACHE_RSP", "READ_WAIT_MEM_RSP", "READ_FWD"} \/ fwd_pending
            => Pending = "load"
      /\ state \in {"WRITE_CACHE_RSP", "WRITE_WAIT_MEM_RSP", "WRITE_CACHE_DATA"} /\ ~fwd_pending
            => Pending = "store"
      /\ state \in {"IDLE", "WRITE_EVICT_WRITEBACK"} /\ ~fwd_pending => Pending = "none"
  BY DEF Pending
<1>8. /\ Accepts(in) => Pending' \in {"load", "store"} /\ Probing'
      /\ Accepts(in) => core_rsp_ready(in)
  BY <1>2, <1>6 DEF Probing, Accepts
<1>9. CASE state = "IDLE"
  <2>1. ~fwd_pending' /\ ~fifo_enable(in) /\ Pending = "none" /\ ~Missing(in)
    BY <1>3, <1>4, <1>5, <1>7, <1>9 DEF Evicting, do_fill, Missing, Probing, Waiting
  <2>2. CASE Accepts(in)
    BY <1>1, <1>8, <2>1, <2>2 DEF Port!Next, Port!Accept, Port!Taken, Port!Requests
  <2>3. CASE ~Accepts(in)
    <3>1. state' = "IDLE"
      BY <1>2, <1>9, <2>1, <2>3 DEF States, Probing, Waiting, LastBeat, Evicting, do_fill
    <3> QED BY <1>1, <1>6, <2>1, <3>1 DEF Port!Next, Port!Wait, Probing
  <2> QED BY <2>2, <2>3
<1>10. CASE fifo_enable(in)
  <2>1. /\ state \in {"READ_CACHE_RSP", "READ_WAIT_MEM_RSP", "READ_FWD"}
        /\ Pending = "load" /\ ~fwd_pending' /\ ~Missing(in)
    <3>1. state \in {"READ_CACHE_RSP", "READ_WAIT_MEM_RSP", "READ_FWD"}
      BY <1>5, <1>10
    <3>2. ~fwd_pending'
      BY <1>3, <1>4, <1>5, <1>10 DEF Evicting
    <3>3. ~Missing(in)
      BY <1>5, <1>10 DEF Missing, Probing, Waiting
    <3> QED BY <1>7, <3>1, <3>2, <3>3
  <2>2. CASE Accepts(in)
    BY <1>1, <1>8, <1>10, <2>1, <2>2 DEF Port!Next, Port!Answer, Port!Taken, Port!Requests
  <2>3. CASE ~Accepts(in)
    <3>1. state' = "IDLE"
      BY <1>2, <1>5, <1>10, <2>1, <2>3 DEF States, Probing, Waiting, LastBeat, Evicting
    <3> QED BY <1>1, <1>6, <1>10, <2>1, <3>1 DEF Port!Next, Port!Answer, Port!Over, Probing
  <2> QED BY <2>2, <2>3
<1>11. CASE state = "WRITE_CACHE_DATA"
  <2>1. /\ ~fwd_pending' /\ ~fifo_enable(in) /\ Pending = "store" /\ ~Missing(in)
        /\ ~Accepts(in)
    BY <1>3, <1>4, <1>5, <1>7, <1>11
       DEF Evicting, do_fill, Missing, Probing, Waiting, Accepts, core_rsp_ready
  <2>2. state' \in {"IDLE", "WRITE_EVICT_WRITEBACK"}
    BY <1>2, <1>11, <2>1 DEF States, Probing, Waiting, LastBeat
  <2> QED BY <1>1, <1>6, <2>1, <2>2 DEF Port!Next, Port!Finish, Port!Over, Probing
<1>12. CASE state \notin {"IDLE", "WRITE_CACHE_DATA"} /\ ~fifo_enable(in)
  <2>1. ~Accepts(in)
    BY <1>5, <1>12, SignalIs DEF Accepts, core_rsp_ready, do_fill
  <2>2. Pending' = Pending
    <3>1. CASE state \in {"READ_CACHE_RSP", "READ_WAIT_MEM_RSP"}
      <4>1. Missing(in) \/ (state = "READ_WAIT_MEM_RSP" /\ Evicting(in))
        BY <1>5, <1>12, <3>1 DEF Missing, Probing, Waiting, Evicting
      <4>2. CASE Missing(in)
        BY <1>2, <1>6, <1>7, <3>1, <4>2
      <4>3. CASE state = "READ_WAIT_MEM_RSP" /\ Evicting(in)
        BY <1>3, <1>6, <1>7, <4>3
      <4> QED BY <4>1, <4>2, <4>3
    <3>2. CASE state \in {"WRITE_CACHE_RSP", "WRITE_WAIT_MEM_RSP"}
      <4>1. ~fwd_pending /\ ~fwd_pending'
        BY <1>3, <1>4, <3>2
      <4>2. state' \in {"WRITE_WAIT_MEM_RSP", "WRITE_CACHE_DATA"}
        <5>1. CASE Missing(in)
          BY <1>2, <3>2, <5>1 DEF Waiting
        <5>2. CASE ~Missing(in)
          BY <1>2, <3>2, <5>2 DEF Missing, Probing, Waiting
        <5> QED BY <5>1, <5>2
      <4> QED BY <1>6, <1>7, <3>2, <4>1, <4>2
    <3>3. CASE state = "WRITE_EVICT_WRITEBACK"
      <4>1. fwd_pending' <=> fwd_pending
        BY <1>3, <3>3
      <4>2. state' \in {"IDLE", "WRITE_EVICT_WRITEBACK", "READ_FWD"}
        BY <1>2, <2>1, <3>3 DEF States, Probing, Waiting, Missing
      <4>3. state' = "READ_FWD" => fwd_pending
        BY <1>2
      <4> QED BY <1>6, <1>7, <3>3, <4>1, <4>2, <4>3
    <3> QED BY <1>4, <1>5, <1>12, <3>1, <3>2, <3>3 DEF States
  <2> QED BY <1>1, <1>2, <1>12, <2>1, <2>2 DEF Port!Next, Port!Wait
<1> QED BY <1>9, <1>10, <1>11, <1>12

\* The data cache implements the port: every load is answered exactly once, no store is,
\* and a request is taken only with or after the answer to the last.
THEOREM PortRefined == Spec => ActsAsPort
<1>1. Init => Port!Init
  BY DEF Init, ControllerInit, Port!Init, Pending, Probing
<1>2. Init => Drained
  <2>1. Init => rsp_fifo = <<>>
    BY DEF Init
  <2> QED BY <2>1, StructureStarts DEF Drained
<1>3. Drained /\ [Next]_vars =>
         Drained' /\ [Port!Next]_<<Pending, Probing, rsp_fifo # <<>> >>
  <2> SUFFICES ASSUME Drained, [Next]_vars
               PROVE  Drained' /\ [Port!Next]_<<Pending, Probing, rsp_fifo # <<>> >>
    OBVIOUS
  <2>1. CASE Next
    <3>1. PICK in, writes_all, code :
              Signal(in) /\ writes_all \in BOOLEAN /\ code \in CodeRequests
              /\ Clock(in, writes_all, code)
      BY <2>1, NextIsClock
    <3>2. Drained'
      BY <3>1, DrainedKeeps
    <3>3. Port!Next
      BY <3>1, PortStep
    <3> QED BY <3>2, <3>3
  <2>2. CASE UNCHANGED vars
    <3>1. Drained'
      BY <2>2, StructureStutters DEF Drained, vars
    <3>2. UNCHANGED <<Pending, Probing, rsp_fifo # <<>> >>
      BY <2>2 DEF vars, Pending, Probing
    <3> QED BY <3>1, <3>2
  <2> QED BY <2>1, <2>2
<1> QED BY <1>1, <1>2, <1>3, PTL DEF Spec, ActsAsPort, Port!Spec
=============================================================================
