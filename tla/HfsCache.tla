------------------------------- MODULE HfsCache -------------------------------
(****************************************************************************)
(* The block cache of the HFS library (fs/hfs/block.c).  Buckets are linked *)
(* in a ring, cold ones at the tail, and in hash lists by block number.  A  *)
(* miss takes the bucket at the tail and reads ahead into the ones before   *)
(* it; a hit moves a bucket one place towards the head.                     *)
(*                                                                          *)
(* The ring keeps its pointers, cnext and cprev, because the code relinks   *)
(* them by hand; a hash list is a sequence.  The content of a block is its  *)
(* number.  The medium is read only (hfs_mount sets HFS_VOL_READONLY), so   *)
(* no bucket is ever dirty.                                                 *)
(****************************************************************************)
EXTENDS Integers, Sequences, FiniteSets, FiniteSetsExt

CONSTANTS HcSize,      \* HFS_CACHESZ, buckets
          HcSlots,     \* HFS_HASHSZ, a power of two
          HcAhead,     \* HFS_BLOCKBUFSZ >> 1, blocks of one fill
          HcBlocks,    \* vol->vlen
          HcMaxCount,  \* bound on the hit counters
          HcKeepsCold  \* clients leave a bucket with few hits before the tail

ASSUME HfsCacheAssumption ==
    /\ HcSize \in Nat /\ HcSlots \in Nat \ {0} /\ HcAhead \in Nat \ {0}
    /\ HcAhead < HcSize /\ HcBlocks \in Nat /\ HcMaxCount \in Nat
    /\ HcKeepsCold \in BOOLEAN

VARIABLES cache,  \* the buckets, the ring and the hash lists
          lb      \* the last b_readlb: block asked for and block delivered

hcVars == <<cache, lb>>

Buckets == 1 .. HcSize
HcGarbage == -1
HcFailed == -2

\* b_init: an empty ring in the order of the array.
b_init ==
    [ inuse |-> [b \in Buckets |-> FALSE], count |-> [b \in Buckets |-> 0],
      bnum  |-> [b \in Buckets |-> 0], data |-> [b \in Buckets |-> HcGarbage],
      next  |-> [b \in Buckets |-> IF b = HcSize THEN 1 ELSE b + 1],
      prev  |-> [b \in Buckets |-> IF b = 1 THEN HcSize ELSE b - 1],
      tail  |-> HcSize, hash |-> [s \in 0 .. HcSlots - 1 |-> <<>>] ]

HashSlot(n) == n % HcSlots

\* The bucket in use for block n, or 0.
findbucket(c, n) ==
    LET found == { i \in DOMAIN c.hash[HashSlot(n)] :
                     LET b == c.hash[HashSlot(n)][i]
                     IN  c.inuse[b] /\ c.bnum[b] = n }
    IN  IF found = {} THEN 0 ELSE c.hash[HashSlot(n)][Min(found)]

reuse(c, b, n) ==
    [c EXCEPT !.inuse[b] = FALSE, !.count[b] = 1, !.bnum[b] = n]

\* The first bucket from p on that had no second hit; the others lose one.
RECURSIVE Cooled(_, _)
Cooled(c, p) ==
    IF c.count[p] > 1 THEN Cooled([c EXCEPT !.count[p] = @ - 1], c.next[p])
                      ELSE [cache |-> c, place |-> p]

\* Bucket b, taken out and put before p.  When p is b itself the ring comes
\* out broken: b points to itself in both directions.
cplace(c0, b) ==
    LET cooled == Cooled(c0, c0.next[c0.tail])
        p  == cooled.place
        c1 == [cooled.cache EXCEPT !.prev[cooled.cache.next[b]] = cooled.cache.prev[b]]
        c2 == [c1 EXCEPT !.next[c1.prev[b]] = c1.next[b]]
        c3 == [c2 EXCEPT !.tail = IF @ = b THEN c2.prev[b] ELSE @]
        c4 == [c3 EXCEPT !.prev[b] = c3.prev[p]]
        c5 == [c4 EXCEPT !.next[b] = p]
        c6 == [c5 EXCEPT !.next[c5.prev[p]] = b]
    IN  [c6 EXCEPT !.prev[p] = b]

\* Bucket b, first in slot s and in no other.
hplace(c, s, b) ==
    IF c.hash[s] # <<>> /\ Head(c.hash[s]) = b THEN c ELSE
    LET rest == [t \in DOMAIN c.hash |-> SelectSeq(c.hash[t], LAMBDA x : x # b)]
    IN  [c EXCEPT !.hash = [rest EXCEPT ![s] = <<b>> \o @]]

\* The bucket that was before b is not told that b is before it now.
Warmer_Back(c0, b) ==
    LET c == [c0 EXCEPT !.count[b] = @ + 1]
        p == c.prev[b]
    IN  IF ~(c.count[b] > c.count[p] /\ b # c.next[c.tail]) THEN c ELSE
        LET c1 == [c  EXCEPT !.next[c.prev[p]] = b]
            c2 == [c1 EXCEPT !.prev[c1.next[b]] = p]
            c3 == [c2 EXCEPT !.next[p] = c2.next[b]]
            c4 == [c3 EXCEPT !.prev[b] = c3.prev[p]]
            c5 == [c4 EXCEPT !.next[b] = p]
        IN  [c5 EXCEPT !.tail = IF @ = b THEN p ELSE @]

\* A hit: b changes places with the bucket before it if it is hotter now.
Warmer(c0, b) ==
    LET c == [c0 EXCEPT !.count[b] = @ + 1]
        p == c.prev[b]
    IN  IF ~(c.count[b] > c.count[p] /\ b # c.next[c.tail]) THEN c ELSE
        LET c1 == [c  EXCEPT !.next[c.prev[p]] = b]
            c2 == [c1 EXCEPT !.prev[c1.next[b]] = p]
            c3 == [c2 EXCEPT !.next[p] = c2.next[b]]
            c4 == [c3 EXCEPT !.prev[b] = c3.prev[p]]
            c5 == [c4 EXCEPT !.prev[p] = b, !.next[b] = p]
        IN  [c5 EXCEPT !.tail = IF @ = b THEN p ELSE @]

\* The buckets a miss on block n takes, coldest first, with the cache after
\* they were reused: it stops at the end of the volume and at a block that is
\* cached already.
RECURSIVE Taken(_, _, _, _)
Taken(c, chain, bptr, n) ==
    IF Len(chain) < HcAhead /\ n < HcBlocks /\ findbucket(c, n) = 0
    THEN Taken(reuse(c, bptr, n), Append(chain, bptr), c.prev[bptr], n + 1)
    ELSE [cache |-> c, chain |-> chain]

\* fillchain: the blocks arrive together or not at all.
Filled(c, chain) ==
    LET in == {chain[i] : i \in DOMAIN chain}
    IN  [c EXCEPT !.inuse = [b \in Buckets |-> @[b] \/ b \in in],
                  !.data  = [b \in Buckets |-> IF b \in in THEN c.bnum[b] ELSE @[b]]]

\* The buckets read ahead, the last one first, then b go near the head.
RECURSIVE Placed(_, _, _)
Placed(c, chain, i) ==
    IF i = 0 THEN c ELSE
    LET b == chain[i]
    IN  Placed(hplace(cplace(c, b), HashSlot(c.bnum[b]), b), chain, i - 1)

Miss(c, n) == Taken(reuse(c, c.tail, n), <<c.tail>>, c.prev[c.tail], n + 1)

\* getbucket with fill set: the cache afterwards and the bucket, 0 on failure.
getbucket(c, n, ok) ==
    LET b == findbucket(c, n)
        m == Miss(c, n)
    IN  CASE b # 0 -> [cache |-> hplace(Warmer(c, b), HashSlot(n), b), bucket |-> b]
          [] b = 0 /\ ok ->
               [cache |-> Placed(Filled(m.cache, m.chain), m.chain, Len(m.chain)),
                bucket |-> c.tail]
          [] OTHER -> [cache |-> m.cache, bucket |-> 0]

\* Every bucket that is moved finds its place before itself.
FindsPlace(c, n) ==
    findbucket(c, n) = 0 =>
      LET m == Miss(c, n)
      IN  \E b \in Buckets \ {m.chain[i] : i \in DOMAIN m.chain} :
            c.count[b] <= 1

\* ok: the device delivers the blocks asked for.
b_readlb ==
    \E n \in 0 .. HcBlocks, ok \in BOOLEAN :
      /\ n < HcBlocks /\ findbucket(cache, n) # 0 =>
           cache.count[findbucket(cache, n)] < HcMaxCount
      /\ HcKeepsCold => (n < HcBlocks => FindsPlace(cache, n))
      /\ IF n >= HcBlocks
         THEN lb' = [asked |-> n, got |-> HcFailed] /\ UNCHANGED cache
         ELSE LET g == getbucket(cache, n, ok) IN
              /\ cache' = g.cache
              /\ lb' = [asked |-> n,
                        got |-> IF g.bucket = 0 THEN HcFailed
                                ELSE g.cache.data[g.bucket]]

HcInit == cache = b_init /\ lb = [asked |-> 0, got |-> HcFailed]

\* hfs_umount and the next mount: a new cache.
b_finish == cache # b_init /\ cache' = b_init /\ lb' = [asked |-> 0, got |-> HcFailed]

HcNext == b_readlb \/ b_finish

HcSpec == HcInit /\ [][HcNext]_hcVars

-----------------------------------------------------------------------------
\* A read that succeeds delivers the block that was asked for, whatever was
\* cached, evicted, read ahead or not delivered before (b_readlb,
\* block.c:517-542).
DeliversBlock == lb.got # HcFailed => lb.got = lb.asked

\* A block is in at most one bucket, and that bucket is found: it is in the
\* hash list of its number, once, and in no other (findbucket and hplace,
\* block.c:281-295, 360-378).
CachedOnceAndFound ==
    \A b \in Buckets : cache.inuse[b] =>
      /\ findbucket(cache, cache.bnum[b]) = b
      /\ cache.data[b] = cache.bnum[b]
      /\ \A s \in DOMAIN cache.hash :
           Cardinality({i \in DOMAIN cache.hash[s] : cache.hash[s][i] = b})
             = IF s = HashSlot(cache.bnum[b]) THEN 1 ELSE 0

\* The ring goes through every bucket in both directions (cplace: "move a
\* bucket to an appropriate place near head of the chain", block.c:333).
RECURSIVE Reached(_, _, _)
Reached(f, b, seen) == IF b \in seen THEN seen ELSE Reached(f, f[b], seen \cup {b})

RingWhole ==
    /\ Reached(cache.next, cache.tail, {}) = Buckets
    /\ \A b \in Buckets : cache.prev[cache.next[b]] = b

\* Searching, evicting, reading ahead and the reordering of the ring leave the
\* cache whole, and it delivers the block that was asked for.
CacheRight == DeliversBlock /\ CachedOnceAndFound /\ RingWhole
=============================================================================
