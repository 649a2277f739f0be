----------------------------- MODULE MemoryPool -----------------------------
(***************************************************************************)
(* The block allocator behind every pooled device or pinned buffer: class  *)
(* MemoryPool of src/global_thread_handle.cu.  The pool owns regions that  *)
(* it got from the CUDA driver and cuts them into blocks; a block is in    *)
(* the used list or in the free list.  Every operation runs under the      *)
(* pool's (non-recursive) mutex m_mutex2, so each one is a single action   *)
(* here; MemoryManager.tla composes them into what the threads do.         *)
(***************************************************************************)
EXTENDS Integers, Sequences, FiniteSets, SequencesExt

CONSTANTS
  PageSize,   \* m_page_size: the alignment of every block
  MaxSize,    \* m_max_size: the limit on the pool's memory, 0 for none
  Regions,    \* the regions cudaMalloc may return to the pool
  Requests    \* the sizes clients ask for

RegionType == [begin : Nat, size : Nat]

\* A block as kept in m_used_blocks and m_free_blocks.
Block == [begin : Nat, size : Nat, first : BOOLEAN]

ASSUME PageSizeAssumption == PageSize \in Nat \ {0}
ASSUME MaxSizeAssumption  == MaxSize \in Nat
ASSUME RegionsAssumption  ==
  /\ Regions \subseteq RegionType
  /\ \A r \in Regions : r.size >= PageSize
ASSUME RequestsAssumption == Requests \subseteq Nat

VARIABLES
  owned,      \* m_owned_ptrs
  used,       \* m_used_blocks: found by address only, so a set
  free,       \* m_free_blocks: its order decides what is found and merged
  poolSize,   \* m_size
  freeMem,    \* m_free_mem
  locked      \* an exception left a critical section with m_mutex2 held

poolVars == <<owned, used, free, poolSize, freeMem, locked>>

-----------------------------------------------------------------------------

End(b) == b.begin + b.size

Disjoint(a, b) == End(a) <= b.begin \/ End(b) <= a.begin

PageRoundUp(n) == PageSize * ((n + PageSize - 1) \div PageSize)

\* The first page boundary of a region: blocks are cut from there on.
Start(r) == PageRoundUp(r.begin)

\* The free block that add_memory makes of a new region.
WholeRegion(r) ==
  [begin |-> Start(r), size |-> End(r) - Start(r), first |-> TRUE]

\* cudaMalloc returns memory that nobody holds.
Fresh(r) == \A o \in owned : Disjoint(r, o)

\* The test that add_memory makes before it takes the mutex: it is not part of
\* the critical section, so PoolNext does not rely on it (see MemoryManager).
WithinLimit(r) == MaxSize = 0 \/ r.size + poolSize <= MaxSize

\* The critical section of add_memory: the region goes to the END of the list.
AddMemory(r) ==
  /\ ~locked
  /\ owned' = owned \union {r}
  /\ free' = Append(free, WholeRegion(r))
  /\ poolSize' = poolSize + WholeRegion(r).size
  /\ freeMem' = freeMem + WholeRegion(r).size
  /\ UNCHANGED <<used, locked>>

-----------------------------------------------------------------------------

\* The free blocks a request fits in, as indices of the list.
Fitting(n) == {i \in DOMAIN free : PageRoundUp(n) <= free[i].size}

\* The tightest fit; the scan keeps the first of equals.
IsBestFit(n, i) ==
  /\ i \in Fitting(n)
  /\ \A j \in Fitting(n) :
       /\ free[i].size <= free[j].size
       /\ free[i].size = free[j].size => i <= j

\* The block an allocation hands out, and what is left of the free one.
Taken(b, n) == [begin |-> b.begin, size |-> PageRoundUp(n), first |-> b.first]
\* Mutant: the rest begins right behind the requested bytes.
RestUnrounded(b, n) == [begin |-> b.begin + n,
                        size  |-> b.size - n,
                        first |-> FALSE]

Rest(b, n)  == [begin |-> b.begin + PageRoundUp(n),
                size  |-> b.size - PageRoundUp(n),
                first |-> FALSE]

\* Mutant: the statistics count the requested bytes, not the pages.
AllocateCountsRequest(n, i) ==
  /\ ~locked
  /\ n > 0
  /\ IsBestFit(n, i)
  /\ used' = used \union {Taken(free[i], n)}
  /\ free' = IF free[i].size = PageRoundUp(n)
             THEN RemoveAt(free, i)
             ELSE ReplaceAt(free, i, Rest(free[i], n))
  /\ freeMem' = freeMem - n
  /\ UNCHANGED <<owned, poolSize, locked>>

\* allocate(n) that finds a block: it returns free[i].begin.
Allocate(n, i) ==
  /\ ~locked
  /\ n > 0
  /\ IsBestFit(n, i)
  /\ used' = used \union {Taken(free[i], n)}
  /\ free' = IF free[i].size = PageRoundUp(n)
             THEN RemoveAt(free, i)
             ELSE ReplaceAt(free, i, Rest(free[i], n))
  /\ freeMem' = freeMem - PageRoundUp(n)
  /\ UNCHANGED <<owned, poolSize, locked>>

\* allocate(n) that returns NULL: the caller falls back to cudaMalloc.
AllocateNothing(n) ==
  /\ ~locked
  /\ n > 0
  /\ Fitting(n) = {}
  /\ UNCHANGED poolVars

\* allocate(0) throws between lock() and unlock(): the mutex stays held.
AllocateZero ==
  /\ ~locked
  /\ locked' = TRUE
  /\ UNCHANGED <<owned, used, free, poolSize, freeMem>>

-----------------------------------------------------------------------------

\* free(): the insertion point is before the first block at a higher address.
InsertPos(b) ==
  LET Higher == {i \in DOMAIN free : free[i].begin > b.begin}
  IN  IF Higher = {} THEN Len(free) + 1 ELSE Min(Higher)

\* Mutant: m_first is not looked at.
CanMergeAnyway(s, k) ==
  /\ k \in 1..(Len(s) - 1)
  /\ End(s[k]) = s[k+1].begin

\* Neighbours s[k], s[k+1] of the list that free() would merge.
CanMerge(s, k) ==
  /\ k \in 1..(Len(s) - 1)
  /\ End(s[k]) = s[k+1].begin
  /\ ~s[k+1].first

\* s[lo..hi] is the first maximal run of mergeable neighbours in the list.
IsFirstRun(s, lo, hi) ==
  /\ lo \in DOMAIN s /\ hi \in DOMAIN s /\ lo < hi
  /\ \A k \in 1..(lo - 1) : ~CanMerge(s, k)
  /\ \A k \in lo..(hi - 1) : CanMerge(s, k)
  /\ ~CanMerge(s, hi)

\* Mutant: the size of the last merged block only.
MergedLastOnly(s, lo, hi) == [s[lo] EXCEPT !.size = s[lo].size + s[hi].size]

\* One block for the run: the sizes of contiguous blocks add up to this.
Merged(s, lo, hi) == [s[lo] EXCEPT !.size = End(s[hi]) - s[lo].begin]

ReplaceRun(s, lo, hi) ==
  SubSeq(s, 1, lo - 1) \o <<Merged(s, lo, hi)>> \o SubSeq(s, hi + 1, Len(s))

\* free() merges that run and no other.
IsCoalesced(s, t) ==
  IF \E k \in DOMAIN s : CanMerge(s, k)
  THEN \E lo, hi \in DOMAIN s : IsFirstRun(s, lo, hi) /\ t = ReplaceRun(s, lo, hi)
  ELSE t = s

\* free() of the block b, which is in the used list.
Free(b) ==
  /\ ~locked
  /\ b \in used
  /\ IsCoalesced(InsertAt(free, InsertPos(b), b), free')
  /\ used' = used \ {b}
  /\ freeMem' = freeMem + b.size
  /\ UNCHANGED <<owned, poolSize, locked>>

-----------------------------------------------------------------------------

\* The constructors of PinnedMemoryPool and DeviceMemoryPool: one region.
PoolInit ==
  \E r \in Regions :
    /\ MaxSize = 0 \/ r.size <= MaxSize
    /\ owned = {r}
    /\ used = {}
    /\ free = <<WholeRegion(r)>>
    /\ poolSize = WholeRegion(r).size
    /\ freeMem = WholeRegion(r).size
    /\ locked = FALSE

PoolNext ==
  \/ \E r \in Regions : Fresh(r) /\ AddMemory(r)
  \/ \E n \in Requests, i \in DOMAIN free : Allocate(n, i)
  \/ \E n \in Requests : AllocateNothing(n)
  \/ 0 \in Requests /\ AllocateZero
  \/ \E b \in used : Free(b)

PoolSpec == PoolInit /\ [][PoolNext]_poolVars

-----------------------------------------------------------------------------

\* Type invariant of the pool: lists of well-formed, non-empty blocks.
PoolTypeOK ==
  /\ owned \subseteq Regions
  /\ used \subseteq Block
  /\ free \in Seq(Block)
  /\ \A b \in used \union ToSet(free) : b.size > 0
  /\ poolSize \in Int /\ freeMem \in Int
  /\ locked \in BOOLEAN

\* allocate() and free() move blocks between the two lists and split and
\* merge them, and never make two blocks share a byte.
NoOverlap ==
  /\ \A a, b \in used : a # b => Disjoint(a, b)
  /\ \A b \in used, i \in DOMAIN free : Disjoint(b, free[i])
  /\ \A i, j \in DOMAIN free : i # j => Disjoint(free[i], free[j])

Covers(b, p) == b.begin <= p /\ p < End(b)

Within(b, r) == Start(r) <= b.begin /\ End(b) <= End(r)

\* Nor is a byte of a region ever lost: used and free blocks together cover
\* every byte from the region's first page boundary to its end.
NoLeak ==
  \A r \in owned : \A p \in Start(r)..(End(r) - 1) :
    \/ \E b \in used : Covers(b, p)
    \/ \E i \in DOMAIN free : Covers(free[i], p)

\* A block never spans two regions, even when the driver returns adjacent
\* ones: free() relies on m_first to stop a merge at a region's boundary.
RegionsApart ==
  \A b \in used \union ToSet(free) : \E r \in owned : Within(b, r)

\* The two lists always partition the owned regions: whatever the order of
\* allocate(), free() and add_memory() calls and of the addresses the driver
\* returns, every byte is in exactly one block, and in one of its own region.
BlocksTileRegions == NoOverlap /\ NoLeak /\ RegionsApart

Bytes(S) == UNION {b.begin..(End(b) - 1) : b \in S}

\* The statistics get_free_mem() and get_used_mem() report are the numbers of
\* bytes in the two lists, after any series of splits, merges and growth.
AccountingExact ==
  /\ freeMem = Cardinality(Bytes(ToSet(free)))
  /\ poolSize - freeMem = Cardinality(Bytes(used))

-----------------------------------------------------------------------------

\* The blocks of both lists tile the owned regions; the last conjunct is what
\* stops free() at the boundary of two regions that the driver put side by side.
Tiles(O, L) ==
  /\ L \subseteq Block
  /\ \A b \in L : b.size > 0
  /\ \A a, b \in L : a # b => Disjoint(a, b)
  /\ \A r \in O : \A p \in Start(r)..(End(r) - 1) : \E b \in L : Covers(b, p)
  /\ \A b \in L : \E r \in O : Within(b, r)
  /\ \A b \in L : \A r \in O : b.begin = Start(r) => b.first

RegionsDisjoint(O) ==
  /\ O \subseteq Regions
  /\ \A r, o \in O : r # o => Disjoint(r, o)

Once(s) == \A i, j \in 1..Len(s) : s[i] = s[j] => i = j

\* The inductive invariant of the proofs.
PoolInv ==
  /\ RegionsDisjoint(owned)
  /\ Tiles(owned, used \union ToSet(free))
  /\ used \intersect ToSet(free) = {}
  /\ free \in Seq(Block) /\ Once(free)
  /\ poolSize \in Int /\ freeMem \in Int /\ locked \in BOOLEAN

Abstract == INSTANCE Allocator WITH
  memory <- {[begin |-> Start(r), size |-> End(r) - Start(r)] : r \in owned},
  lent   <- {[begin |-> b.begin, size |-> b.size] : b \in used}

\* To its clients the pool is the abstract allocator: every step of it lends
\* an unlent piece, takes one back, grows the memory or changes nothing.
ImplementsAllocator == Abstract!AllocSpec
=============================================================================
