------------------------------ MODULE MemoryPool ------------------------------
(***************************************************************************)
(* The memory pools of src/app/atp_memory_pool.cpp and the policies of     *)
(* atp_memory_policy.cpp: a helper that creates pools, caches released     *)
(* ones by size class and counts what it has taken from the heap, and      *)
(* pools that hand out memory from a list of chunks.  A heap block is a    *)
(* number, an address an offset in a block; a pool is at the start of its  *)
(* first block, followed by its embedded chunk.                            *)
(***************************************************************************)
EXTENDS Integers, Sequences, FiniteSetsExt

CONSTANTS
  SizeArray,    \* pool_size_array
  PoolSize, ChunkSize, Alignment,  \* sizeof(pool_t), sizeof(pool_chunk_t), ATP_MEMORY_POOL_ALIGN
  MaxCapacity,  \* max_capacity_
  InitSizes, IncrSizes, AllocSizes,  \* arguments of create_pool and pool_alloc
  MaxBlocks     \* bound: the heap's blocks

Blocks == 1..MaxBlocks
Classes == Len(SizeArray)

\* The headers are structs of words, the alignment; pool_size_array ascends, and its first
\* class holds the headers, as create_pool__ asserts.
ASSUME MemoryAssumption ==
  /\ PoolSize \in Nat /\ ChunkSize \in Nat /\ Alignment \in Nat \ {0} /\ MaxCapacity \in Nat /\ MaxBlocks \in Nat
  /\ PoolSize % Alignment = 0 /\ ChunkSize % Alignment = 0 /\ ChunkSize > 0
  /\ SizeArray \in Seq(Nat) /\ SizeArray # <<>> /\ SizeArray[1] >= PoolSize + ChunkSize
  /\ \A i, j \in 1..Classes : i < j => SizeArray[i] < SizeArray[j]
  /\ InitSizes \subseteq Nat /\ IncrSizes \subseteq Nat /\ AllocSizes \subseteq Nat \ {0}

VARIABLES
  heap,      \* size of each block, 0 when it is not allocated
  pools,     \* the pools there are, by their block
  used,      \* used_pool_list_
  free,      \* free_pool_list_, by class
  count,     \* used_count_
  capacity,  \* capacity_
  usedSize,  \* used_size_
  growing,   \* the pool_alloc that is inside on_chunk_alloc, or empty
  given,     \* history: the memory handed out by used pools
  failed,    \* history: the sum of the sizes the heap refused
  raced,     \* history: used_size_ changed while a pool was growing
  fault      \* "no" or "invalid free"

mem == <<heap, pools, used, free, count, capacity, usedSize, growing, given, failed, raced, fault>>

PoolsInit ==
  /\ heap = [b \in Blocks |-> 0] /\ pools = [p \in {} |-> 0]
  /\ used = {} /\ free = [i \in 1..Classes |-> <<>>]
  /\ count = 0 /\ capacity = 0 /\ usedSize = 0 /\ growing = <<>>
  /\ given = {} /\ failed = 0 /\ raced = FALSE /\ fault = "no"

\* atp_binary_search: the first class that is large enough, Classes + 1 if none is.
Spans == [left : 1..Classes + 1, right : 0..Classes, pos : 1..Classes]
Narrowed(value, s, mid) ==
  IF SizeArray[mid] >= value THEN [s EXCEPT !.right = mid - 1, !.pos = mid] ELSE [s EXCEPT !.left = mid + 1]
BinarySearch(value) ==
  LET loop[s \in Spans] ==
        IF s.left > s.right THEN s.pos ELSE loop[Narrowed(value, s, (s.left + s.right) \div 2)]
  IN  CASE SizeArray[1] >= value -> 1
        [] SizeArray[Classes] < value -> Classes + 1
        [] OTHER -> loop[[left |-> 1, right |-> Classes, pos |-> 1]]

Aligned(n) == IF n % Alignment = 0 THEN n ELSE ((n + Alignment) \div Alignment) * Alignment

\* A chunk whose header is at offset at of block blk.
Chunk(blk, at, end) == [blk |-> blk, buf |-> at + ChunkSize, cur |-> Aligned(at + ChunkSize), end |-> end]

\* pool_alloc_from_chunk: end_ - cur_ as a size_t, which is large when cur_ is behind end_.
Room(c, size) == c.end < c.cur \/ c.end - c.cur >= Aligned(size)
Fits(p, size) == {i \in DOMAIN pools[p].chunks : Room(pools[p].chunks[i], size)}

FreeBlock == CHOOSE b \in Blocks : heap[b] = 0
HeapHasRoom == \E b \in Blocks : heap[b] = 0

-----------------------------------------------------------------------------
(* create_pool__                                                           *)

Cached(pos) == IF pos <= Classes THEN free[pos] ELSE <<>>

\* A cached pool of the class is used again as it is.
Reuse(init, incr) ==
  LET pos == BinarySearch(init) IN
  /\ Cached(pos) # <<>>
  /\ LET p == Head(free[pos]) IN
     /\ free' = [free EXCEPT ![pos] = Tail(@)]
     /\ pools' = [pools EXCEPT ![p].incr = incr, ![p].asked = init]
     /\ capacity' = IF capacity > pools[p].cap THEN capacity - pools[p].cap ELSE 0
     /\ used' = used \cup {p} /\ count' = count + 1
  /\ UNCHANGED <<heap, usedSize, growing, given, failed, raced, fault>>

\* Counted before calloc, which may fail.
Create(init, incr) ==
  LET pos == BinarySearch(init)
      size == IF pos <= Classes THEN SizeArray[pos] ELSE init
      p == FreeBlock IN
  /\ Cached(pos) = <<>>
  /\ usedSize' = usedSize + size
  /\ raced' = (raced \/ growing # <<>>)
  /\ \/ /\ HeapHasRoom
        /\ heap' = [heap EXCEPT ![p] = size]
        /\ pools' = [q \in DOMAIN pools \cup {p} |->
                       IF q # p THEN pools[q]
                       ELSE [cap |-> size, incr |-> incr, pos |-> pos, asked |-> init,
                             chunks |-> <<Chunk(p, PoolSize, size)>>]]
        /\ used' = used \cup {p} /\ count' = count + 1
        /\ UNCHANGED failed
     \/ /\ failed = 0 /\ failed' = size
        /\ UNCHANGED <<heap, pools, used, count>>
  /\ UNCHANGED <<free, capacity, growing, given, fault>>

-----------------------------------------------------------------------------
(* pool_alloc                                                              *)

\* pool_alloc and the search of pool_alloc_find: the first chunk with room.
Take_CurKept(p, size) ==
  /\ p \in used /\ Fits(p, size) # {}
  /\ LET c == pools[p].chunks[Min(Fits(p, size))] IN
     given' = given \cup {[pool |-> p, blk |-> c.blk, from |-> c.cur, to |-> c.cur + size]}
  /\ UNCHANGED <<heap, pools, used, free, count, capacity, usedSize, growing, failed, raced, fault>>
Take(p, size) ==
  /\ p \in used /\ Fits(p, size) # {}
  /\ LET i == Min(Fits(p, size))  c == pools[p].chunks[i] IN
     /\ pools' = [pools EXCEPT ![p].chunks[i].cur = @ + Aligned(size)]
     /\ given' = given \cup {[pool |-> p, blk |-> c.blk, from |-> c.cur, to |-> c.cur + size]}
  /\ UNCHANGED <<heap, used, free, count, capacity, usedSize, growing, failed, raced, fault>>

\* The size of a new chunk.
NewChunkSize(incr, size) ==
  IF incr >= size + ChunkSize THEN incr
  ELSE incr * ((size + ChunkSize + incr + Alignment) \div incr)

\* No chunk has room: the policy's chunk_alloc adds to used_size_ without the mutex.
GrowPool(p, size) ==
  /\ p \in used /\ Fits(p, size) = {} /\ pools[p].incr > 0 /\ growing = <<>>
  /\ growing' = <<[pool |-> p, size |-> size, loaded |-> usedSize]>>
  /\ UNCHANGED <<heap, pools, used, free, count, capacity, usedSize, given, failed, raced, fault>>

\* create_chunk_append_pool puts the chunk at the head of the list, and the memory
\* is taken from it if it has room.
Grown ==
  /\ growing # <<>>
  /\ LET g == growing[1]  p == g.pool
         size == NewChunkSize(pools[p].incr, g.size)
         b == FreeBlock
         c == Chunk(b, 0, size)
         fits == Room(c, g.size) IN
     /\ usedSize' = g.loaded + size
     /\ \/ /\ HeapHasRoom
           /\ heap' = [heap EXCEPT ![b] = size]
           /\ pools' = [pools EXCEPT
                          ![p].cap = @ + size,
                          ![p].chunks = <<IF fits THEN [c EXCEPT !.cur = @ + Aligned(g.size)] ELSE c>> \o @]
           /\ given' = IF fits THEN given \cup {[pool |-> p, blk |-> b, from |-> c.cur, to |-> c.cur + g.size]}
                       ELSE given
           /\ UNCHANGED failed
        \/ /\ failed = 0 /\ failed' = size
           /\ UNCHANGED <<heap, pools, given>>
  /\ growing' = <<>>
  /\ UNCHANGED <<used, free, count, capacity, raced, fault>>

-----------------------------------------------------------------------------
(* release_pool__, pool_helper_destroy                                     *)

\* release_pool2 takes the first chunk of the list for the embedded one.
ReleasePool2(p) ==
  /\ heap' = [heap EXCEPT ![p] = 0]
  /\ pools' = [q \in DOMAIN pools \ {p} |-> pools[q]]
  /\ usedSize' = usedSize - pools[p].chunks[1].end
  /\ fault' = IF Len(pools[p].chunks) > 1 THEN "invalid free" ELSE fault
  /\ raced' = (raced \/ growing # <<>>)

Cacheable(p) ==
  /\ pools[p].pos <= Classes
  /\ pools[p].cap + capacity <= MaxCapacity
  /\ pools[p].cap <= SizeArray[Classes]

Busy(p) == growing # <<>> /\ growing[1].pool = p

Release(p) ==
  /\ p \in used /\ ~Busy(p)
  /\ used' = used \ {p} /\ count' = count - 1
  /\ given' = {g \in given : g.pool # p}
  /\ IF Cacheable(p)
     THEN /\ free' = [free EXCEPT ![pools[p].pos] = Append(@, p)]
          /\ capacity' = capacity + pools[p].cap
          /\ UNCHANGED <<heap, pools, usedSize, fault, raced>>
     ELSE ReleasePool2(p) /\ UNCHANGED <<free, capacity>>
  /\ UNCHANGED <<growing, failed>>

\* The helper is destroyed, then created and initialised again.
DestroyHelper ==
  /\ growing = <<>> /\ DOMAIN pools # {}
  /\ heap' = [b \in Blocks |-> IF b \in DOMAIN pools THEN 0 ELSE heap[b]]
  /\ pools' = [q \in {} |-> 0]
  /\ used' = {} /\ free' = [i \in 1..Classes |-> <<>>] /\ count' = 0 /\ capacity' = 0
  /\ usedSize' = 0 /\ given' = {} /\ failed' = 0 /\ raced' = FALSE
  /\ fault' = IF \E p \in DOMAIN pools : Len(pools[p].chunks) > 1 THEN "invalid free" ELSE fault
  /\ UNCHANGED growing

PoolsNext ==
  /\ fault = "no"
  /\ \/ Grown
     \/ \E init \in InitSizes, incr \in IncrSizes : Reuse(init, incr) \/ Create(init, incr)
     \/ \E p \in DOMAIN pools : \/ Release(p)
                                \/ ~Busy(p) /\ \E size \in AllocSizes : Take(p, size) \/ GrowPool(p, size)
     \/ DestroyHelper

PoolsSpec == PoolsInit /\ [][PoolsNext]_mem

-----------------------------------------------------------------------------
(* Properties.                                                             *)

\* Memory handed out is aligned, lies inside its block behind the headers, and no
\* two pieces overlap, however pools are grown, cached and used again.
GivenIsSound ==
  /\ \A g \in given :
       /\ g.from % Alignment = 0 /\ g.to <= heap[g.blk]
       /\ g.from >= ChunkSize + (IF g.blk = g.pool THEN PoolSize ELSE 0)
  /\ \A g, h \in given : g # h /\ g.blk = h.blk => g.to <= h.from \/ h.to <= g.from

\* A pool is at least as large as was asked for, and its class is the smallest that is.
PoolFits ==
  \A p \in used :
    LET pool == pools[p] IN
    /\ pool.cap >= pool.asked
    /\ pool.pos \in 1..Classes + 1 /\ \A i \in 1..Classes : SizeArray[i] >= pool.asked <=> pool.pos <= i

\* The sum over the blocks, in the order of their numbers.
Total(f) ==
  LET upTo[n \in 0..MaxBlocks] == IF n = 0 THEN 0 ELSE upTo[n - 1] + f[n]
  IN  upTo[MaxBlocks]

\* capacity_ is the memory of the cached pools and never exceeds max_capacity_, and
\* a pool is either in use, and counted, or cached.
CachedPools == UNION {{free[i][j] : j \in DOMAIN free[i]} : i \in 1..Classes}
CacheIsBounded ==
  fault = "no" =>
    /\ capacity = Total([b \in Blocks |-> IF b \in CachedPools THEN pools[b].cap ELSE 0])
    /\ capacity <= MaxCapacity
    /\ DOMAIN pools = used \cup CachedPools /\ used \cap CachedPools = {}
    /\ count = Total([b \in Blocks |-> IF b \in used THEN 1 ELSE 0])

\* used_size_ is what was taken from the heap, plus what the heap refused, unless
\* another thread changed it while a pool was growing without the mutex.
UsedSizeIsExact ==
  fault = "no" /\ ~raced /\ growing = <<>> => usedSize = Total(heap) + failed

\* release_pool2 frees an address that no allocation returned only when a pool that
\* has grown is given back to the heap; a pool that never grew is released cleanly.
InvalidFreeNeedsGrowth ==
  [][fault' # "no" => \E p \in DOMAIN pools : Len(pools[p].chunks) > 1 /\ heap'[p] = 0]_mem

\* Pools: memory handed out is aligned, in its block and never overlaps, classes fit, the
\* counters are those of the heap, and only a pool that grew is released wrongly.
PoolsAreSound ==
  /\ InvalidFreeNeedsGrowth
  /\ [](GivenIsSound /\ PoolFits /\ CacheIsBounded /\ UsedSizeIsExact)
=============================================================================
