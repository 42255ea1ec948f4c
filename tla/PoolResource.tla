---------------------------- MODULE PoolResource ----------------------------
(***************************************************************************)
(* PoolResource of src/utils/memory.cpp, with the impl::Pool it keeps one  *)
(* of per block size.                                                      *)
(*                                                                         *)
(* A Pool hands out equal blocks from chunks it takes from its upstream    *)
(* resource, through a free list.  PoolResource routes a request of        *)
(* max(bytes, alignment) bytes to the pool of that block size (kept in     *)
(* pools_, sorted by block size, and created on first use), remembers the  *)
(* last pool it allocated from and deallocated to (last_alloc_pool_,       *)
(* last_dealloc_pool_), and sends larger requests straight upstream,       *)
(* recording them in unpooled_, sorted by address.                         *)
(*                                                                         *)
(* Addresses are abstract: a chunk or big block is an address from Addrs,  *)
(* and block i of the chunk at c is <<c, i>>.  Only their order matters,   *)
(* for unpooled_.  The caller is correct: it deallocates only a block it   *)
(* holds, with the bytes and alignment it allocated it with (the contract  *)
(* of MemoryResource).  A call is one atomic step: PoolResource is not     *)
(* thread-safe, and its users serialize calls.                             *)
(***************************************************************************)
EXTENDS Naturals, Sequences, FiniteSets

LOCAL INSTANCE SequencesExt
LOCAL INSTANCE BagsExt

CONSTANTS
    Requests,            \* the <<bytes, alignment>> requests the program makes
    MaxBlockSize,        \* max_block_size_
    BlocksPerChunk,      \* max_blocks_per_chunk_, after the min with MaxBlocksInChunk
    Addrs,               \* addresses the upstream resources may return
    UpstreamIsMonotonic  \* the pools' upstream is a MonotonicBufferResource

ASSUME /\ Requests \subseteq (Nat \ {0}) \X (Nat \ {0})
       /\ MaxBlockSize \in Nat \ {0}
       /\ BlocksPerChunk \in 1..255
       /\ Addrs \subseteq Nat
       /\ UpstreamIsMonotonic \in BOOLEAN

VARIABLES
    pools,              \* pools_: <<[block_size, chunks, free]>>, in vector order
    unpooled,           \* unpooled_: <<[data, bytes, alignment]>>
    last_alloc_pool,    \* position of *last_alloc_pool_ in pools_, 0 for nullptr
    last_dealloc_pool,  \* position of *last_dealloc_pool_, 0 for nullptr
    cached_size,        \* history: the block size of the pool each cache was set to
    upstream,           \* addresses held from the upstream resources
    live                \* history: the bag of blocks handed out and not yet returned

vars == <<pools, unpooled, last_alloc_pool, last_dealloc_pool, cached_size, upstream, live>>

Bytes(r) == r[1]
Alignment(r) == r[2]

\* std::max(bytes, alignment): the block size a request is served with.
BlockSizeOf(r) == IF Bytes(r) >= Alignment(r) THEN Bytes(r) ELSE Alignment(r)

\* A block handed to the caller, with the request it was handed out for.
Handed(block, r) == [block |-> block, bytes |-> Bytes(r), alignment |-> Alignment(r)]

\* A big block is <<address, 0>>.
BigBlock(a) == <<a, 0>>

\* Faulty variant, for mutation: std::upper_bound (a <= comparator) where
\* std::lower_bound is meant.
RECURSIVE UpperBound(_, _, _, _)
UpperBound(keys, lo, count, v) ==
    IF count = 0 THEN lo
    ELSE LET step == count \div 2
         IN  IF keys[lo + step] <= v
             THEN UpperBound(keys, lo + step + 1, count - step - 1, v)
             ELSE UpperBound(keys, lo, step, v)

\* std::lower_bound over positions lo..lo+count-1 of the keys, as the
\* standard library's binary search computes it: the first position whose
\* key is not less than v, if the keys are sorted.
RECURSIVE LowerBound(_, _, _, _)
LowerBound(keys, lo, count, v) ==
    IF count = 0 THEN lo
    ELSE LET step == count \div 2
         IN  IF keys[lo + step] < v
             THEN LowerBound(keys, lo + step + 1, count - step - 1, v)
             ELSE LowerBound(keys, lo, step, v)

\* The position std::lower_bound finds for the pool of block size bs.
PoolPosition(bs) ==
    LowerBound([i \in 1..Len(pools) |-> pools[i].block_size], 1, Len(pools), bs)

-----------------------------------------------------------------------------
(* impl::Pool.                                                             *)

\* A Pool as its constructor leaves it: no chunks, an empty free list.
NewPool(bs) == [block_size |-> bs, chunks |-> << >>, free |-> << >>]

\* Chunk::build_freelist: every block of the new chunk, in address order.
ChunkBlocks(c) == [i \in 1..BlocksPerChunk |-> <<c, i>>]

\* Faulty variant, for mutation: the chunk is not given back when
\* chunks_.emplace_front throws.
ReturnChunkLeak(c) == upstream' = upstream \cup {c}

\* The catch of Pool::Allocate: chunks_.emplace_front threw after the
\* upstream handed out c, so c is deallocated and the exception rethrown.
ReturnChunk(c) == upstream' = upstream

\* Faulty variant, for mutation: the block is read off the free list
\* without popping it.
PoolAllocateNoPop(ps, i, r) ==
    LET p == ps[i] IN
    \/ /\ p.free # << >>
       /\ pools' = ps
       /\ live' = BagAdd(live, Handed(Head(p.free), r))
       /\ UNCHANGED upstream
    \/ /\ p.free = << >>
       /\ \E c \in Addrs \ upstream :
            /\ pools' = [ps EXCEPT ![i].chunks = <<c>> \o @, ![i].free = Tail(ChunkBlocks(c))]
            /\ live' = BagAdd(live, Handed(<<c, 1>>, r))
            /\ upstream' = upstream \cup {c}
    \/ /\ p.free = << >>
       /\ pools' = ps
       /\ UNCHANGED <<live, upstream>>
    \/ /\ p.free = << >>
       /\ \E c \in Addrs \ upstream : ReturnChunk(c)
       /\ pools' = ps
       /\ UNCHANGED live

\* Pool::Allocate on the pool at position i of ps, for request r: pop the
\* free list, first taking a new chunk from upstream if it is empty.  The
\* upstream Allocate may throw BadAlloc, and chunks_.emplace_front may throw
\* after it; either way nothing is handed out.
PoolAllocate(ps, i, r) ==
    LET p == ps[i] IN
    \/ /\ p.free # << >>
       /\ pools' = [ps EXCEPT ![i].free = Tail(p.free)]
       /\ live' = BagAdd(live, Handed(Head(p.free), r))
       /\ UNCHANGED upstream
    \/ /\ p.free = << >>
       /\ \E c \in Addrs \ upstream :
            /\ pools' = [ps EXCEPT ![i].chunks = <<c>> \o @, ![i].free = Tail(ChunkBlocks(c))]
            /\ live' = BagAdd(live, Handed(<<c, 1>>, r))
            /\ upstream' = upstream \cup {c}
    \/ /\ p.free = << >>
       /\ pools' = ps
       /\ UNCHANGED <<live, upstream>>
    \/ /\ p.free = << >>
       /\ \E c \in Addrs \ upstream : ReturnChunk(c)
       /\ pools' = ps
       /\ UNCHANGED live

\* Pool::Deallocate: push the block onto the free list of the pool at i.
PoolDeallocate(i, block) == pools' = [pools EXCEPT ![i].free = <<block>> \o @]

\* Pool::Release: give every chunk back, unless the upstream is a
\* MonotonicBufferResource, which frees them itself; forget them.
PoolRelease(p) == IF UpstreamIsMonotonic THEN {} ELSE ToSet(p.chunks)

-----------------------------------------------------------------------------
(* PoolResource.                                                           *)

\* Faulty variant, for mutation: only last_alloc_pool_ re-pointed.
SetCachesAllocOnly(i, bs) ==
    /\ last_alloc_pool' = i
    /\ cached_size' = [cached_size EXCEPT !.alloc = bs]
    /\ UNCHANGED last_dealloc_pool

\* Faulty variant, for mutation: the caches set one past the emplaced pool.
SetCachesNext(i, bs) ==
    /\ last_alloc_pool' = i + 1
    /\ last_dealloc_pool' = i + 1
    /\ cached_size' = [alloc |-> bs, dealloc |-> bs]

\* last_alloc_pool_ = last_dealloc_pool_ = &*it.
SetCaches(i, bs) ==
    /\ last_alloc_pool' = i
    /\ last_dealloc_pool' = i
    /\ cached_size' = [alloc |-> bs, dealloc |-> bs]

\* Faulty variant, for mutation: a big block appended to unpooled_.
UnpooledPositionEnd(a) == Len(unpooled) + 1

\* The position std::lower_bound finds for a big block at address a.
UnpooledPosition(a) ==
    LowerBound([i \in 1..Len(unpooled) |-> unpooled[i].data], 1, Len(unpooled), a)

\* Faulty variant, for mutation: only last_alloc_pool_ re-pointed after
\* pools_.emplace.
RepointAllocCacheAtNewPool(i, bs) == SetCachesAllocOnly(i, bs)

\* After pools_.emplace: both caches re-pointed at the new pool, since the
\* emplace moved the pools they pointed at.
RepointCachesAtNewPool(i, bs) == SetCaches(i, bs)

\* DoAllocate of more than max_block_size_: a big block straight from
\* upstream, inserted into unpooled_ at its sorted position.  A BadAlloc of
\* the upstream, or of unpooled_.insert followed by the Deallocate of its
\* catch, leaves everything as it was.
AllocateBig(r) ==
    /\ BlockSizeOf(r) > MaxBlockSize
    /\ \E a \in Addrs \ upstream :
         /\ unpooled' = InsertAt(unpooled, UnpooledPosition(a),
                                 [data |-> a, bytes |-> Bytes(r), alignment |-> Alignment(r)])
         /\ upstream' = upstream \cup {a}
         /\ live' = BagAdd(live, Handed(BigBlock(a), r))
    /\ UNCHANGED <<pools, last_alloc_pool, last_dealloc_pool, cached_size>>

\* DoAllocate, fast path: last_alloc_pool_ has the block size.
AllocateCachedPool(r) ==
    /\ BlockSizeOf(r) <= MaxBlockSize
    /\ last_alloc_pool # 0
    /\ pools[last_alloc_pool].block_size = BlockSizeOf(r)
    /\ PoolAllocate(pools, last_alloc_pool, r)
    /\ UNCHANGED <<unpooled, last_alloc_pool, last_dealloc_pool, cached_size>>

\* DoAllocate, slow path: std::lower_bound finds the pool of the block size.
AllocateFoundPool(r) ==
    LET bs == BlockSizeOf(r)
        i  == PoolPosition(bs)
    IN  /\ bs <= MaxBlockSize
        /\ ~(last_alloc_pool # 0 /\ pools[last_alloc_pool].block_size = bs)
        /\ i <= Len(pools) /\ pools[i].block_size = bs
        /\ SetCaches(i, bs)
        /\ PoolAllocate(pools, i, r)
        /\ UNCHANGED unpooled

\* DoAllocate, no pool of the block size: pools_.emplace a new one at its
\* sorted position, which moves every pool after it, and allocate from it.
AllocateNewPool(r) ==
    LET bs == BlockSizeOf(r)
        i  == PoolPosition(bs)
    IN  /\ bs <= MaxBlockSize
        /\ ~(last_alloc_pool # 0 /\ pools[last_alloc_pool].block_size = bs)
        /\ ~(i <= Len(pools) /\ pools[i].block_size = bs)
        /\ RepointCachesAtNewPool(i, bs)
        /\ PoolAllocate(InsertAt(pools, i, NewPool(bs)), i, r)
        /\ UNCHANGED unpooled

\* PoolResource::DoAllocate.  A request whose block size is not a multiple
\* of its alignment throws BadAlloc and changes nothing.
DoAllocate(r) ==
    /\ BlockSizeOf(r) % Alignment(r) = 0
    /\ \/ AllocateBig(r)
       \/ AllocateCachedPool(r)
       \/ AllocateFoundPool(r)
       \/ AllocateNewPool(r)

\* DoDeallocate of a big block: find it in unpooled_ by std::lower_bound,
\* MG_ASSERT that it is the block, erase it and give it back upstream.
DeallocateBig(l) ==
    LET a == l.block[1]
        i == UnpooledPosition(a)
    IN  /\ BlockSizeOf(<<l.bytes, l.alignment>>) > MaxBlockSize
        /\ i <= Len(unpooled)
        /\ unpooled[i] = [data |-> a, bytes |-> l.bytes, alignment |-> l.alignment]
        /\ unpooled' = RemoveAt(unpooled, i)
        /\ upstream' = upstream \ {a}
        /\ live' = BagRemove(live, l)
        /\ UNCHANGED <<pools, last_alloc_pool, last_dealloc_pool, cached_size>>

\* DoDeallocate, fast path: last_dealloc_pool_ has the block size.
DeallocateCachedPool(l) ==
    LET bs == BlockSizeOf(<<l.bytes, l.alignment>>)
    IN  /\ bs <= MaxBlockSize
        /\ last_dealloc_pool # 0
        /\ pools[last_dealloc_pool].block_size = bs
        /\ PoolDeallocate(last_dealloc_pool, l.block)
        /\ live' = BagRemove(live, l)
        /\ UNCHANGED <<unpooled, upstream, last_alloc_pool, last_dealloc_pool, cached_size>>

\* DoDeallocate, slow path: std::lower_bound, MG_ASSERT that the pool of
\* the block size exists, re-point both caches at it, push the block.
DeallocateFoundPool(l) ==
    LET bs == BlockSizeOf(<<l.bytes, l.alignment>>)
        i  == PoolPosition(bs)
    IN  /\ bs <= MaxBlockSize
        /\ ~(last_dealloc_pool # 0 /\ pools[last_dealloc_pool].block_size = bs)
        /\ i <= Len(pools)
        /\ pools[i].block_size = bs
        /\ SetCaches(i, bs)
        /\ PoolDeallocate(i, l.block)
        /\ live' = BagRemove(live, l)
        /\ UNCHANGED <<unpooled, upstream>>

\* PoolResource::Release: release every pool, give back every big block,
\* forget all of them and both caches.  Every block handed out is void.
Release ==
    /\ pools' = << >>
    /\ unpooled' = << >>
    /\ upstream' = upstream \ (UNION { PoolRelease(pools[i]) : i \in 1..Len(pools) }
                               \cup { b.data : b \in ToSet(unpooled) })
    /\ last_alloc_pool' = 0
    /\ last_dealloc_pool' = 0
    /\ live' = EmptyBag
    /\ UNCHANGED cached_size

-----------------------------------------------------------------------------

Init ==
    /\ pools = << >>
    /\ unpooled = << >>
    /\ last_alloc_pool = 0
    /\ last_dealloc_pool = 0
    /\ cached_size = [alloc |-> 0, dealloc |-> 0]
    /\ upstream = {}
    /\ live = EmptyBag

\* The calls a correct user makes: allocate any request, deallocate a block
\* it holds with the request it got it for, or release everything.
Next ==
    \/ \E r \in Requests : DoAllocate(r)
    \/ \E l \in BagToSet(live) : DeallocateBig(l)
    \/ \E l \in BagToSet(live) : DeallocateCachedPool(l)
    \/ \E l \in BagToSet(live) : DeallocateFoundPool(l)
    \/ Release

Spec == Init /\ [][Next]_vars

-----------------------------------------------------------------------------
(* Properties.                                                             *)

Block == (Addrs \X (1..BlocksPerChunk)) \cup {BigBlock(a) : a \in Addrs}
BlockSizes == {BlockSizeOf(r) : r \in Requests}

PooledLive(bs) == { l \in BagToSet(live) : l.block[2] # 0 /\ BlockSizeOf(<<l.bytes, l.alignment>>) = bs }

\* Every variable holds a value of its type.
TypeOK ==
    /\ pools \in Seq([block_size : BlockSizes, chunks : Seq(Addrs), free : Seq(Block)])
    /\ unpooled \in Seq([data : Addrs, bytes : Nat, alignment : Nat])
    /\ last_alloc_pool \in 0..Len(pools)
    /\ last_dealloc_pool \in 0..Len(pools)
    /\ upstream \subseteq Addrs
    /\ IsABag(live)
    /\ BagToSet(live) \subseteq [block : Block, bytes : Nat, alignment : Nat]

\* No block is handed out twice: within each pool, the free list holds each
\* block once, none of them handed out, and with the handed-out blocks of
\* that block size it makes up exactly the blocks of the pool's chunks.
\* Allocation pops, deallocation pushes onto whichever pool the cached
\* pointers or std::lower_bound pick, and a failed chunk allocation must
\* leave a pool as it was.
BlocksPartitioned ==
    \A i \in 1..Len(pools) :
        LET p     == pools[i]
            owned == { <<c, k>> : c \in ToSet(p.chunks), k \in 1..BlocksPerChunk }
        IN  /\ Len(p.free) = Cardinality(ToSet(p.free))
            /\ ToSet(p.free) \cap { l.block : l \in BagToSet(live) } = {}
            /\ ToSet(p.free) \cup { l.block : l \in PooledLive(p.block_size) } = owned

\* The cached pools are current: a non-null last_alloc_pool_ or
\* last_dealloc_pool_ points at the pool it was set to.  pools_.emplace
\* moves every pool after the insertion point (and all of them when the
\* vector grows), so a pointer kept across it would be dangling.
CachesCurrent ==
    /\ last_alloc_pool # 0 => pools[last_alloc_pool].block_size = cached_size.alloc
    /\ last_dealloc_pool # 0 => pools[last_dealloc_pool].block_size = cached_size.dealloc

\* unpooled_ stays sorted by address and holds exactly the big blocks handed
\* out, so the std::lower_bound of DoDeallocate finds the block and its two
\* MG_ASSERT("Failed deallocation") hold.
UnpooledMatchesLive ==
    /\ IsSorted([i \in 1..Len(unpooled) |-> unpooled[i].data], <)
    /\ ToSet(unpooled) =
         { [data |-> l.block[1], bytes |-> l.bytes, alignment |-> l.alignment]
           : l \in { x \in BagToSet(live) : x.block[2] = 0 } }

\* Nothing taken from upstream is lost: when the pools' upstream is not a
\* MonotonicBufferResource, the addresses held upstream are exactly the
\* chunks of the pools and the big blocks, also after a chunk allocation
\* whose chunks_.emplace_front threw.
UpstreamAccounted ==
    ~UpstreamIsMonotonic =>
        upstream = UNION { ToSet(pools[i].chunks) : i \in 1..Len(pools) }
                   \cup { b.data : b \in ToSet(unpooled) }

\* How many times the program holds each block at once: the bag of the
\* blocks of live, counted over the requests they were handed out for.
HeldBag ==
    LET held == BagToSet(live)
    IN  [b \in { l.block : l \in held } |->
            MapThenSumSet(LAMBDA l : live[l], { l \in held : l.block = b })]

Abstract == INSTANCE Allocator WITH Blocks <- Block, held <- HeldBag

\* PoolResource implements a MemoryResource: every call, a failed one
\* included, hands out one block that no one holds at that moment, takes
\* back one held block, takes back all of them (Release) or changes
\* nothing.  That a block popped off a free list, or a chunk or big block
\* fresh from upstream, is not held already rests on the pools' free lists
\* and chunks and on upstream staying in step with the blocks handed out
\* over every allocation, deallocation and Release before it.  A pool that
\* hands out a block twice, for the same request or another, breaks it.
AllocatorRefined == Abstract!Spec

=============================================================================
