------------------------------ MODULE MCMemory ------------------------------
(***************************************************************************)
(* The two memory resources of utils/memory.cpp, for TLC, in one run.      *)
(* PoolResource and MonotonicBufferResource share no state, so a behaviour *)
(* exercises one of them: the variable checked names it, and the other     *)
(* resource keeps its initial state throughout.  Checking them side by     *)
(* side instead would multiply two independent state spaces.              *)
(***************************************************************************)
EXTENDS Naturals, TLC

CONSTANTS
    MaxBlockSize, BlocksPerChunk, Addrs, UpstreamIsMonotonic,
    Width, HeaderSize, MaxAlign, InitialSize, UseAfterMove,
    r1, r2

VARIABLES
    checked,
    \* PoolResource
    pools, unpooled, last_alloc_pool, last_dealloc_pool, cached_size, upstream, pool_live,
    \* MonotonicBufferResource
    alive, buffers, allocated, next_buffer_size, initial_buffer, initial_size,
    moved_from, mono_live, handed_twice

poolVars == <<pools, unpooled, last_alloc_pool, last_dealloc_pool, cached_size, upstream, pool_live>>
monoVars == <<alive, buffers, allocated, next_buffer_size, initial_buffer, initial_size,
              moved_from, mono_live, handed_twice>>

\* Requests of 1 and 2 bytes with their natural alignments, 2 bytes at
\* alignment 1, and a 4-byte request above max_block_size_.
PoolRequests == {<<1, 1>>, <<2, 1>>, <<2, 2>>, <<4, 4>>}

\* A byte, two bytes aligned to 8, a request larger than initial_size, and one
\* so large that bytes_for_buffer + size wraps around.
MonoRequests == {<<1, 1>>, <<2, 8>>, <<5, 1>>, <<30, 2>>}

\* Two MonotonicBufferResource objects; a caller buffer of 6 bytes at 24.
MCResources == {r1, r2}
MCInitialRegion == <<24, 6>>

P == INSTANCE PoolResource WITH Requests <- PoolRequests, live <- pool_live

M == INSTANCE MonotonicBuffer
       WITH Requests <- MonoRequests, live <- mono_live,
            Resources <- MCResources, InitialRegion <- MCInitialRegion

\* The initial state of M in which both resources are constructed with the
\* default initial_size: the state M keeps while PoolResource is checked.
MonoConstructed ==
    /\ alive = MCResources
    /\ initial_buffer = [r \in MCResources |-> 0]
    /\ initial_size = [r \in MCResources |-> InitialSize]
    /\ M!Init

Init ==
    /\ P!Init
    /\ \/ checked = "PoolResource" /\ MonoConstructed
       \/ checked = "MonotonicBufferResource" /\ M!Init

Next ==
    \/ checked = "PoolResource" /\ P!Next /\ UNCHANGED <<checked, monoVars>>
    \/ checked = "MonotonicBufferResource" /\ M!Next /\ UNCHANGED <<checked, poolVars>>

Spec == Init /\ [][Next]_<<checked, poolVars, monoVars>>

\* The two resources of M are interchangeable; PoolResource mentions neither.
MCSymmetry == Permutations(MCResources)

(***************************************************************************)
(* The properties of the two modules, named apart.                         *)
(***************************************************************************)

\* Both resources' variables hold values of their types.
TypeOK == checked \in {"PoolResource", "MonotonicBufferResource"} /\ P!TypeOK /\ M!TypeOK

\* PoolResource: for every block size, the free list of its pool and the
\* blocks the program holds make up exactly the blocks of the pool's chunks,
\* also after a chunk allocation that failed (impl::Pool::Allocate).
BlocksPartitioned == P!BlocksPartitioned

\* PoolResource: a non-null last_alloc_pool_ or last_dealloc_pool_ points
\* at the pool it was set to, although pools_.emplace moves pools.
CachesCurrent == P!CachesCurrent

\* PoolResource: unpooled_ stays sorted by address and holds exactly the
\* big blocks handed out, so DoDeallocate's std::lower_bound finds them.
UnpooledMatchesLive == P!UnpooledMatchesLive

\* PoolResource: the addresses held upstream are exactly the pools' chunks
\* and the big blocks, also after chunks_.emplace_front threw.
UpstreamAccounted == P!UpstreamAccounted

\* PoolResource implements the abstract Allocator of Allocator.tla: every
\* call hands out one free block, takes back held ones, or does nothing.
AllocatorRefined == P!AllocatorRefined

\* MonotonicBufferResource: every live block lies inside its resource's
\* buffers or initial buffer, without wrapping the address space.
LiveBlocksInside == M!LiveBlocksInside

\* MonotonicBufferResource: no byte is in two blocks in use, over both
\* resources and across moves.
LiveBlocksDisjoint == M!LiveBlocksDisjoint

\* MonotonicBufferResource: every block has the alignment it was asked for.
LiveBlocksAligned == M!LiveBlocksAligned

=============================================================================
